------------------------------ MODULE Dispatch ------------------------------
(***************************************************************************)
(* How a request is served (internal/proxy/middleware.go, step 3 of        *)
(* RoundTrip): up to MaxRetries + 1 attempts, each of which draws a key    *)
(* from the pool, or else offers the prompt to a peer, or else goes        *)
(* upstream with the credential it has; a 429 is retried, an outage fails  *)
(* over to another provider.  A slot also serves the prompts that peers    *)
(* send here (internal/p2p/protocol.go): those draw from the same pool and *)
(* get one attempt.                                                        *)
(***************************************************************************)
EXTENDS QuotaPool

CONSTANTS
  Peers,          \* connected peers that speak the protocol
  P2PEnabled,     \* p2p.enabled
  StrictZKP,      \* mesh.strict_zkp_mode
  KeyHeader,      \* KeyHeader[p]: where the configured key of p travels
  Client,         \* a credential the client sent itself
  Configured,     \* providers with a key in the configuration
  Fallback,       \* budget.fallback_provider, deepseek when not set; one of
                  \* the five the router knows how to address
  Traffic,        \* the requests that arrive in this instance
  MaxRetries,     \* 3 in the code
  MaxOps          \* bound on donations, revocations, re-ratings, restarts,
                  \* failed statements and negative estimates

\* The headers that hold a credential, or whatever the client put there.
Headers == {"authorization", "original", "x-api-key", "x-goog-api-key"}
Credentials == Providers \cup {Client, None}

\* What a request is: on whose behalf, from a peer or not, for which provider,
\* a chat completion or not, its estimate (what a peer says goes unchecked),
\* and the headers the client sent.
Kinds == [who : Users \cup {NoUser}, remote : BOOLEAN, prov : Providers,
          chat : BOOLEAN, est : {n \in Int : n <= MaxEst},
          carries : SUBSET Headers]

ASSUME DispatchAssumption ==
  /\ Peers \subseteq Users
  /\ P2PEnabled \in BOOLEAN /\ StrictZKP \in BOOLEAN
  /\ KeyHeader \in [Providers -> Headers \ {"original"}]
  /\ Configured \subseteq Providers
  /\ Fallback \in Providers
  /\ Traffic \subseteq Kinds
  /\ \A k \in Traffic : ~k.remote => k.est >= 0   \* the proxy's own count
  /\ MaxRetries \in Nat /\ MaxOps \in Nat
  /\ None \notin Providers \cup {Client} /\ Client \notin Providers

VARIABLES
  pc,        \* where each slot is
  req,       \* the request it serves
  res,       \* the answer it has
  ops

slotVars == <<pc, req, res>>
vars == <<poolVars, slotVars, ops>>

\* idle -> read -> gate -> scan -> send -> done, with offload -> peers
\* between a refusal and send; a prompt from a peer is served instead of sent.
Phases == {"idle", "read", "gate", "scan", "offload", "peers", "send", "serve",
           "done"}
Answers == {"none", "ok", "limited", "outage", "neterr", "peer", "refused"}

\* first: the provider it was meant for; hdr[h]: whose key is in header h.
NoReq == [who |-> NoUser, remote |-> FALSE, prov |-> None, chat |-> FALSE,
          est |-> 0, attempt |-> 0, first |-> None,
          hdr |-> [h \in Headers |-> None], peers |-> {}]

TypeOK ==
  /\ PoolTypeOK
  /\ pc \in [Slots -> Phases]
  /\ res \in [Slots -> Answers]
  /\ \A r \in Slots :
       /\ req[r].who \in Users \cup {NoUser}
       /\ req[r].prov \in Providers \cup {None}
       /\ req[r].attempt \in 0 .. MaxRetries + 1
       /\ req[r].peers \subseteq Peers
  /\ ops \in 0 .. MaxOps

Init ==
  /\ PoolInit
  /\ pc = [r \in Slots |-> "idle"]
  /\ req = [r \in Slots |-> NoReq]
  /\ res = [r \in Slots |-> "none"]
  /\ ops = 0

Goto(r, phase) == pc' = [pc EXCEPT ![r] = phase]
Finish(r, answer) ==
  /\ Goto(r, "done")
  /\ res' = [res EXCEPT ![r] = answer]
  /\ req' = [req EXCEPT ![r] = NoReq]

----------------------------------------------------------------------------
(* A request arrives.                                                      *)

\* Director keeps a copy of the client's Authorization and puts the configured
\* key of the provider into its header; the other headers stay as they are.
WithConfiguredKey(q, p) ==
  [q EXCEPT !.hdr = [h \in Headers |->
     IF h = KeyHeader[p] THEN IF p \in Configured THEN p ELSE None
     ELSE IF h = "original" /\ q.hdr["authorization"] # None
       THEN q.hdr["authorization"] ELSE q.hdr[h]]]

Arriving(k) ==
  [NoReq EXCEPT !.who = k.who, !.remote = k.remote, !.prov = k.prov,
                !.first = k.prov, !.chat = k.chat, !.est = k.est,
                !.hdr = [h \in Headers |-> IF h \in k.carries THEN Client ELSE None]]

\* A prompt from a peer is only taken when the peer is not barred.
Begin(r) ==
  /\ pc[r] = "idle"
  /\ \E k \in Traffic :
       /\ k.remote => P2PEnabled /\ standing[k.who] # "barred"
       /\ req' = [req EXCEPT ![r] =
            IF k.remote THEN Arriving(k) ELSE WithConfiguredKey(Arriving(k), k.prov)]
       /\ IF k.est >= 0 THEN UNCHANGED ops ELSE ops < MaxOps /\ ops' = ops + 1
  /\ Goto(r, "read")
  /\ UNCHANGED <<poolVars, res>>

----------------------------------------------------------------------------
(* The key of an attempt.                                                  *)

\* No key.  A peer is told so; a client's request is offered to the mesh,
\* or else goes upstream with the credential it carries.
NoKey(r) ==
  IF req[r].remote THEN Finish(r, "refused")
  ELSE /\ Goto(r, IF P2PEnabled THEN "offload" ELSE "send")
       /\ UNCHANGED <<req, res>>

\* In strict mode a peer whose proof does not verify is slashed and refused.
RejectProof(r) ==
  /\ pc[r] = "read" /\ req[r].remote /\ StrictZKP
  /\ \E s \in {"barred", standing[req[r].who]} :
       standing' = [standing EXCEPT ![req[r].who] = s]
  /\ Finish(r, "refused")
  /\ UNCHANGED <<rows, index, holder, scan, cryptoVars, bookVars, ops>>

ReadRows(r) ==
  /\ pc[r] = "read"
  /\ IF rows[req[r].prov] = <<>>
       THEN NoKey(r) /\ UNCHANGED scan
       ELSE Snapshot(r, req[r].prov) /\ Goto(r, "gate") /\ UNCHANGED <<req, res>>
  /\ UNCHANGED <<rows, index, holder, cryptoVars, standing, bookVars, ops>>

\* The rows cannot be read: as if there were none.
ReadFails(r) ==
  /\ pc[r] = "read"
  /\ ops < MaxOps /\ ops' = ops + 1
  /\ NoKey(r)
  /\ UNCHANGED poolVars

\* The lock is taken, the session checked, the start of the scan settled.
Gate(r) ==
  /\ pc[r] = "gate"
  /\ IF Refused(req[r].who)
       THEN holder = None /\ UNCHANGED holder /\ NoKey(r)
            /\ scan' = [scan EXCEPT ![r] = NoScan]
       ELSE Acquire(r) /\ StartAt(r, req[r].prov) /\ Goto(r, "scan")
            /\ UNCHANGED <<req, res>>
  /\ UNCHANGED <<rows, index, cryptoVars, standing, bookVars, ops>>

Skip(r) ==
  /\ pc[r] = "scan" /\ scan[r].left > 0
  /\ ~Usable(r, req[r].who)
  /\ PassOver(r, req[r].prov)
  /\ UNCHANGED <<rows, quota, sessionVars, holder, cryptoVars, standing, drawn,
                 repaid, lost, slotVars, ops>>

\* The key drawn replaces the one in the header of its provider.
WithPoolKey(q) ==
  IF KeyHeader[q.prov] = "x-api-key" THEN [q EXCEPT !.hdr["x-api-key"] = q.prov]
                                     ELSE [q EXCEPT !.hdr["authorization"] = q.prov]

TakeKey(r) ==
  /\ pc[r] = "scan" /\ scan[r].left > 0
  /\ Usable(r, req[r].who)
  /\ \E failed \in BOOLEAN :
       /\ failed => ops < MaxOps
       /\ ops' = IF failed THEN ops + 1 ELSE ops
       /\ Draw(r, req[r].prov, req[r].who, req[r].est, failed)
  /\ req' = [req EXCEPT ![r] = WithPoolKey(@)]
  /\ Goto(r, IF req[r].remote THEN "serve" ELSE "send")
  /\ UNCHANGED <<rows, cryptoVars, standing, res>>

Exhausted(r) ==
  /\ pc[r] = "scan" /\ scan[r].left = 0
  /\ Release(r)
  /\ NoKey(r)
  /\ UNCHANGED <<rows, index, cryptoVars, standing, bookVars, ops>>

----------------------------------------------------------------------------
(* OffloadRequest: the peers that are not barred are pinged, those that    *)
(* answered are tried one after the other, the fastest first.  A ping has  *)
(* a deadline for opening its stream and none for the answer, and all of   *)
(* them are waited for.                                                    *)

PingPeers(r) ==
  /\ pc[r] = "offload"
  /\ \E answered \in SUBSET {u \in Peers : standing[u] # "barred"} :
       /\ req' = [req EXCEPT ![r].peers = answered]
       /\ Goto(r, IF answered = {} THEN "send" ELSE "peers")
  /\ UNCHANGED <<poolVars, res, ops>>

PeerAnswers(r) ==
  /\ pc[r] = "peers"
  /\ Finish(r, "peer")
  /\ UNCHANGED <<poolVars, ops>>

\* A refusal, an unreadable answer, a broken or timed out stream.
PeerFails(r) ==
  /\ pc[r] = "peers"
  /\ \E u \in req[r].peers :
       /\ req' = [req EXCEPT ![r].peers = @ \ {u}]
       /\ Goto(r, IF req[r].peers = {u} THEN "send" ELSE "peers")
  /\ UNCHANGED <<poolVars, res, ops>>

----------------------------------------------------------------------------
(* The answer of the provider.                                             *)

Answered(r, answer) ==
  /\ pc[r] = "send"
  /\ Finish(r, answer)
  /\ UNCHANGED <<poolVars, ops>>

\* Mutants: the attempts are not counted; the last 429 is dropped as well.
AgainUncounted(r, q) ==
  /\ req' = [req EXCEPT ![r] = q]
  /\ Goto(r, "read")
AlwaysRetry(r) == TRUE

\* The next attempt, of the request as it is now, without the last answer.
Again(r, q) ==
  /\ req' = [req EXCEPT ![r] = [q EXCEPT !.attempt = @ + 1]]
  /\ Goto(r, IF q.attempt < MaxRetries THEN "read" ELSE "done")

MayRetry(r) == req[r].attempt < MaxRetries

Succeed(r) == Answered(r, "ok")           \* or a client error, passed on
BreakOff(r) == Answered(r, "neterr")      \* a network error is not retried
GiveUp(r) == ~MayRetry(r) /\ Answered(r, "limited")

Retry(r) ==
  /\ pc[r] = "send" /\ MayRetry(r)
  /\ Again(r, req[r])
  /\ UNCHANGED <<poolVars, res, ops>>

\* Only a chat completion can be translated, and not to where it comes from.
MayFailOver(r) == MayRetry(r) /\ req[r].chat /\ req[r].prov # Fallback

\* Mutant: the old Authorization header is sent along.
TranslatedKeeping(q, p) ==
  IF KeyHeader[p] = "x-api-key"
    THEN [q EXCEPT !.prov = p, !.chat = FALSE,
                   !.hdr["x-api-key"] = IF p \in Configured THEN p ELSE @]
    ELSE [q EXCEPT !.prov = p]

\* For anthropic the Authorization header is dropped and the configured key
\* set; for the others, and in the other headers, everything stays as it is.
Translated(q, p) ==
  IF KeyHeader[p] = "x-api-key"
    THEN [q EXCEPT !.prov = p, !.chat = FALSE, !.hdr["authorization"] = None,
                   !.hdr["x-api-key"] = IF p \in Configured THEN p ELSE @]
    ELSE [q EXCEPT !.prov = p]

FailOver(r) ==
  /\ pc[r] = "send" /\ MayFailOver(r)
  /\ Again(r, Translated(req[r], Fallback))
  /\ UNCHANGED <<poolVars, res, ops>>

Outage(r) == ~MayFailOver(r) /\ Answered(r, "outage")

\* A prompt from a peer gets one attempt of at most 60 seconds.
Serve(r) ==
  /\ pc[r] = "serve"
  /\ \E answer \in {"ok", "refused"} : Finish(r, answer)
  /\ UNCHANGED <<poolVars, ops>>

Return(r) ==
  /\ pc[r] = "done"
  /\ Goto(r, "idle")
  /\ req' = [req EXCEPT ![r] = NoReq]
  /\ res' = [res EXCEPT ![r] = "none"]
  /\ UNCHANGED <<poolVars, ops>>

----------------------------------------------------------------------------
(* Around the requests.                                                    *)

Operate ==
  /\ ops < MaxOps
  /\ ops' = ops + 1
  /\ UNCHANGED slotVars
  /\ \/ \E n \in Nodes : HandlePoolDonate(n) \/ DonateCmd(n) \/ Revoke(n)
     \/ \E u \in Users : Rerate(u)

Restart ==
  /\ ops < MaxOps
  /\ ops' = ops + 1
  /\ PoolRestart
  /\ pc' = [r \in Slots |-> "idle"]
  /\ req' = [r \in Slots |-> NoReq]
  /\ res' = [r \in Slots |-> "none"]

KeyStep(r) ==
  RejectProof(r) \/ ReadRows(r) \/ ReadFails(r) \/ Skip(r) \/ TakeKey(r) \/ Exhausted(r)
PeerCall(r) == PeerAnswers(r) \/ PeerFails(r)
PeerStep(r) == PingPeers(r) \/ PeerCall(r)
Upstream(r) ==
  Succeed(r) \/ BreakOff(r) \/ GiveUp(r) \/ Retry(r) \/ FailOver(r) \/ Outage(r)

Next ==
  \/ \E r \in Slots :
       \/ Begin(r)
       \/ Gate(r) \/ KeyStep(r) \/ PeerStep(r) \/ Upstream(r)
       \/ Serve(r) \/ Return(r)
  \/ Operate \/ Restart

Spec == Init /\ [][Next]_vars

\* A goroutine runs on; a waiter of a sync.Mutex is not starved; the call of a
\* peer and the upstream call made for a peer have a deadline.  The transport
\* of the proxy sets no response timeout and a ping none for its answer, so
\* nothing is assumed of Upstream and PingPeers.
Fairness ==
  \A r \in Slots :
    /\ WF_vars(KeyStep(r) \/ PeerCall(r) \/ Serve(r) \/ Return(r))
    /\ SF_vars(Gate(r))

FairSpec == Spec /\ Fairness

----------------------------------------------------------------------------
(* Properties.                                                             *)

\* The loop never ends without an answer (middleware.go:399, :461 drop the
\* one they had; after the loop the answer is dereferenced).
DoneHasAnswer == \A r \in Slots : pc[r] = "done" => res[r] # "none"

\* Every request comes to an end, or waits for its provider or for a ping for
\* ever: no order of refusals, retries, failovers and peers keeps it going,
\* and the lock of the engine is always given up.
EndsOrHangs ==
  \A r \in Slots : []<>(pc[r] = "idle") \/ <>[](pc[r] = "send") \/ <>[](pc[r] = "offload")

\* A header that a failover neither replaces nor removes.
Survives(q, h) ==
  /\ q.prov # q.first /\ q.hdr[h] = q.first
  /\ ~(h = "authorization" /\ KeyHeader[q.prov] = "x-api-key")

\* A request carries no key of the proxy but those of the provider it is sent
\* to, and after a failover those of the provider it was meant for, never in
\* the Authorization header of a request to anthropic (middleware.go:430):
\* neither retries nor keys drawn for an earlier attempt change that.
CredentialMatches ==
  \A r \in Slots : pc[r] = "send" =>
    LET q == req[r] IN
    \A h \in Headers : q.hdr[h] \in {q.prov, Client, None} \/ Survives(q, h)

\* A failover leaves no key of the old provider: "`anthropic` and `openai` as
\* proper smart fallback providers with automatic payload and header
\* translation" (CHANGELOG.md:217).  Violated with the fallback openai.
HeadersTranslated ==
  \A r \in Slots : pc[r] = "send" =>
    \A h \in Headers : req[r].hdr[h] \in {req[r].prov, Client, None}
=============================================================================
