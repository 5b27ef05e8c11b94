----------------------------- MODULE BudgetGate -----------------------------
(***************************************************************************)
(* The budget gate of the proxy: RoundTrip (internal/proxy/middleware.go)  *)
(* with the guards it consults (internal/budget/guard.go), the ledger it   *)
(* books to, and the interceptor of streamed responses (streaming.go), in  *)
(* local mode.  Many requests run at once; a slot is one goroutine serving *)
(* one request after another.  A step of a slot ends where the code gives  *)
(* up a lock: everything read before that may be stale when it is used.    *)
(***************************************************************************)
EXTENDS Ledger

CONSTANTS
  Slots,         \* requests that can be in flight at the same time
  GlobalLimit,   \* budget.global_limit_usd, 0 = not set
  SessionLimit,  \* budget.max_session_cost_usd, 0 = not set
  Allocated,     \* Allocated[k]: allocated_budget_usd of a key
  OrgLimit,      \* OrgLimit[o]: budget_limit_usd of an organization
  AmberPct, RedPct,
  MaxCost,       \* the most one transaction costs
  Callers,       \* the clients that send requests in this instance
  MaxFaults,     \* bound on failed statements, failed reads and crashes
  MaxOps,        \* bound on what the operator does
  Global         \* names the global budget among the scopes

ASSUME GateAssumption ==
  /\ IsFiniteSet(Slots)
  /\ GlobalLimit \in Nat
  /\ SessionLimit \in Nat
  /\ Allocated \in [Keys -> Nat \ {0}]
  /\ OrgLimit \in [Orgs -> Nat \ {0}]
  /\ AmberPct \in Nat \ {0}       \* 0 is replaced by 70,
  /\ RedPct \in Nat \ {0}         \* and by 95
  /\ MaxCost \in Nat
  /\ Callers \subseteq Clients
  /\ MaxFaults \in Nat
  /\ MaxOps \in Nat
  /\ Global \notin Clients \cup Orgs \cup {NoOrg}
  /\ Orgs \cap (Keys \cup Sessions) = {}

Scopes == {Global} \cup Keys \cup Sessions \cup Orgs

VARIABLES
  pc,              \* where each slot is
  cred,            \* who the request of a slot speaks for
  zone,            \* the zone the slot last read
  bill,            \* cost it will book (buffered), tokens counted (stream)
  inputDue,        \* slots whose stream goroutine has not booked the input
  lastGlobalZone,  \* the package variable of guard.go
  dispatched,      \* history: <<scope, zone>> of the alerts dispatched, those of
                   \* the global budget since its last reset
  waived,          \* history: waived[s], admissions whose check of s failed
  faults,          \* faults so far
  ops              \* operator actions so far

slotVars == <<pc, cred, zone, bill, inputDue>>
guardVars == <<lastGlobalZone, dispatched>>
faultVars == <<waived, faults>>
vars == <<ledgerVars, slotVars, guardVars, faultVars, ops>>

\* idle -> guard [-> alert] -> auth -> [org ->] key [-> keyzone -> keyalert]
\* -> forward, or auth -> session -> forward; then bill -> idle, or stream
\* [-> streamzone -> streamalert] -> bill.  In the alert phases the new zone
\* is stored, its lock released, and the alert still to be sent.
Phases == {"idle", "guard", "alert", "auth", "org", "key", "keyzone",
           "keyalert", "session", "forward", "bill", "stream", "streamzone",
           "streamalert"}

SlotTypeOK ==
  /\ pc \in [Slots -> Phases]
  /\ cred \in [Slots -> Clients]
  /\ zone \in [Slots -> Zones]
  /\ bill \in [Slots -> 0 .. MaxCost]
  /\ inputDue \subseteq Slots

GuardTypeOK ==
  /\ lastGlobalZone \in Zones
  /\ dispatched \subseteq Scopes \X Zones

FaultTypeOK ==
  /\ waived \in [Scopes -> Nat]
  /\ faults \in 0 .. MaxFaults

TypeOK ==
  /\ LedgerTypeOK
  /\ SlotTypeOK
  /\ GuardTypeOK
  /\ FaultTypeOK
  /\ ops \in 0 .. MaxOps

----------------------------------------------------------------------------
(* Zones (guard.go).  A percentage of a limit is reached by a whole number *)
(* of cost units exactly when the rounded-up percentage is.                *)

Threshold(limit, pct) == (limit * pct + 99) \div 100

ZoneOf(amount, limit) ==
  IF amount >= Threshold(limit, RedPct) THEN "RED"
  ELSE IF amount >= Threshold(limit, AmberPct) THEN "AMBER" ELSE "GREEN"

\* An unset limit falls back to these.
EffectiveGlobalLimit == IF GlobalLimit = 0 THEN 999999 ELSE GlobalLimit
EffectiveSessionLimit == IF SessionLimit = 0 THEN 5 ELSE SessionLimit

GlobalZone == ZoneOf(spent, EffectiveGlobalLimit)
SessionZone(s) == ZoneOf(sessionSpent[s], EffectiveSessionLimit)
KeyZone(k) == ZoneOf(keyConsumed[k], Allocated[k])

\* The zone RoundTrip computes from the row it authenticated (75%, 100%).
RowZone(k) ==
  IF keyConsumed[k] >= Allocated[k] THEN "RED"
  ELSE IF 4 * keyConsumed[k] >= 3 * Allocated[k] THEN "AMBER" ELSE "GREEN"

----------------------------------------------------------------------------
(* Slots.                                                                  *)

Goto(r, phase) == pc' = [pc EXCEPT ![r] = phase]

\* r stops serving.  Its client is still needed while the goroutine that
\* books the input of a stream is running.
Leave(r) ==
  /\ Goto(r, "idle")
  /\ cred' = IF r \in inputDue THEN cred ELSE [cred EXCEPT ![r] = Anonymous]
  /\ zone' = [zone EXCEPT ![r] = "GREEN"]
  /\ bill' = [bill EXCEPT ![r] = 0]
  /\ UNCHANGED inputDue

\* r goes on with what it knows.
Proceed(r, phase) ==
  /\ Goto(r, phase)
  /\ UNCHANGED <<cred, zone, bill, inputDue>>

ProceedIn(r, phase, z) ==
  /\ Goto(r, phase)
  /\ zone' = [zone EXCEPT ![r] = z]
  /\ UNCHANGED <<cred, bill, inputDue>>

Dispatch(scope, z) == dispatched' = dispatched \cup {<<scope, z>>}

Fault == faults < MaxFaults /\ faults' = faults + 1

\* The check of scope failed, and a failed check lets the request through.
FailOpen(scope) ==
  /\ Fault
  /\ waived' = [waived EXCEPT ![scope] = @ + 1]

NoFault == UNCHANGED faultVars

----------------------------------------------------------------------------
(* CheckBudget.  The spend is read under the ledger's lock, the zone shift *)
(* is decided later under globalZoneMu.                                    *)

Arrive(r, c) ==
  /\ pc[r] = "idle" /\ r \notin inputDue
  /\ Goto(r, "guard")
  /\ cred' = [cred EXCEPT ![r] = c]
  /\ zone' = [zone EXCEPT ![r] = GlobalZone]
  /\ UNCHANGED <<bill, inputDue, ledgerVars, guardVars>>
  /\ NoFault

ArriveUnchecked(r, c) ==
  /\ pc[r] = "idle" /\ r \notin inputDue
  /\ FailOpen(Global)
  /\ Goto(r, "auth")
  /\ cred' = [cred EXCEPT ![r] = c]
  /\ UNCHANGED <<zone, bill, inputDue, ledgerVars, guardVars>>

\* The global check is over for r.
GlobalVerdict(r) == IF zone[r] = "RED" THEN Leave(r) ELSE ProceedIn(r, "auth", "GREEN")

\* Mutant: a request that reads the zone another one has stored goes on.
GuardBlocksOnce(r) ==
  /\ pc[r] = "guard"
  /\ IF zone[r] # lastGlobalZone /\ zone[r] # "GREEN"
       THEN lastGlobalZone' = zone[r] /\ Proceed(r, "alert")
       ELSE ProceedIn(r, "auth", "GREEN") /\ UNCHANGED lastGlobalZone
  /\ UNCHANGED <<dispatched, ledgerVars>>
  /\ NoFault

\* Mutant: a shift is taken to go from one zone to the next.
GuardExpectsAmber(r) ==
  /\ pc[r] = "guard"
  /\ IF zone[r] = "AMBER" \/ (zone[r] = "RED" /\ lastGlobalZone = "AMBER")
       THEN lastGlobalZone' = zone[r] /\ Proceed(r, "alert")
       ELSE GlobalVerdict(r) /\ UNCHANGED lastGlobalZone
  /\ UNCHANGED <<dispatched, ledgerVars>>
  /\ NoFault

\* A shift is stored under globalZoneMu and announced after the unlock.
GuardDecides(r) ==
  /\ pc[r] = "guard"
  /\ IF zone[r] # lastGlobalZone /\ zone[r] # "GREEN"
       THEN lastGlobalZone' = zone[r] /\ Proceed(r, "alert")
       ELSE GlobalVerdict(r) /\ UNCHANGED lastGlobalZone
  /\ UNCHANGED <<dispatched, ledgerVars>>
  /\ NoFault

GuardAlert(r) ==
  /\ pc[r] = "alert"
  /\ Dispatch(Global, zone[r])
  /\ GlobalVerdict(r)
  /\ UNCHANGED <<lastGlobalZone, ledgerVars>>
  /\ NoFault

----------------------------------------------------------------------------
(* Authentication and the per-client budgets.                              *)

\* No virtual key and no session id: nothing to check.
AuthAnonymous(r) ==
  /\ pc[r] = "auth" /\ cred[r] = Anonymous
  /\ Proceed(r, "forward")
  /\ UNCHANGED <<ledgerVars, guardVars>>
  /\ NoFault

\* The legacy session id: CheckSessionBudget creates the row first.
AuthSession(r) ==
  /\ pc[r] = "auth" /\ cred[r] \in Sessions
  /\ EnsureSession(cred[r])
  /\ Proceed(r, "session")
  /\ UNCHANGED guardVars
  /\ NoFault

\* A virtual key: the row is read and matched.
AuthKey(r) ==
  /\ pc[r] = "auth" /\ cred[r] \in issued
  /\ ProceedIn(r, IF KeyOrg[cred[r]] = NoOrg THEN "key" ELSE "org",
               RowZone(cred[r]))
  /\ UNCHANGED <<ledgerVars, guardVars>>
  /\ NoFault

\* The key matches no row, the rows cannot be read, or the key may not use
\* the provider.
AuthRejects(r) ==
  /\ pc[r] = "auth" /\ cred[r] \in Keys
  /\ Leave(r)
  /\ UNCHANGED <<ledgerVars, guardVars>>
  /\ NoFault

\* Mutant: an organization may use up its limit and more.
OrgAllowsLimit(r) ==
  LET o == KeyOrg[cred[r]] IN
  /\ pc[r] = "org"
  /\ IF o \in orgRows /\ orgConsumed[o] > OrgLimit[o]
       THEN Leave(r)
       ELSE Proceed(r, "key")
  /\ UNCHANGED <<ledgerVars, guardVars>>
  /\ NoFault

\* The organization's own limit, read in a second query.  An organization
\* that was deleted limits nothing.
OrgDecides(r) ==
  LET o == KeyOrg[cred[r]] IN
  /\ pc[r] = "org"
  /\ IF o \in orgRows /\ orgConsumed[o] >= OrgLimit[o]
       THEN Leave(r)
       ELSE Proceed(r, "key")
  /\ UNCHANGED <<ledgerVars, guardVars>>
  /\ NoFault

OrgUnchecked(r) ==
  /\ pc[r] = "org"
  /\ FailOpen(KeyOrg[cred[r]])
  /\ Proceed(r, "key")
  /\ UNCHANGED <<ledgerVars, guardVars>>

\* Mutant: a zone is only announced when the key leaves GREEN.
KeyAnnouncedOnce(r) ==
  LET k == cred[r]
      z == KeyZone(k)
  IN  /\ pc[r] = "key" /\ k \in issued
      /\ IF z # "GREEN" /\ keyState[k] = "GREEN"
           THEN ProceedIn(r, "keyzone", z)
           ELSE IF z = "RED" THEN Leave(r) ELSE ProceedIn(r, "forward", z)
      /\ UNCHANGED <<ledgerVars, guardVars>>
      /\ NoFault

\* CheckVirtualKeyBudget reads the rows again.
KeyDecides(r) ==
  LET k == cred[r]
      z == KeyZone(k)
  IN  /\ pc[r] = "key" /\ k \in issued
      /\ IF z # keyState[k] /\ z # "GREEN"
           THEN ProceedIn(r, "keyzone", z)
           ELSE IF z = "RED" THEN Leave(r) ELSE ProceedIn(r, "forward", z)
      /\ UNCHANGED <<ledgerVars, guardVars>>
      /\ NoFault

\* Mutant: the check is tried again until the row is found.
KeyAwaited(r) ==
  /\ pc[r] = "key" /\ cred[r] \notin issued
  /\ Proceed(r, "key")
  /\ UNCHANGED <<ledgerVars, guardVars>>
  /\ NoFault

\* The row is gone since AuthKey: the error is logged and the request goes
\* on with the zone computed there.
KeyVanished(r) ==
  /\ pc[r] = "key" /\ cred[r] \notin issued
  /\ Proceed(r, "forward")
  /\ UNCHANGED <<ledgerVars, guardVars>>
  /\ NoFault

KeyUnchecked(r) ==
  /\ pc[r] = "key" /\ cred[r] \in issued
  /\ FailOpen(cred[r])
  /\ Proceed(r, "forward")
  /\ UNCHANGED <<ledgerVars, guardVars>>

\* The zone a slot read for its key is stored; that the store failed is not
\* noticed.
StoreKeyZone(r) ==
  /\ \/ UpdateVirtualKeyZone(cred[r], zone[r]) /\ UNCHANGED faults
     \/ UNCHANGED ledgerVars /\ Fault
  /\ UNCHANGED <<guardVars, waived>>

KeyZoneShift(r) ==
  /\ pc[r] = "keyzone"
  /\ StoreKeyZone(r)
  /\ Proceed(r, "keyalert")

\* Then, the ledger's lock released, it is announced.
AnnounceKeyZone(r) ==
  /\ Dispatch(cred[r], zone[r])
  /\ UNCHANGED <<lastGlobalZone, ledgerVars>>
  /\ NoFault

\* Mutant: the request that announces RED is still served.
KeyAlertServes(r) ==
  /\ pc[r] = "keyalert"
  /\ AnnounceKeyZone(r)
  /\ Proceed(r, "forward")

\* Only after the alert is the request blocked or let through, by the zone
\* read at KeyDecides.
KeyAlert(r) ==
  /\ pc[r] = "keyalert"
  /\ AnnounceKeyZone(r)
  /\ IF zone[r] = "RED" THEN Leave(r) ELSE Proceed(r, "forward")

\* Mutant: RED is a warning.
SessionWarnsOnly(r) ==
  /\ pc[r] = "session"
  /\ ProceedIn(r, "forward", SessionZone(cred[r]))
  /\ UNCHANGED <<ledgerVars, guardVars>>
  /\ NoFault

SessionDecides(r) ==
  /\ pc[r] = "session"
  /\ LET z == SessionZone(cred[r]) IN
       IF z = "RED" THEN Leave(r) ELSE ProceedIn(r, "forward", z)
  /\ UNCHANGED <<ledgerVars, guardVars>>
  /\ NoFault

SessionUnchecked(r) ==
  /\ \/ pc[r] = "auth" /\ cred[r] \in Sessions
     \/ pc[r] = "session"
  /\ FailOpen(cred[r])
  /\ Proceed(r, "forward")
  /\ UNCHANGED <<ledgerVars, guardVars>>

----------------------------------------------------------------------------
(* The upstream and what it costs.                                         *)

\* Rate limit, AI-WAF, moderation, a cache hit or a network error: the
\* request ends and books nothing.
EndUnbilled(r) ==
  /\ pc[r] = "forward"
  /\ Leave(r)
  /\ UNCHANGED <<ledgerVars, guardVars>>
  /\ NoFault

\* A buffered response has been read and priced.
AnswerBuffered(r, cost) ==
  /\ pc[r] = "forward"
  /\ Goto(r, "bill")
  /\ bill' = [bill EXCEPT ![r] = cost]
  /\ UNCHANGED <<cred, zone, inputDue, ledgerVars, guardVars>>
  /\ NoFault

\* An event stream: its input is booked by a goroutine of its own.
AnswerStream(r) ==
  /\ pc[r] = "forward"
  /\ Goto(r, "stream")
  /\ inputDue' = inputDue \cup {r}
  /\ UNCHANGED <<cred, zone, bill, ledgerVars, guardVars>>
  /\ NoFault

\* A data line adds to the count, then the ledger (and only the ledger) is
\* consulted.  A key that is no longer in the ledger cuts nothing.
StreamChunk(r, tokens) ==
  LET c == cred[r] IN
  /\ pc[r] = "stream" /\ bill[r] + tokens <= MaxCost
  /\ bill' = [bill EXCEPT ![r] = @ + tokens]
  /\ \/ /\ c \in issued
        /\ zone' = [zone EXCEPT ![r] = KeyZone(c)]
        /\ Goto(r, IF KeyZone(c) \notin {keyState[c], "GREEN"} THEN "streamzone"
                   ELSE IF KeyZone(c) = "RED" THEN "bill" ELSE "stream")
        /\ UNCHANGED sessionVars
     \/ /\ c \in Sessions
        /\ sessionRows' = sessionRows \cup {c}
        /\ Goto(r, IF SessionZone(c) = "RED" THEN "bill" ELSE "stream")
        /\ UNCHANGED <<zone, sessionConsumed>>
     \/ /\ c \notin issued \cup Sessions
        /\ UNCHANGED <<pc, zone, sessionVars>>
  /\ UNCHANGED <<cred, inputDue, spendVars, keyVars, orgVars, guardVars>>
  /\ NoFault

\* The check of a data line fails: the stream goes on.
StreamChunkUnchecked(r, tokens) ==
  /\ pc[r] = "stream" /\ bill[r] + tokens <= MaxCost
  /\ Fault
  /\ bill' = [bill EXCEPT ![r] = @ + tokens]
  /\ UNCHANGED <<pc, cred, zone, inputDue, ledgerVars, guardVars, waived>>

StreamZoneShift(r) ==
  /\ pc[r] = "streamzone"
  /\ StoreKeyZone(r)
  /\ Proceed(r, "streamalert")

StreamAlert(r) ==
  /\ pc[r] = "streamalert"
  /\ AnnounceKeyZone(r)
  /\ Proceed(r, IF zone[r] = "RED" THEN "bill" ELSE "stream")

\* The body ends, with or without [DONE].
StreamEnd(r) ==
  /\ pc[r] = "stream"
  /\ Proceed(r, "bill")
  /\ UNCHANGED <<ledgerVars, guardVars>>
  /\ NoFault

\* The client goes away: Close books nothing.
StreamClosed(r) ==
  /\ pc[r] = "stream"
  /\ Leave(r)
  /\ UNCHANGED <<ledgerVars, guardVars>>
  /\ NoFault

----------------------------------------------------------------------------
(* Booking.                                                                *)

\* Mutant: a stream books at [DONE] and again at the end of the body.
BookAgain(r) ==
  /\ pc[r] = "bill"
  /\ RecordTransaction(cred[r], bill[r], Statements)
  /\ UNCHANGED <<slotVars, guardVars>>
  /\ NoFault

Book(r) ==
  /\ pc[r] = "bill"
  /\ RecordTransaction(cred[r], bill[r], Statements)
  /\ Leave(r)
  /\ UNCHANGED guardVars
  /\ NoFault

\* Some UPDATE fails; at most the error of the last one is even returned.
BookTorn(r, done) ==
  /\ pc[r] = "bill"
  /\ Fault
  /\ RecordTransaction(cred[r], bill[r], done)
  /\ Leave(r)
  /\ UNCHANGED <<guardVars, waived>>

\* Mutant: the UPDATEs run although the INSERT failed.
BookLostButCharged(r) ==
  /\ pc[r] = "bill"
  /\ Fault
  /\ Leave(r)
  /\ keyConsumed' = [k \in Keys |->
       keyConsumed[k] + IF k = cred[r] /\ k \in issued THEN bill[r] ELSE 0]
  /\ UNCHANGED <<spendVars, sessionVars, issued, revoked, keyState, orgVars,
                 guardVars, waived>>

\* The INSERT fails: the error is logged and the cost is lost.
BookLost(r) ==
  /\ pc[r] = "bill"
  /\ Fault
  /\ Leave(r)
  /\ UNCHANGED <<ledgerVars, guardVars, waived>>

\* The goroutine of a stream books the input; the slot is free once its
\* stream is over as well.
InputBooked(r) ==
  /\ inputDue' = inputDue \ {r}
  /\ cred' = IF pc[r] = "idle" THEN [cred EXCEPT ![r] = Anonymous] ELSE cred
  /\ UNCHANGED <<pc, zone, bill>>

BookInput(r, cost) ==
  /\ r \in inputDue
  /\ RecordTransaction(cred[r], cost, Statements)
  /\ InputBooked(r)
  /\ UNCHANGED guardVars
  /\ NoFault

BookInputTorn(r, cost, done) ==
  /\ r \in inputDue
  /\ Fault
  /\ RecordTransaction(cred[r], cost, done)
  /\ InputBooked(r)
  /\ UNCHANGED <<guardVars, waived>>

BookInputLost(r) ==
  /\ r \in inputDue
  /\ Fault
  /\ InputBooked(r)
  /\ UNCHANGED <<ledgerVars, guardVars, waived>>

----------------------------------------------------------------------------
(* The operator, from the dashboard or the CLI, and crashes.               *)

Operated == ops < MaxOps /\ ops' = ops + 1

Administer ==
  /\ Operated
  /\ \/ \E k \in Keys : RegisterVirtualKey(k)
     \/ \E s \in Sessions : RevokeVirtualKey(s)
     \/ \E o \in Orgs : CreateOrganization(o) \/ DeleteOrganization(o)
  /\ UNCHANGED <<slotVars, guardVars>>
  /\ NoFault

\* A reset starts a new period for the global budget; lastGlobalZone is
\* not part of the ledger and stays what it was.
ResetBudget ==
  /\ Operated
  /\ \/ Reset(TRUE) /\ NoFault
     \/ Reset(FALSE) /\ Fault /\ UNCHANGED waived   \* the second DELETE fails
  /\ dispatched' = dispatched \ ({Global} \X Zones)
  /\ UNCHANGED <<slotVars, lastGlobalZone>>

\* What the process forgets when it dies.
Forget ==
  /\ pc' = [r \in Slots |-> "idle"]
  /\ cred' = [r \in Slots |-> Anonymous]
  /\ zone' = [r \in Slots |-> "GREEN"]
  /\ bill' = [r \in Slots |-> 0]
  /\ inputDue' = {}
  /\ lastGlobalZone' = "GREEN"
  /\ UNCHANGED <<dispatched, waived>>

\* In an alert phase the zone of a key stays stored and its alert is lost.
Crash ==
  /\ Fault /\ Forget
  /\ UNCHANGED ledgerVars

\* The process dies between two statements of RecordTransaction.
CrashInBook(r, cost, done) ==
  /\ \/ pc[r] = "bill" /\ cost = bill[r]
     \/ r \in inputDue
  /\ Fault /\ Forget
  /\ RecordTransaction(cred[r], cost, done)

----------------------------------------------------------------------------
Init ==
  /\ LedgerInit
  /\ pc = [r \in Slots |-> "idle"]
  /\ cred = [r \in Slots |-> Anonymous]
  /\ zone = [r \in Slots |-> "GREEN"]
  /\ bill = [r \in Slots |-> 0]
  /\ inputDue = {}
  /\ lastGlobalZone = "GREEN"
  /\ dispatched = {}
  /\ waived = [s \in Scopes |-> 0]
  /\ faults = 0
  /\ ops = 0

Check(r) ==
  \/ \E c \in Callers : Arrive(r, c) \/ ArriveUnchecked(r, c)
  \/ GuardDecides(r) \/ GuardAlert(r)
  \/ AuthAnonymous(r) \/ AuthSession(r) \/ AuthKey(r) \/ AuthRejects(r)
  \/ OrgDecides(r) \/ OrgUnchecked(r)
  \/ KeyDecides(r) \/ KeyVanished(r) \/ KeyUnchecked(r)
  \/ KeyZoneShift(r) \/ KeyAlert(r)
  \/ SessionDecides(r) \/ SessionUnchecked(r)

Serve(r) ==
  \/ EndUnbilled(r)
  \/ \E cost \in 0 .. MaxCost : AnswerBuffered(r, cost)
  \/ AnswerStream(r)
  \/ \E tokens \in {0, 1} : StreamChunk(r, tokens) \/ StreamChunkUnchecked(r, tokens)
  \/ StreamZoneShift(r) \/ StreamAlert(r) \/ StreamEnd(r) \/ StreamClosed(r)
  \/ Book(r) \/ BookLost(r)
  \/ \E done \in SUBSET Statements : BookTorn(r, done)
  \/ \E cost \in 0 .. MaxCost :
       \/ BookInput(r, cost)
       \/ \E done \in SUBSET Statements : BookInputTorn(r, cost, done)
  \/ BookInputLost(r)

Die ==
  \/ Crash
  \/ \E r \in Slots, cost \in 0 .. MaxCost, done \in StatementPrefixes :
       CrashInBook(r, cost, done)

Next ==
  \/ \E r \in Slots : (Check(r) \/ Serve(r)) /\ UNCHANGED ops
  \/ Administer \/ ResetBudget
  \/ Die /\ UNCHANGED ops

Spec == Init /\ [][Next]_vars

\* A goroutine that holds no response and waits for no upstream keeps
\* running; clients, upstreams and the operator owe nothing.
Decide(r) == Check(r) /\ pc[r] # "idle" /\ UNCHANGED ops

FairSpec == Spec /\ \A r \in Slots : WF_vars(Decide(r))

----------------------------------------------------------------------------
(* Each budget seen as a SpendMeter.  An item of a slot is open from the   *)
(* moment its request was found below the line until the cost is booked or *)
(* can no longer be.                                                       *)

Answered == {"bill", "stream", "streamzone", "streamalert"}

\* What a slot's phase says about its client and its input: the phases that
\* act on a key have one, and only an answered stream has input to book.
SlotInv ==
  \A r \in Slots :
    /\ pc[r] \in {"org", "key", "keyzone", "keyalert", "streamzone", "streamalert"}
         => cred[r] \in Keys
    /\ r \in inputDue => pc[r] \in Answered \cup {"idle"}

RedLine(limit) == Threshold(limit, RedPct)

\* The slots that passed the global check.
Passed == {r \in Slots : /\ pc[r] # "idle"
                         /\ ~(pc[r] \in {"guard", "alert"} /\ zone[r] = "RED")}

\* Open items of the slots in S: the output until it is booked, the input
\* until the upstream has answered or, for a stream, until it is booked.
OpenItems(S, due) ==
  (S \X {"out"}) \cup (({r \in S : pc[r] \notin Answered} \cup due) \X {"in"})

GlobalOpen == OpenItems(Passed, inputDue)

GlobalMeter == INSTANCE SpendMeter
  WITH meter <- spent, open <- GlobalOpen, waived <- waived[Global],
       Line <- RedLine(EffectiveGlobalLimit)

\* The spend of the whole gate implements the abstract breaker: no step
\* admits at or above the line, books an item twice, or books one that was
\* never admitted (CheckBudget, RoundTrip and RecordTransaction together).
GlobalBreaker == GlobalMeter!MeterSpec

\* The slots that passed the check of key k and can still charge it.
KeyPassed(k) ==
  {r \in Slots : /\ cred[r] = k /\ k \in issued
                 /\ \/ pc[r] \in Answered \cup {"forward"}
                    \/ pc[r] \in {"keyzone", "keyalert"} /\ zone[r] # "RED"}

KeyOpen(k) ==
  OpenItems(KeyPassed(k), {r \in inputDue : cred[r] = k /\ k \in issued})

KeyMeter(k) == INSTANCE SpendMeter
  WITH meter <- keyConsumed[k], open <- KeyOpen(k), waived <- waived[k],
       Line <- RedLine(Allocated[k])

\* The budget of every virtual key implements the abstract breaker as well: no
\* request is admitted by CheckVirtualKeyBudget at or above the line of its
\* key, and none charges the key twice (KeyMeter(k)!MeterSpec for every k).
KeyBreaker ==
  /\ \A k \in Keys : KeyMeter(k)!MeterInit
  /\ [][\A k \in Keys :
         KeyMeter(k)!MeterNext \/ UNCHANGED KeyMeter(k)!meterVars]_vars

----------------------------------------------------------------------------
(* Safety.                                                                 *)

\* The global spend passes the RED line by at most the costs of the
\* requests that can be in flight at once: every check reads the spend
\* before any of them has booked (middleware.go 51 against 501 and 596).
GlobalOverspendBound == GlobalMeter!OverspendBound

\* An organization, checked once per request against its full limit.
OrgOverspendBound ==
  \A o \in Orgs : orgConsumed[o] <
    OrgLimit[o] + 2 * MaxCost * (Cardinality(Slots) + waived[o])

\* A legacy session that shares its name with no key.
SessionOverspendBound ==
  \A s \in Sessions \ {KeyName[k] : k \in Keys} : sessionSpent[s] <
    RedLine(EffectiveSessionLimit)
      + 2 * MaxCost * (Cardinality(Slots) + waived[s])

\* What a session, a key or an organization is said to have consumed never
\* exceeds the transactions it stands for, whichever statement of
\* RecordTransaction fails or is the last before a crash (a reset erases
\* transactions only, hence ops = 0).
BooksNeverAhead ==
  ops = 0 =>
    /\ \A s \in Sessions : sessionConsumed[s] <= sessionSpent[s]
    /\ \A k \in Keys : keyConsumed[k] <= sessionSpent[KeyName[k]]
    /\ \A o \in Orgs : orgConsumed[o] <= spent

\* Bookings are made before the next check reads the spend, so that the
\* costs of one request are all that goes above the line
\* (middleware.go:570-571).
NoParallelOverspend == spent < RedLine(EffectiveGlobalLimit) + 2 * MaxCost

----------------------------------------------------------------------------
(* Action properties.                                                      *)

\* Who is about to announce RED: the zone is stored and no lock is held.
GlobalAlertDue == \E q \in Slots : pc[q] = "alert" /\ zone[q] = "RED"

KeyAlertDue(k) ==
  \E q \in Slots :
    pc[q] \in {"keyalert", "streamalert"} /\ cred[q] = k /\ zone[q] = "RED"

\* When the global breaker blocks a request while the spend is RED, the RED
\* alert of this period is out, or another request has stored the zone and is
\* past the unlock, about to send it (guard.go 48-58).  "About to" is all the
\* code gives: the block may come before the alert, but never without one.
GlobalTripAnnounced ==
  [][\A r \in Slots :
       /\ pc[r] \in {"guard", "alert"} /\ zone[r] = "RED" /\ GlobalZone = "RED"
       /\ pc'[r] = "idle" /\ faults' = faults
       => <<Global, "RED">> \in dispatched' \/ GlobalAlertDue']_vars

\* The same of the breaker of a key: its RED alert is out, or a request or a
\* stream of that key has stored RED and is about to send it (guard.go 157-165).
KeyTripAnnounced ==
  [][\A r \in Slots, k \in Keys :
       /\ pc[r] \in {"key", "keyalert"} /\ cred[r] = k
       /\ pc'[r] = "idle" /\ faults' = faults
       => <<k, "RED">> \in dispatched' \/ KeyAlertDue(k)']_vars

----------------------------------------------------------------------------
(* Liveness.                                                               *)

\* Whatever the operator does meanwhile, a request that reached the guard
\* is blocked or forwarded.
Decides == \A r \in Slots : pc[r] = "guard" ~> pc[r] \in {"idle", "forward"}
=============================================================================
