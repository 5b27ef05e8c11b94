--------------------------- MODULE DispatchProofs ---------------------------
(* What holds of the pool and of the loop that uses it, for any number of  *)
(* requests, keys, sessions and peers, whatever is donated, revoked, rated *)
(* or restarted meanwhile.                                                 *)
EXTENDS Dispatch, FiniteSetTheorems, SequenceTheorems, TLAPS

Scans == [rows : Seq(Nodes), live : SUBSET Nodes, at : Nat, left : Nat]
Requests ==
  [who : Users \cup {NoUser}, remote : BOOLEAN, prov : Providers \cup {None},
   chat : BOOLEAN, est : {e \in Int : e <= MaxEst}, attempt : 0 .. MaxRetries + 1,
   first : Providers \cup {None}, hdr : [Headers -> Credentials],
   peers : SUBSET Peers]

RowTypes ==
  /\ rows \in [Providers -> Seq(Nodes)]
  /\ quota \in [Nodes -> Int] /\ \A n \in Nodes : quota[n] > -MaxEst
  /\ sealed \in [Nodes -> MasterKeys] /\ master \in MasterKeys
  /\ drawn \in [Nodes -> Nat] /\ repaid \in [Nodes -> Nat] /\ lost \in [Nodes -> Nat]

EngineTypes ==
  /\ index \in [Providers -> Nat]
  /\ usage \in [Users -> Int]
  /\ taken \in [Users -> Nat] /\ returned \in [Users -> Nat]
  /\ standing \in [Users -> Standings]
  /\ holder \in Slots \cup {None}

ScanTypes ==
  /\ scan \in [Slots -> Scans]
  /\ \A r \in Slots : /\ scan[r].left > 0 => scan[r].at < Len(scan[r].rows)
                      /\ pc[r] = "gate" => Len(scan[r].rows) > 0

RequestTypes ==
  /\ pc \in [Slots -> Phases]
  /\ req \in [Slots -> Requests]
  /\ res \in [Slots -> Answers]
  /\ ops \in 0 .. MaxOps
  /\ \A r \in Slots : pc[r] \notin {"idle", "done"} => req[r].prov \in Providers

Types == RowTypes /\ EngineTypes /\ ScanTypes /\ RequestTypes

----------------------------------------------------------------------------
(* Types.                                                                  *)

LEMMA NoReqType == NoReq \in Requests
BY PoolAssumption, DispatchAssumption DEF NoReq, Requests, Credentials

LEMMA TypesInit == Init => Types
<1> SUFFICES ASSUME Init PROVE Types
  OBVIOUS
<1> USE PoolAssumption, DispatchAssumption DEF Init, PoolInit
<1>1. RowTypes
  BY DEF RowTypes
<1>2. EngineTypes
  BY DEF EngineTypes, Standings
<1>3. ScanTypes
  BY DEF ScanTypes, Scans, NoScan
<1>4. RequestTypes
  BY NoReqType DEF RequestTypes, Phases, Answers
<1> QED
  BY <1>1, <1>2, <1>3, <1>4 DEF Types

LEMMA NoScanType == NoScan \in Scans /\ NoScan.left = 0 /\ NoScan.live = {}
BY DEF NoScan, Scans

\* The answers of the upstream, of a peer and to a peer.
LEMMA FinishTypes ==
  ASSUME RequestTypes, NEW r \in Slots, NEW a \in Answers, Finish(r, a),
         ops' \in 0 .. MaxOps
  PROVE  RequestTypes'
BY NoReqType DEF RequestTypes, Finish, Goto, Phases

LEMMA ConfiguredType ==
  ASSUME NEW q \in Requests, NEW p \in Providers
  PROVE  /\ WithConfiguredKey(q, p) \in Requests
         /\ WithConfiguredKey(q, p).prov = q.prov
<1> DEFINE g == [h \in Headers |->
                  IF h = KeyHeader[p] THEN IF p \in Configured THEN p ELSE None
                  ELSE IF h = "original" /\ q.hdr["authorization"] # None
                    THEN q.hdr["authorization"] ELSE q.hdr[h]]
<1>1. q.hdr \in [Headers -> Credentials] /\ "authorization" \in Headers
  BY DEF Requests, Headers
<1>2. g \in [Headers -> Credentials]
  BY <1>1 DEF Credentials
<1>3. WithConfiguredKey(q, p) = [q EXCEPT !.hdr = g]
  BY DEF WithConfiguredKey
<1> HIDE DEF g
<1> QED
  BY <1>2, <1>3 DEF Requests

\* The peers that answered.
LEMMA PeersType ==
  ASSUME NEW q \in Requests, NEW S \in SUBSET Peers
  PROVE  [q EXCEPT !.peers = S] \in Requests /\ [q EXCEPT !.peers = S].prov = q.prov
BY DEF Requests

\* One header is replaced.
LEMMA HeaderType ==
  ASSUME NEW q \in Requests, NEW h \in Headers, NEW v \in Credentials
  PROVE  [q EXCEPT !.hdr[h] = v] \in Requests
BY DEF Requests

LEMMA BeginTypes == ASSUME Types, NEW r \in Slots, Begin(r) PROVE Types'
<1> USE PoolAssumption, DispatchAssumption DEF Types
<1>1. RowTypes' /\ EngineTypes'
  BY DEF Begin, poolVars, RowTypes, EngineTypes
<1>2. pc' = [pc EXCEPT ![r] = "read"] /\ UNCHANGED <<scan, res>>
  BY DEF Begin, Goto, poolVars
<1>9. ops' \in 0 .. MaxOps
  BY DEF Begin, RequestTypes
<1>3. ScanTypes'
  BY <1>2 DEF ScanTypes, RequestTypes
<1>4. PICK k \in Traffic :
        req' = [req EXCEPT ![r] =
          IF k.remote THEN Arriving(k) ELSE WithConfiguredKey(Arriving(k), k.prov)]
  BY DEF Begin
<1>5. k \in Kinds
  OBVIOUS
<1>6. Arriving(k) \in Requests /\ Arriving(k).prov = k.prov
  <2>1. /\ k.who \in Users \cup {NoUser} /\ k.remote \in BOOLEAN
        /\ k.prov \in Providers /\ k.chat \in BOOLEAN
        /\ k.est \in Int /\ k.est <= MaxEst
    BY <1>5 DEF Kinds
  <2>2. [h \in Headers |-> IF h \in k.carries THEN Client ELSE None]
          \in [Headers -> Credentials]
    BY DEF Credentials
  <2> QED
    BY <2>1, <2>2, NoReqType DEF Arriving, Requests
<1>7. WithConfiguredKey(Arriving(k), k.prov) \in Requests
      /\ WithConfiguredKey(Arriving(k), k.prov).prov = k.prov
  BY <1>5, <1>6, ConfiguredType DEF Kinds
<1>8. RequestTypes'
  BY <1>2, <1>4, <1>5, <1>6, <1>7, <1>9 DEF RequestTypes, Phases, Kinds
<1> QED
  BY <1>1, <1>3, <1>8

\* No key: a peer is told so, everybody else goes on.
LEMMA NoKeyTypes ==
  ASSUME Types, NEW r \in Slots, NoKey(r), pc[r] \notin {"idle", "done"},
         ops' \in 0 .. MaxOps
  PROVE  RequestTypes' /\ pc'[r] # "gate" /\ \A m \in Slots \ {r} : pc'[m] = pc[m]
<1> USE DEF Types
<1>1. CASE req[r].remote
  BY <1>1, FinishTypes DEF NoKey, Finish, Goto, Answers, RequestTypes
<1>2. CASE ~req[r].remote
  BY <1>2 DEF NoKey, Goto, RequestTypes, Phases
<1> QED
  BY <1>1, <1>2

LEMMA RejectTypes == ASSUME Types, NEW r \in Slots, RejectProof(r) PROVE Types'
<1> USE DEF Types
<1>1. RowTypes'
  BY DEF RejectProof, RowTypes, bookVars, sessionVars, cryptoVars
<1>2. EngineTypes'
  BY DEF RejectProof, EngineTypes, bookVars, sessionVars, Standings
<1>3. RequestTypes'
  BY FinishTypes DEF RejectProof, Answers, RequestTypes
<1>4. ScanTypes'
  BY DEF RejectProof, ScanTypes, Finish, Goto, RequestTypes
<1> QED
  BY <1>1, <1>2, <1>3, <1>4

LEMMA ReadTypes == ASSUME Types, NEW r \in Slots, ReadRows(r) PROVE Types'
<1> USE DEF Types
<1>1. RowTypes' /\ EngineTypes'
  BY DEF ReadRows, RowTypes, EngineTypes, bookVars, sessionVars, cryptoVars
<1> DEFINE p == req[r].prov
<1>2. p \in Providers
  BY DEF ReadRows, RequestTypes
<1>3. CASE rows[p] = <<>>
  <2>1. RequestTypes' /\ pc'[r] # "gate" /\ \A m \in Slots \ {r} : pc'[m] = pc[m]
    BY <1>3, NoKeyTypes DEF ReadRows, RequestTypes
  <2>2. ScanTypes'
    BY <1>3, <2>1 DEF ReadRows, ScanTypes
  <2> QED
    BY <1>1, <2>1, <2>2
<1>4. CASE rows[p] # <<>>
  <2>1. scan' = [scan EXCEPT ![r] =
           [rows |-> rows[p], live |-> {n \in ToSet(rows[p]) : quota[n] > 0},
            at |-> 0, left |-> Len(rows[p])]]
    BY <1>4 DEF ReadRows, Snapshot
  <2>2. rows[p] \in Seq(Nodes) /\ ToSet(rows[p]) \subseteq Nodes
    BY <1>2 DEF RowTypes, ToSet
  <2>3. Len(rows[p]) \in Nat /\ Len(rows[p]) > 0
    BY <1>4, <2>2
  <2>4. pc' = [pc EXCEPT ![r] = "gate"] /\ UNCHANGED <<req, res, ops>>
    BY <1>4 DEF ReadRows, Goto
  <2>5. RequestTypes'
    BY <2>4 DEF ReadRows, RequestTypes, Phases
  <2>6. ScanTypes'
    BY <2>1, <2>2, <2>3, <2>4 DEF ScanTypes, Scans, RequestTypes
  <2> QED
    BY <1>1, <2>5, <2>6
<1> QED
  BY <1>3, <1>4

LEMMA ReadFailsTypes == ASSUME Types, NEW r \in Slots, ReadFails(r) PROVE Types'
<1> USE DEF Types
<1>1. RowTypes' /\ EngineTypes' /\ UNCHANGED scan
  BY DEF ReadFails, RowTypes, EngineTypes, poolVars
<1>2. ops' \in 0 .. MaxOps
  BY DispatchAssumption DEF ReadFails, RequestTypes
<1>3. RequestTypes' /\ pc'[r] # "gate" /\ \A m \in Slots \ {r} : pc'[m] = pc[m]
  BY <1>2, NoKeyTypes DEF ReadFails
<1>4. ScanTypes'
  BY <1>1, <1>3 DEF ScanTypes
<1> QED
  BY <1>1, <1>3, <1>4

LEMMA GateTypes == ASSUME Types, NEW r \in Slots, Gate(r) PROVE Types'
<1> USE DEF Types
<1>1. RowTypes'
  BY DEF Gate, RowTypes, bookVars, sessionVars, cryptoVars
<1>2. EngineTypes'
  BY DEF Gate, EngineTypes, Acquire, bookVars, sessionVars
<1>3. CASE Refused(req[r].who)
  <2>1. RequestTypes' /\ pc'[r] # "gate" /\ \A m \in Slots \ {r} : pc'[m] = pc[m]
    BY <1>3, NoKeyTypes DEF Gate, RequestTypes
  <2>2. ScanTypes'
    BY <1>3, <2>1, NoScanType DEF Gate, ScanTypes
  <2> QED
    BY <1>1, <1>2, <2>1, <2>2
<1>4. CASE ~Refused(req[r].who)
  <2> DEFINE p == req[r].prov
             i == IF index[p] >= Len(scan[r].rows) THEN 0 ELSE index[p]
  <2>1. p \in Providers /\ index[p] \in Nat
    BY DEF Gate, RequestTypes, EngineTypes
  <2>2. Len(scan[r].rows) \in Nat /\ Len(scan[r].rows) > 0
    BY DEF Gate, ScanTypes, Scans
  <2>3. i \in Nat /\ i < Len(scan[r].rows)
    BY <2>1, <2>2
  <2>4. scan' = [scan EXCEPT ![r].at = i]
    BY <1>4 DEF Gate, StartAt
  <2>5. pc' = [pc EXCEPT ![r] = "scan"] /\ UNCHANGED <<req, res, ops>>
    BY <1>4 DEF Gate, Goto
  <2>6. RequestTypes'
    BY <2>5 DEF Gate, RequestTypes, Phases
  <2> HIDE DEF i
  <2>7. ScanTypes'
    BY <2>3, <2>4, <2>5 DEF ScanTypes, Scans, RequestTypes
  <2> QED
    BY <1>1, <1>2, <2>6, <2>7
<1> QED
  BY <1>3, <1>4

\* The place of a scan stays within the rows it read.
LEMMA NextAtType ==
  ASSUME Types, NEW r \in Slots, scan[r].left > 0
  PROVE  NextAt(r) \in Nat /\ NextAt(r) < Len(scan[r].rows)
BY DEF Types, ScanTypes, Scans, NextAt

LEMMA SkipTypes == ASSUME Types, NEW r \in Slots, Skip(r) PROVE Types'
<1> USE DEF Types
<1>1. RowTypes'
  BY DEF Skip, RowTypes, cryptoVars
<1>2. NextAt(r) \in Nat /\ NextAt(r) < Len(scan[r].rows)
  BY NextAtType DEF Skip
<1>3. EngineTypes'
  BY <1>2 DEF Skip, PassOver, Advance, EngineTypes, sessionVars
<1>4. scan' = [scan EXCEPT ![r].at = NextAt(r), ![r].left = @ - 1] /\ scan[r].left > 0
  BY DEF Skip, PassOver
<1>5. UNCHANGED slotVars /\ UNCHANGED ops
  BY DEF Skip
<1>6. ScanTypes'
  BY <1>2, <1>4, <1>5 DEF ScanTypes, Scans, slotVars
<1>7. RequestTypes'
  BY <1>5 DEF RequestTypes, slotVars
<1> QED
  BY <1>1, <1>3, <1>6, <1>7

\* The row a scan is at is one it found live.
LEMMA RowType ==
  ASSUME Types, NEW r \in Slots, TakeKey(r)
  PROVE  /\ Row(r) \in Nodes /\ Row(r) \in scan[r].live
         /\ req[r].est \in Int /\ req[r].est <= MaxEst
BY PoolAssumption DEF Types, ScanTypes, Scans, RequestTypes, Requests, TakeKey, Usable

\* An estimate adds to what was handed out or gives back.
LEMMA PlusType ==
  \A e \in Int : /\ Plus(e) \in Nat /\ Plus(e) >= e
                 /\ e <= MaxEst => Plus(e) <= MaxEst
                 /\ e = Plus(e) - Plus(-e)
BY PoolAssumption DEF Plus

\* What a draw does to the books.
LEMMA DrawBooks ==
  ASSUME Types, NEW r \in Slots, TakeKey(r)
  PROVE  LET n == Row(r) IN
         /\ drawn' = [drawn EXCEPT ![n] = @ + Plus(req[r].est)]
         /\ \/ lost' = [lost EXCEPT ![n] = @ + 1] /\ UNCHANGED <<quota, repaid>>
            \/ /\ UNCHANGED lost
               /\ quota' = IF quota[n] > 0 /\ InPool(n)
                             THEN [quota EXCEPT ![n] = @ - req[r].est] ELSE quota
               /\ repaid' = [repaid EXCEPT ![n] = @ + Plus(quota'[n] - quota[n])]
         /\ scan' = [scan EXCEPT ![r] = NoScan]
         /\ UNCHANGED <<rows, cryptoVars, standing>>
         /\ IF req[r].who = NoUser THEN UNCHANGED sessionVars
            ELSE /\ usage' = [usage EXCEPT ![req[r].who] = @ + req[r].est]
                 /\ taken' = [taken EXCEPT ![req[r].who] = @ + Plus(req[r].est)]
                 /\ returned' = [returned EXCEPT ![req[r].who] = @ + Plus(-req[r].est)]
         /\ holder' = None
BY DEF TakeKey, Draw, Charge, InPool, Release

LEMMA TakeTypes == ASSUME Types, NEW r \in Slots, TakeKey(r) PROVE Types'
<1> USE DEF Types
<1>1. /\ Row(r) \in Nodes /\ req[r].est \in Int /\ req[r].est <= MaxEst
      /\ req[r].who \in Users \cup {NoUser} /\ req[r].prov \in Providers
  BY RowType DEF TakeKey, RequestTypes, Requests
<1>2. RowTypes'
  <2>1. drawn' \in [Nodes -> Nat]
    <3>1. drawn' = [drawn EXCEPT ![Row(r)] = @ + Plus(req[r].est)]
      BY DrawBooks
    <3>2. Plus(req[r].est) \in Nat
      BY <1>1, PlusType
    <3> QED
      BY <1>1, <3>1, <3>2 DEF RowTypes
  <2>2. lost' \in [Nodes -> Nat]
    <3>1. lost' = [lost EXCEPT ![Row(r)] = @ + 1] \/ UNCHANGED lost
      BY DrawBooks
    <3>2. lost \in [Nodes -> Nat] /\ Row(r) \in Nodes /\ lost[Row(r)] + 1 \in Nat
      BY <1>1 DEF RowTypes
    <3> QED
      BY <3>1, <3>2
  <2>3. \/ UNCHANGED quota
        \/ /\ quota[Row(r)] > 0
           /\ quota' = [quota EXCEPT ![Row(r)] = @ - req[r].est]
    BY DrawBooks
  <2>4. quota' \in [Nodes -> Int] /\ \A n \in Nodes : quota'[n] > -MaxEst
    <3>1. CASE UNCHANGED quota
      BY <3>1 DEF RowTypes
    <3>2. CASE /\ quota[Row(r)] > 0
               /\ quota' = [quota EXCEPT ![Row(r)] = @ - req[r].est]
      <4>1. quota[Row(r)] - req[r].est \in Int /\ quota[Row(r)] - req[r].est > -MaxEst
        BY <1>1, <3>2, PoolAssumption DEF RowTypes
      <4> QED
        BY <1>1, <3>2, <4>1 DEF RowTypes
    <3> QED
      BY <2>3, <3>1, <3>2
  <2>5. repaid' \in [Nodes -> Nat]
    <3>1. Plus(quota'[Row(r)] - quota[Row(r)]) \in Nat
      BY <1>1, <2>4, PlusType DEF RowTypes
    <3> QED
      BY <1>1, <3>1, DrawBooks DEF RowTypes
  <2> QED
    BY <2>1, <2>2, <2>4, <2>5, DrawBooks DEF RowTypes, cryptoVars
<1>3. index' = [index EXCEPT ![req[r].prov] = NextAt(r)] /\ NextAt(r) \in Nat
  BY NextAtType DEF TakeKey, Draw, Advance
<1>4. EngineTypes'
  <2>1. Plus(req[r].est) \in Nat /\ Plus(-req[r].est) \in Nat
    BY <1>1, PlusType
  <2> QED
    BY <1>1, <1>3, <2>1, DrawBooks DEF EngineTypes, sessionVars
<1>5. /\ pc' = [pc EXCEPT ![r] = IF req[r].remote THEN "serve" ELSE "send"]
      /\ req' = [req EXCEPT ![r] = WithPoolKey(@)]
      /\ UNCHANGED res
  BY DEF TakeKey, Goto
<1>6. ScanTypes'
  BY <1>5, DrawBooks, NoScanType DEF ScanTypes, RequestTypes
<1>7. WithPoolKey(req[r]) \in Requests /\ WithPoolKey(req[r]).prov = req[r].prov
  <2>1. req[r] \in Requests /\ req[r].prov \in Credentials
        /\ {"authorization", "x-api-key"} \subseteq Headers
    BY <1>1 DEF RequestTypes, Headers, Credentials
  <2>2. WithPoolKey(req[r]) \in Requests
    BY <2>1, HeaderType DEF WithPoolKey
  <2> QED
    BY <2>1, <2>2 DEF WithPoolKey, Requests
<1>8. ops' \in 0 .. MaxOps
  BY DispatchAssumption DEF TakeKey, RequestTypes
<1>9. RequestTypes'
  BY <1>1, <1>5, <1>7, <1>8 DEF RequestTypes, Phases
<1> QED
  BY <1>2, <1>4, <1>6, <1>9

LEMMA ExhaustedTypes == ASSUME Types, NEW r \in Slots, Exhausted(r) PROVE Types'
<1> USE DEF Types
<1>1. RowTypes' /\ EngineTypes'
  BY DEF Exhausted, Release, RowTypes, EngineTypes, bookVars, sessionVars, cryptoVars
<1>2. RequestTypes' /\ pc'[r] # "gate" /\ \A m \in Slots \ {r} : pc'[m] = pc[m]
  BY NoKeyTypes DEF Exhausted, RequestTypes
<1>3. ScanTypes'
  BY <1>2, NoScanType DEF Exhausted, Release, ScanTypes
<1> QED
  BY <1>1, <1>2, <1>3

\* The steps of a request that leave the pool alone.
LEMMA RequestStepTypes ==
  ASSUME Types, UNCHANGED poolVars, RequestTypes',
         \A r \in Slots : pc'[r] = "gate" => pc[r] = "gate"
  PROVE  Types'
BY DEF Types, poolVars, RowTypes, EngineTypes, ScanTypes

LEMMA PeerTypes == ASSUME Types, NEW r \in Slots, PeerStep(r) PROVE Types'
<1> USE DEF Types
<1>1. CASE PingPeers(r)
  <2>1. PICK answered \in SUBSET Peers :
          /\ req' = [req EXCEPT ![r].peers = answered]
          /\ pc' = [pc EXCEPT ![r] = IF answered = {} THEN "send" ELSE "peers"]
    BY <1>1 DEF PingPeers, Goto
  <2>2. RequestTypes'
    BY <1>1, <2>1, PeersType DEF PingPeers, RequestTypes, Phases
  <2> QED
    BY <1>1, <2>1, <2>2, RequestStepTypes DEF PingPeers, RequestTypes
<1>2. CASE PeerAnswers(r)
  <2>1. RequestTypes'
    BY <1>2, FinishTypes DEF PeerAnswers, Answers, RequestTypes
  <2> QED
    BY <1>2, <2>1, RequestStepTypes DEF PeerAnswers, Finish, Goto, RequestTypes
<1>3. CASE PeerFails(r)
  <2>1. PICK u \in req[r].peers :
          /\ req' = [req EXCEPT ![r].peers = @ \ {u}]
          /\ pc' = [pc EXCEPT ![r] = IF req[r].peers = {u} THEN "send" ELSE "peers"]
    BY <1>3 DEF PeerFails, Goto
  <2>2. RequestTypes'
    <3>1. req[r] \in Requests /\ req[r].peers \ {u} \in SUBSET Peers
      BY DEF RequestTypes, Requests
    <3> QED
      BY <1>3, <2>1, <3>1, PeersType DEF PeerFails, RequestTypes, Phases
  <2> QED
    BY <1>3, <2>1, <2>2, RequestStepTypes DEF PeerFails, RequestTypes
<1> QED
  BY <1>1, <1>2, <1>3 DEF PeerStep, PeerCall

\* Another attempt is one of at most MaxRetries + 1.
LEMMA AgainTypes ==
  ASSUME Types, NEW r \in Slots, NEW q \in Requests, MayRetry(r), Again(r, q),
         q.attempt = req[r].attempt, q.prov \in Providers, UNCHANGED <<poolVars, res, ops>>
  PROVE  Types' /\ pc' = [pc EXCEPT ![r] = "read"]
<1> USE DEF Types
<1>1. q.attempt \in 0 .. MaxRetries + 1 /\ q.attempt < MaxRetries
  BY DEF MayRetry, Requests
<1>2. [q EXCEPT !.attempt = @ + 1] \in Requests /\ [q EXCEPT !.attempt = @ + 1].prov = q.prov
  BY <1>1, DispatchAssumption DEF Requests
<1>3. pc' = [pc EXCEPT ![r] = "read"]
  BY <1>1 DEF Again, Goto
<1>4. RequestTypes'
  BY <1>2, <1>3 DEF Again, RequestTypes, Phases
<1> QED
  BY <1>3, <1>4, RequestStepTypes DEF RequestTypes

LEMMA TranslatedType ==
  ASSUME NEW q \in Requests, NEW p \in Providers
  PROVE  /\ Translated(q, p) \in Requests
         /\ Translated(q, p).prov = p
         /\ Translated(q, p).attempt = q.attempt
<1> DEFINE q1 == [q EXCEPT !.hdr["authorization"] = None]
           q2 == [q1 EXCEPT !.hdr["x-api-key"] = IF p \in Configured THEN p ELSE @]
<1>1. /\ {"authorization", "x-api-key"} \subseteq Headers
      /\ None \in Credentials /\ p \in Credentials
  BY DEF Headers, Credentials
<1>2. q1 \in Requests
  BY <1>1, HeaderType
<1>3. q1.hdr["x-api-key"] \in Credentials
  BY <1>1, <1>2 DEF Requests
<1>4. q2 \in Requests
  <2> HIDE DEF q1
  <2> QED
    BY <1>1, <1>2, <1>3, HeaderType
<1>5. CASE KeyHeader[p] = "x-api-key"
  <2>1. Translated(q, p) = [q2 EXCEPT !.prov = p, !.chat = FALSE]
    BY <1>1, <1>5 DEF Translated, Requests
  <2>2. q2.attempt = q.attempt
    BY DEF Requests
  <2> HIDE DEF q2
  <2> QED
    BY <1>4, <2>1, <2>2 DEF Requests
<1>6. CASE KeyHeader[p] # "x-api-key"
  BY <1>6 DEF Translated, Requests
<1> QED
  BY <1>5, <1>6

\* An answer that is kept ends the loop.
LEMMA AnsweredTypes ==
  ASSUME Types, NEW r \in Slots, NEW a \in Answers, Answered(r, a) PROVE Types'
<1>1. RequestTypes'
  BY FinishTypes DEF Types, Answered, RequestTypes
<1> QED
  BY <1>1, RequestStepTypes DEF Types, Answered, Finish, Goto, RequestTypes

LEMMA RetryTypes ==
  ASSUME Types, NEW r \in Slots, Retry(r) \/ FailOver(r)
  PROVE  Types' /\ pc' = [pc EXCEPT ![r] = "read"] /\ UNCHANGED <<poolVars, res>>
<1>1. req[r] \in Requests /\ req[r].prov \in Providers
  BY DEF Types, RequestTypes, Retry, FailOver
<1>2. CASE Retry(r)
  BY <1>1, <1>2, AgainTypes DEF Retry
<1>3. CASE FailOver(r)
  BY <1>1, <1>3, TranslatedType, AgainTypes, DispatchAssumption DEF FailOver, MayFailOver
<1> QED
  BY <1>2, <1>3

LEMMA UpstreamTypes == ASSUME Types, NEW r \in Slots, Upstream(r) PROVE Types'
<1>1. CASE Retry(r) \/ FailOver(r)
  BY <1>1, RetryTypes
<1>2. CASE Succeed(r) \/ BreakOff(r) \/ GiveUp(r) \/ Outage(r)
  BY <1>2, AnsweredTypes DEF Succeed, BreakOff, GiveUp, Outage, Answers
<1> QED
  BY <1>1, <1>2 DEF Upstream

LEMMA ServeTypes == ASSUME Types, NEW r \in Slots, Serve(r) \/ Return(r) PROVE Types'
<1> USE DEF Types
<1>1. CASE Serve(r)
  <2>1. RequestTypes'
    BY <1>1, FinishTypes DEF Serve, Answers, RequestTypes
  <2> QED
    BY <1>1, <2>1, RequestStepTypes DEF Serve, Finish, Goto, RequestTypes
<1>2. CASE Return(r)
  <2>1. RequestTypes'
    BY <1>2, NoReqType DEF Return, Goto, RequestTypes, Phases, Answers
  <2> QED
    BY <1>2, <2>1, RequestStepTypes DEF Return, Goto, RequestTypes
<1> QED
  BY <1>1, <1>2

----------------------------------------------------------------------------
(* The operator.                                                           *)

LEMMA AddTypes ==
  ASSUME Types, NEW n \in Nodes, NEW key \in MasterKeys, AddPoolNode(n, key),
         UNCHANGED slotVars, ops' \in 0 .. MaxOps
  PROVE  Types'
<1> USE DEF Types
<1>1. Home[n] \in Providers
  BY PoolAssumption
<1>2. rows' \in [Providers -> Seq(Nodes)]
  BY <1>1 DEF AddPoolNode, RowTypes
<1>3. RowTypes'
  BY <1>2 DEF AddPoolNode, RowTypes
<1>4. EngineTypes' /\ ScanTypes' /\ RequestTypes'
  BY DEF AddPoolNode, EngineTypes, ScanTypes, RequestTypes, slotVars, sessionVars
<1> QED
  BY <1>3, <1>4

\* What is left of a sequence without its element i are elements of it.
LEMMA RemoveAtLeaves ==
  ASSUME NEW S, NEW s \in Seq(S), NEW i \in 1 .. Len(s)
  PROVE  RemoveAt(s, i) \in Seq(S) /\ ToSet(RemoveAt(s, i)) \subseteq ToSet(s)
<1> DEFINE a == SubSeq(s, 1, i - 1)
           b == SubSeq(s, i + 1, Len(s))
<1>0. Len(s) \in Nat /\ i \in Nat /\ 1 <= i /\ i <= Len(s)
  OBVIOUS
<1>1. a \in Seq(S) /\ Len(a) = i - 1 /\ \A j \in 1 .. i - 1 : a[j] = s[j]
  OBVIOUS
<1>2. /\ b \in Seq(S) /\ Len(b) = Len(s) - i
      /\ \A j \in 1 .. Len(s) - i : b[j] = s[i + j]
  OBVIOUS
<1> HIDE DEF a, b
<1>3. /\ a \o b \in Seq(S) /\ Len(a \o b) = Len(a) + Len(b)
      /\ \A j \in 1 .. Len(a) + Len(b) :
           (a \o b)[j] = IF j <= Len(a) THEN a[j] ELSE b[j - Len(a)]
  BY <1>0, <1>1, <1>2, ConcatProperties
<1>4. ASSUME NEW j \in 1 .. Len(a) + Len(b)
      PROVE  \E k \in 1 .. Len(s) : (a \o b)[j] = s[k]
  <2>1. CASE j <= Len(a)
    <3>1. j \in 1 .. i - 1 /\ j \in 1 .. Len(s) /\ (a \o b)[j] = s[j]
      BY <1>0, <1>1, <1>2, <1>3, <2>1
    <3> QED
      BY <3>1
  <2>2. CASE j > Len(a)
    <3> DEFINE k == j - Len(a)
    <3>1. k \in 1 .. Len(s) - i /\ i + k \in 1 .. Len(s)
      BY <1>0, <1>1, <1>2, <2>2
    <3>2. (a \o b)[j] = b[k]
      BY <1>0, <1>1, <1>2, <1>3, <2>2
    <3> QED
      BY <3>1, <3>2, <1>2
  <2> QED
    BY <1>0, <1>1, <1>2, <2>1, <2>2
<1>5. RemoveAt(s, i) = a \o b
  BY DEF RemoveAt, a, b
<1>6. DOMAIN (a \o b) = 1 .. Len(a) + Len(b) /\ DOMAIN s = 1 .. Len(s)
  BY <1>3
<1>7. ToSet(a \o b) \subseteq ToSet(s)
  BY <1>4, <1>6 DEF ToSet
<1> QED
  BY <1>3, <1>5, <1>7

\* Removing a row leaves the others.
LEMMA RemoveRow ==
  ASSUME Types, NEW n \in Nodes, Revoke(n)
  PROVE  /\ rows' \in [Providers -> Seq(Nodes)]
         /\ \A p \in Providers : ToSet(rows'[p]) \subseteq ToSet(rows[p])
<1>1. Home[n] \in Providers /\ rows \in [Providers -> Seq(Nodes)]
  BY PoolAssumption DEF Types, RowTypes
<1>2. PICK i \in DOMAIN rows[Home[n]] : rows' = [rows EXCEPT ![Home[n]] = RemoveAt(@, i)]
  BY DEF Revoke, RemovePoolNode
<1> DEFINE s == rows[Home[n]]
<1>3. s \in Seq(Nodes) /\ i \in 1 .. Len(s)
  BY <1>1, <1>2
<1>4. RemoveAt(s, i) \in Seq(Nodes) /\ ToSet(RemoveAt(s, i)) \subseteq ToSet(s)
  BY <1>3, RemoveAtLeaves
<1> QED
  BY <1>1, <1>2, <1>4

LEMMA OperateTypes == ASSUME Types, Operate PROVE Types'
<1> USE DEF Types
<1>1. ops' \in 0 .. MaxOps /\ UNCHANGED slotVars
  BY DispatchAssumption DEF Operate, RequestTypes
<1>2. ASSUME NEW n \in Nodes, HandlePoolDonate(n) \/ DonateCmd(n) PROVE Types'
  BY <1>1, <1>2, AddTypes DEF HandlePoolDonate, DonateCmd, RowTypes
<1>3. ASSUME NEW n \in Nodes, Revoke(n) PROVE Types'
  <2>1. RowTypes'
    BY <1>3, RemoveRow DEF Revoke, RowTypes, cryptoVars
  <2>2. EngineTypes' /\ ScanTypes' /\ RequestTypes'
    BY <1>1, <1>3 DEF Revoke, EngineTypes, ScanTypes, RequestTypes, slotVars, sessionVars
  <2> QED
    BY <2>1, <2>2
<1>4. ASSUME NEW u \in Users, Rerate(u) PROVE Types'
  <2>1. EngineTypes'
    BY <1>4 DEF Rerate, EngineTypes, bookVars, sessionVars
  <2>2. RowTypes' /\ ScanTypes' /\ RequestTypes'
    BY <1>1, <1>4 DEF Rerate, bookVars, sessionVars, cryptoVars, RowTypes, ScanTypes,
       RequestTypes, slotVars
  <2> QED
    BY <2>1, <2>2
<1> QED
  BY <1>2, <1>3, <1>4 DEF Operate

LEMMA RestartTypes == ASSUME Types, Restart PROVE Types'
<1> USE DEF Types
<1>1. RowTypes'
  BY DEF Restart, PoolRestart, RowTypes
<1>2. EngineTypes'
  BY DEF Restart, PoolRestart, EngineTypes
<1>3. RequestTypes'
  BY NoReqType, DispatchAssumption DEF Restart, RequestTypes, Phases, Answers
<1>4. ScanTypes'
  BY NoScanType DEF Restart, PoolRestart, ScanTypes
<1> QED
  BY <1>1, <1>2, <1>3, <1>4

LEMMA TypesNext == Types /\ [Next]_vars => Types'
<1> SUFFICES ASSUME Types, [Next]_vars PROVE Types'
  OBVIOUS
<1>1. ASSUME NEW r \in Slots, Begin(r) \/ Gate(r) \/ KeyStep(r) PROVE Types'
  BY <1>1, BeginTypes, GateTypes, RejectTypes, ReadTypes, ReadFailsTypes, SkipTypes,
     TakeTypes,
     ExhaustedTypes DEF KeyStep
<1>2. ASSUME NEW r \in Slots, PeerStep(r) \/ Upstream(r) \/ Serve(r) \/ Return(r)
      PROVE Types'
  BY <1>2, PeerTypes, UpstreamTypes, ServeTypes
<1>3. CASE Operate \/ Restart
  BY <1>3, OperateTypes, RestartTypes
<1>4. CASE UNCHANGED vars
  BY <1>4 DEF vars, poolVars, slotVars, Types, RowTypes, EngineTypes, ScanTypes,
     RequestTypes
<1> QED
  BY <1>1, <1>2, <1>3, <1>4 DEF Next

\* The state of the pool and of the loop stays well typed (drr.go:69-146,
\* middleware.go:322-472).
THEOREM DispatchType == Spec => []TypeOK
<1>1. Types => TypeOK
  BY DEF Types, RowTypes, EngineTypes, ScanTypes, RequestTypes, Requests, Scans,
         TypeOK, PoolTypeOK
<1> QED
  BY TypesInit, TypesNext, <1>1, PTL DEF Spec

----------------------------------------------------------------------------
(* Nobody draws beyond the free-rider limit.                               *)

\* Who scans holds the lock, and was within its limit when it took it: no
\* other request can book in between.
Lock ==
  /\ \A r \in Slots : pc[r] = "scan" =>
       /\ holder = r
       /\ req[r].who # NoUser => usage[req[r].who] <= FreeRiderLimit
  /\ \A u \in Users : /\ taken[u] = usage[u] + returned[u]
                      /\ usage[u] <= FreeRiderLimit + MaxEst

LEMMA LockInit == Init => Lock
BY PoolAssumption DEF Init, PoolInit, Lock

\* Steps that neither book nor enter the scan.
LEMMA LockQuiet ==
  ASSUME Lock, UNCHANGED <<holder, sessionVars>>,
         \A r \in Slots : pc'[r] = "scan" => pc[r] = "scan" /\ req'[r].who = req[r].who
  PROVE  Lock'
BY DEF Lock, sessionVars

LEMMA LockNoKey ==
  ASSUME Types, NEW r \in Slots, NoKey(r)
  PROVE  pc'[r] # "scan" /\ \A m \in Slots \ {r} : pc'[m] = pc[m] /\ req'[m] = req[m]
BY DEF NoKey, Finish, Goto, Types, RequestTypes

LEMMA LockGate == ASSUME Types, Lock, NEW r \in Slots, Gate(r) PROVE Lock'
<1>1. /\ UNCHANGED sessionVars /\ usage \in [Users -> Int]
      /\ req[r].who \in Users \cup {NoUser}
  BY DEF Gate, bookVars, sessionVars, Types, EngineTypes, RequestTypes, Requests
<1>2. CASE Refused(req[r].who)
  BY <1>1, <1>2, LockNoKey, LockQuiet DEF Gate
<1>3. CASE ~Refused(req[r].who)
  <2>1. /\ holder = None /\ holder' = r
        /\ pc' = [pc EXCEPT ![r] = "scan"] /\ UNCHANGED req
    BY <1>3 DEF Gate, Acquire, Goto
  <2>2. \A m \in Slots : pc[m] # "scan"
    BY <2>1, PoolAssumption DEF Lock, sessionVars
  <2>3. \A m \in Slots : pc'[m] = "scan" => m = r
    BY <2>1, <2>2 DEF Types, RequestTypes
  <2>4. req[r].who # NoUser => usage[req[r].who] <= FreeRiderLimit
    BY <1>1, <1>3, PoolAssumption DEF Refused
  <2> QED
    BY <1>1, <2>1, <2>3, <2>4 DEF Lock, sessionVars
<1> QED
  BY <1>2, <1>3

LEMMA LockTake == ASSUME Types, Lock, NEW r \in Slots, TakeKey(r) PROVE Lock'
<1>0. PICK u \in Users \cup {NoUser}, e \in Int : u = req[r].who /\ e = req[r].est
  BY RowType DEF Types, RequestTypes, Requests
<1>1. /\ e <= MaxEst /\ pc[r] = "scan"
      /\ usage \in [Users -> Int] /\ taken \in [Users -> Nat] /\ returned \in [Users -> Nat]
  BY <1>0, RowType DEF TakeKey, Types, EngineTypes
<1>2. \A m \in Slots : pc'[m] # "scan"
  BY <1>1 DEF TakeKey, Goto, Lock, Types, RequestTypes
<1>3. IF u = NoUser THEN UNCHANGED <<usage, taken, returned>>
      ELSE /\ usage' = [usage EXCEPT ![u] = @ + e]
           /\ taken' = [taken EXCEPT ![u] = @ + Plus(e)]
           /\ returned' = [returned EXCEPT ![u] = @ + Plus(-e)]
  BY <1>0, DrawBooks DEF sessionVars
<1>4. u # NoUser => usage[u] <= FreeRiderLimit
  BY <1>0, <1>1 DEF Lock
<1>5. Plus(e) \in Nat /\ Plus(-e) \in Nat /\ e = Plus(e) - Plus(-e)
  BY PlusType
<1>6. ASSUME NEW v \in Users
      PROVE  taken'[v] = usage'[v] + returned'[v] /\ usage'[v] <= FreeRiderLimit + MaxEst
  <2>1. /\ taken[v] = usage[v] + returned[v] /\ usage[v] <= FreeRiderLimit + MaxEst
        /\ taken[v] \in Nat /\ returned[v] \in Nat /\ usage[v] \in Int
    BY <1>1 DEF Lock
  <2>2. CASE v = u /\ u # NoUser
    <3>1. /\ usage'[v] = usage[v] + e /\ taken'[v] = taken[v] + Plus(e)
          /\ returned'[v] = returned[v] + Plus(-e)
      BY <1>1, <1>3, <2>2
    <3>2. usage[v] <= FreeRiderLimit
      BY <1>4, <2>2
    <3> QED
      BY <1>1, <1>5, <2>1, <3>1, <3>2, PoolAssumption
  <2>3. CASE ~(v = u /\ u # NoUser)
    BY <1>1, <1>3, <2>1, <2>3
  <2> QED
    BY <2>2, <2>3
<1> QED
  BY <1>2, <1>6 DEF Lock

LEMMA LockExhausted == ASSUME Types, Lock, NEW r \in Slots, Exhausted(r) PROVE Lock'
<1>1. \A m \in Slots : pc'[m] # "scan"
  BY LockNoKey DEF Exhausted, Lock
<1> QED
  BY <1>1 DEF Exhausted, bookVars, sessionVars, Lock

LEMMA LockNext == Types /\ Lock /\ [Next]_vars => Lock'
<1> SUFFICES ASSUME Types, Lock, [Next]_vars PROVE Lock'
  OBVIOUS
<1>1. ASSUME NEW r \in Slots, Begin(r) \/ PeerStep(r) \/ Serve(r) \/ Return(r) PROVE Lock'
  <2>1. /\ UNCHANGED <<holder, sessionVars>> /\ pc'[r] # "scan"
        /\ \A m \in Slots \ {r} : pc'[m] = pc[m] /\ req'[m] = req[m]
    BY <1>1 DEF Begin, PeerStep, PeerCall, PingPeers, PeerAnswers, PeerFails, Serve,
       Return,
                Finish, Goto, poolVars, sessionVars, Types, RequestTypes
  <2> QED
    BY <2>1, LockQuiet
<1>2. ASSUME NEW r \in Slots, Upstream(r) PROVE Lock'
  <2>1. /\ UNCHANGED <<holder, sessionVars>> /\ pc'[r] # "scan"
        /\ \A m \in Slots \ {r} : pc'[m] = pc[m] /\ req'[m] = req[m]
    BY <1>2 DEF Upstream, Succeed, BreakOff, GiveUp, Outage, Retry, FailOver, Answered,
                Again, Finish, Goto, poolVars, sessionVars, Types, RequestTypes
  <2> QED
    BY <2>1, LockQuiet
<1>3. ASSUME NEW r \in Slots, RejectProof(r) \/ ReadRows(r) \/ ReadFails(r) PROVE Lock'
  <2>1. /\ UNCHANGED <<holder, sessionVars>> /\ pc'[r] # "scan"
        /\ \A m \in Slots \ {r} : pc'[m] = pc[m] /\ req'[m] = req[m]
    BY <1>3, LockNoKey DEF RejectProof, ReadRows, ReadFails, Finish, Goto, poolVars,
                           bookVars, sessionVars, Types, RequestTypes
  <2> QED
    BY <2>1, LockQuiet
<1>4. ASSUME NEW r \in Slots, Skip(r) PROVE Lock'
  BY <1>4, LockQuiet DEF Skip, slotVars, sessionVars
<1>5. ASSUME NEW r \in Slots, Gate(r) \/ TakeKey(r) \/ Exhausted(r) PROVE Lock'
  BY <1>5, LockGate, LockTake, LockExhausted
<1>6. CASE Operate
  BY <1>6, LockQuiet DEF Operate, slotVars, HandlePoolDonate, DonateCmd, AddPoolNode,
                         Revoke, Rerate, bookVars, sessionVars
<1>7. CASE Restart
  BY <1>7, PoolAssumption DEF Restart, PoolRestart, Lock
<1>8. CASE UNCHANGED vars
  BY <1>8, LockQuiet DEF vars, poolVars, slotVars, sessionVars
<1> QED
  BY <1>1, <1>2, <1>3, <1>4, <1>5, <1>6, <1>7, <1>8 DEF Next, KeyStep

\* A session draws at most one estimate beyond its limit and what its own
\* negative estimates took off its usage, however many of its requests run at
\* once and whatever they say they need (drr.go:82, :137, protocol.go:137).
THEOREM FreeRider == Spec => []FreeRiderBound
<1>1. Types /\ Lock => FreeRiderBound
  <2> SUFFICES ASSUME Types, Lock, NEW u \in Users
               PROVE  taken[u] <= FreeRiderLimit + returned[u] + MaxEst
    BY DEF FreeRiderBound
  <2>1. taken[u] = usage[u] + returned[u] /\ usage[u] <= FreeRiderLimit + MaxEst
    BY DEF Lock
  <2>2. usage[u] \in Int /\ returned[u] \in Nat
    BY DEF Types, EngineTypes
  <2> QED
    BY <2>1, <2>2, PoolAssumption
<1> QED
  BY TypesInit, TypesNext, LockInit, LockNext, <1>1, PTL DEF Spec

----------------------------------------------------------------------------
(* The loop ends with an answer.                                           *)

LEMMA FinishAnswers ==
  ASSUME Types, DoneHasAnswer, NEW r \in Slots, NEW a \in Answers \ {"none"}, Finish(r, a)
  PROVE  DoneHasAnswer'
BY DEF Types, RequestTypes, DoneHasAnswer, Finish, Goto

LEMMA KeepsAnswers ==
  ASSUME DoneHasAnswer, UNCHANGED res,
         \A r \in Slots : pc'[r] = "done" => pc[r] = "done"
  PROVE  DoneHasAnswer'
BY DEF DoneHasAnswer

LEMMA NoKeyAnswers ==
  ASSUME Types, DoneHasAnswer, NEW r \in Slots, NoKey(r) PROVE DoneHasAnswer'
<1>1. CASE req[r].remote
  BY <1>1, FinishAnswers DEF NoKey, Answers
<1>2. CASE ~req[r].remote
  BY <1>2, KeepsAnswers DEF NoKey, Goto, Types, RequestTypes
<1> QED
  BY <1>1, <1>2

LEMMA KeyAnswers ==
  ASSUME Types, DoneHasAnswer, NEW r \in Slots, KeyStep(r) \/ Gate(r) PROVE DoneHasAnswer'
<1>1. CASE RejectProof(r)
  BY <1>1, FinishAnswers DEF RejectProof, Answers
<1>2. CASE ReadRows(r) \/ ReadFails(r)
  BY <1>2, NoKeyAnswers, KeepsAnswers DEF ReadRows, ReadFails, Goto, Types, RequestTypes
<1>3. CASE Gate(r)
  BY <1>3, NoKeyAnswers, KeepsAnswers DEF Gate, Goto, Types, RequestTypes
<1>4. CASE Skip(r)
  BY <1>4, KeepsAnswers DEF Skip, slotVars
<1>5. CASE TakeKey(r)
  BY <1>5, KeepsAnswers DEF TakeKey, Goto, Types, RequestTypes
<1>6. CASE Exhausted(r)
  BY <1>6, NoKeyAnswers DEF Exhausted
<1> QED
  BY <1>1, <1>2, <1>3, <1>4, <1>5, <1>6 DEF KeyStep

LEMMA AnswersNext == Types /\ DoneHasAnswer /\ [Next]_vars => DoneHasAnswer'
<1> SUFFICES ASSUME Types, DoneHasAnswer, [Next]_vars PROVE DoneHasAnswer'
  OBVIOUS
<1>1. ASSUME NEW r \in Slots, KeyStep(r) \/ Gate(r) PROVE DoneHasAnswer'
  BY <1>1, KeyAnswers
<1>2. ASSUME NEW r \in Slots, Begin(r) \/ PingPeers(r) \/ PeerFails(r) PROVE DoneHasAnswer'
  BY <1>2, KeepsAnswers DEF Begin, PingPeers, PeerFails, Goto, Types, RequestTypes
<1>3. ASSUME NEW r \in Slots, PeerAnswers(r) \/ Serve(r) PROVE DoneHasAnswer'
  BY <1>3, FinishAnswers DEF PeerAnswers, Serve, Answers
<1>4. ASSUME NEW r \in Slots, Upstream(r) PROVE DoneHasAnswer'
  <2>1. CASE Retry(r) \/ FailOver(r)
    BY <2>1, RetryTypes, KeepsAnswers DEF Types, RequestTypes
  <2>2. CASE Succeed(r) \/ BreakOff(r) \/ GiveUp(r) \/ Outage(r)
    BY <2>2, FinishAnswers DEF Succeed, BreakOff, GiveUp, Outage, Answered, Answers
  <2> QED
    BY <1>4, <2>1, <2>2 DEF Upstream
<1>5. ASSUME NEW r \in Slots, Return(r) PROVE DoneHasAnswer'
  BY <1>5 DEF Return, Goto, DoneHasAnswer, Types, RequestTypes
<1>6. CASE Operate \/ UNCHANGED vars
  BY <1>6, KeepsAnswers DEF Operate, vars, slotVars
<1>7. CASE Restart
  BY <1>7 DEF Restart, DoneHasAnswer
<1> QED
  BY <1>1, <1>2, <1>3, <1>4, <1>5, <1>6, <1>7 DEF Next, PeerStep, PeerCall

\* However often it retries and fails over, the loop never ends without an
\* answer (middleware.go:399, :461).
THEOREM LoopAnswers == Spec => []DoneHasAnswer
<1>1. Init => DoneHasAnswer
  BY DEF Init, DoneHasAnswer
<1> QED
  BY TypesInit, TypesNext, AnswersNext, <1>1, PTL DEF Spec

----------------------------------------------------------------------------
(* A donated key serves little more than its quota.                        *)

\* The requests that hold a snapshot in which row n is live.
Holders(n) == {r \in Slots : n \in scan[r].live}

\* While a row is in the pool and something is left of it, what it served is
\* what was taken off its quota, what negative estimates put back on it, and
\* the decrements that failed; that leaves
\* room for every request that may still hold it.  Afterwards every draw uses
\* up one of the snapshots, and no new one is taken.
Account(n) ==
  /\ quota[n] <= Grant[n] + repaid[n]
  /\ quota[n] > 0 \/ drawn[n] > 0 \/ Holders(n) # {} => Grant[n] > 0
  /\ InPool(n) /\ quota[n] > 0 =>
       drawn[n] <= Grant[n] + repaid[n] - quota[n] + MaxEst * lost[n]
  /\ Grant[n] > 0 =>
       drawn[n] + MaxEst * Cardinality(Holders(n))
         < Grant[n] + repaid[n] + MaxEst * (Cardinality(Slots) + lost[n])

Books ==
  /\ \A p \in Providers : \A n \in ToSet(rows[p]) : Home[n] = p
  /\ \A n \in Nodes : Account(n)

\* A product grows with its second factor, and distributes.
LEMMA MulFacts ==
  ASSUME NEW m \in Nat, NEW a \in Nat, NEW b \in Nat
  PROVE  m * a \in Nat /\ m * (a + b) = m * a + m * b /\ m * 1 = m /\ m * 0 = 0
<1>1. m * a \in Nat
  BY SMT
<1>2. m * (a + b) = m * a + m * b
  BY SMT
<1> QED
  BY <1>1, <1>2, SMT

LEMMA MulMono ==
  ASSUME NEW m \in Nat, NEW a \in Nat, NEW b \in Nat, a <= b
  PROVE  m * a <= m * b
<1>1. b - a \in Nat /\ b = a + (b - a)
  OBVIOUS
<1> DEFINE d == b - a
<1>2. m * d \in Nat /\ m * b = m * a + m * d
  BY <1>1, MulFacts
<1> QED
  BY <1>2, MulFacts

LEMMA HoldersCount ==
  /\ Cardinality(Slots) \in Nat
  /\ \A n : /\ IsFiniteSet(Holders(n)) /\ Cardinality(Holders(n)) \in Nat
            /\ Cardinality(Holders(n)) <= Cardinality(Slots)
<1>1. IsFiniteSet(Slots) /\ Cardinality(Slots) \in Nat
  BY PoolAssumption, FS_CardinalityType
<1>2. ASSUME NEW n
      PROVE  IsFiniteSet(Holders(n)) /\ Cardinality(Holders(n)) <= Cardinality(Slots)
  BY <1>1, FS_Subset, Holders(n) \in SUBSET Slots DEF Holders
<1> QED
  BY <1>1, <1>2, FS_CardinalityType

LEMMA BooksInit == Init => Books
<1> SUFFICES ASSUME Init PROVE Books
  OBVIOUS
<1>1. \A p \in Providers : \A n \in ToSet(rows[p]) : Home[n] = p
  BY PoolAssumption DEF Init, PoolInit
<1>2. ASSUME NEW n \in Nodes PROVE Account(n)
  <2>1. Holders(n) = {}
    BY DEF Init, PoolInit, Holders, NoScan
  <2>2. quota[n] = Grant[n] /\ Grant[n] \in Nat /\ drawn[n] = 0
        /\ lost[n] = 0 /\ repaid[n] = 0
    BY PoolAssumption DEF Init, PoolInit
  <2>3. Cardinality(Holders(n)) = 0
    BY <2>1, FS_EmptySet
  <2>4. /\ MaxEst * lost[n] = 0 /\ MaxEst * Cardinality(Holders(n)) = 0
        /\ MaxEst * (Cardinality(Slots) + lost[n]) \in Nat
    BY <2>2, <2>3, HoldersCount, MulFacts, PoolAssumption
  <2> QED
    BY <2>1, <2>2, <2>4 DEF Account
<1> QED
  BY <1>1, <1>2 DEF Books

\* Steps that serve nothing and give no new hold on the row.
LEMMA AccountKept ==
  ASSUME Types, NEW n \in Nodes, Account(n),
         quota'[n] = quota[n], drawn'[n] = drawn[n], lost'[n] = lost[n],
         repaid'[n] = repaid[n],
         InPool(n)' => InPool(n), Holders(n)' \subseteq Holders(n)
  PROVE  Account(n)'
<1> DEFINE c == Cardinality(Holders(n))
           d == Cardinality(Holders(n)')
<1>1. IsFiniteSet(Holders(n)) /\ c \in Nat /\ d \in Nat /\ d <= c
  BY HoldersCount, FS_Subset, FS_CardinalityType
<1>2. MaxEst * d <= MaxEst * c /\ MaxEst * d \in Nat /\ MaxEst * c \in Nat
  BY <1>1, MulMono, MulFacts, PoolAssumption
<1>3. /\ Grant[n] \in Nat /\ drawn[n] \in Nat /\ lost[n] \in Nat /\ repaid[n] \in Nat
      /\ Cardinality(Slots) + lost[n] \in Nat
  BY HoldersCount, PoolAssumption DEF Types, RowTypes
<1>4. MaxEst * (Cardinality(Slots) + lost[n]) \in Nat
  BY <1>3, MulFacts, PoolAssumption
<1>5. Cardinality(Holders(n))' = d
  OBVIOUS
<1> QED
  BY <1>2, <1>3, <1>4, <1>5 DEF Account

\* A step that keeps the rows and the books, and takes no new snapshot.
LEMMA BooksKept ==
  ASSUME Types, Books, UNCHANGED <<rows, quota, drawn, repaid, lost>>,
         \A r \in Slots : scan'[r].live \subseteq scan[r].live
  PROVE  Books'
<1>1. ASSUME NEW n \in Nodes PROVE Account(n)'
  BY AccountKept DEF Books, InPool, Holders
<1> QED
  BY <1>1 DEF Books

\* A snapshot holds what is in the pool and has quota left.
LEMMA BooksRead == ASSUME Types, Books, NEW r \in Slots, ReadRows(r) PROVE Books'
<1> DEFINE p == req[r].prov
<1>1. UNCHANGED <<rows, quota, drawn, repaid, lost>> /\ p \in Providers
  BY DEF ReadRows, bookVars, sessionVars, Types, RequestTypes
<1>2. CASE rows[p] = <<>>
  BY <1>1, <1>2, BooksKept DEF ReadRows
<1>3. CASE rows[p] # <<>>
  <2> DEFINE live == {n \in ToSet(rows[p]) : quota[n] > 0}
  <2>1. scan' = [scan EXCEPT ![r] =
           [rows |-> rows[p], live |-> live, at |-> 0, left |-> Len(rows[p])]]
    BY <1>3 DEF ReadRows, Snapshot
  <2>2. \A m \in Slots \ {r} : scan'[m] = scan[m]
    BY <2>1 DEF Types, ScanTypes
  <2>3. scan'[r].live = live
    BY <2>1 DEF Types, ScanTypes
  <2>4. ASSUME NEW n \in Nodes PROVE Account(n)'
    <3>1. Account(n)
      BY DEF Books
    <3>2. CASE n \notin live
      <4>1. Holders(n)' \subseteq Holders(n)
        BY <2>2, <2>3, <3>2 DEF Holders
      <4> QED
        BY <1>1, <3>1, <4>1, AccountKept DEF InPool
    <3>3. CASE n \in live
      <4>1. InPool(n) /\ quota[n] > 0 /\ InPool(n)'
        BY <1>1, <3>3 DEF InPool, Books
      <4>2. /\ quota[n] \in Int /\ Grant[n] \in Nat /\ drawn[n] \in Nat /\ lost[n] \in Nat
            /\ repaid[n] \in Nat /\ Cardinality(Slots) \in Nat
        BY HoldersCount, PoolAssumption DEF Types, RowTypes
      <4> DEFINE d == Cardinality(Holders(n)')
      <4>3. d \in Nat /\ d <= Cardinality(Slots) /\ Cardinality(Holders(n))' = d
        <5>1. IsFiniteSet(Slots) /\ Holders(n)' \in SUBSET Slots
          BY PoolAssumption DEF Holders
        <5> QED
          BY <5>1, FS_Subset, FS_CardinalityType
      <4>4. /\ MaxEst * d <= MaxEst * Cardinality(Slots)
            /\ MaxEst * (Cardinality(Slots) + lost[n])
                 = MaxEst * Cardinality(Slots) + MaxEst * lost[n]
            /\ MaxEst * d \in Nat /\ MaxEst * lost[n] \in Nat
            /\ MaxEst * Cardinality(Slots) \in Nat
        BY <4>2, <4>3, MulMono, MulFacts, PoolAssumption
      <4>5. /\ drawn[n] <= Grant[n] + repaid[n] - quota[n] + MaxEst * lost[n]
            /\ quota[n] <= Grant[n] + repaid[n] /\ Grant[n] > 0
        BY <3>1, <4>1 DEF Account
      <4> HIDE DEF d
      <4>6. drawn[n] + MaxEst * d
              < Grant[n] + repaid[n] + MaxEst * (Cardinality(Slots) + lost[n])
        BY <4>1, <4>2, <4>4, <4>5
      <4> QED
        BY <1>1, <4>1, <4>2, <4>3, <4>5, <4>6 DEF Account
    <3> QED
      BY <3>2, <3>3
  <2> QED
    BY <1>1, <2>4 DEF Books
<1> QED
  BY <1>2, <1>3

\* A draw costs at most one estimate and gives up one hold.
LEMMA BooksTake == ASSUME Types, Books, NEW r \in Slots, TakeKey(r) PROVE Books'
<1>0. PICK n \in Nodes, e \in Int : n = Row(r) /\ e = req[r].est
  BY RowType
<1>1. n \in scan[r].live /\ e <= MaxEst
  BY <1>0, RowType
<1>2. /\ drawn' = [drawn EXCEPT ![n] = @ + Plus(e)] /\ UNCHANGED rows
      /\ \/ lost' = [lost EXCEPT ![n] = @ + 1] /\ UNCHANGED <<quota, repaid>>
         \/ /\ UNCHANGED lost
            /\ quota' = IF quota[n] > 0 /\ InPool(n)
                          THEN [quota EXCEPT ![n] = @ - e] ELSE quota
            /\ repaid' = [repaid EXCEPT ![n] = @ + Plus(quota'[n] - quota[n])]
      /\ scan' = [scan EXCEPT ![r] = NoScan]
  BY <1>0, DrawBooks
<1>3. \A m \in Nodes : Holders(m)' = Holders(m) \ {r}
  BY <1>2, NoScanType DEF Holders, Types, ScanTypes
<1>7. /\ quota \in [Nodes -> Int] /\ drawn \in [Nodes -> Nat] /\ lost \in [Nodes -> Nat]
      /\ repaid \in [Nodes -> Nat]
  BY DEF Types, RowTypes
<1>4. ASSUME NEW m \in Nodes, m # n PROVE Account(m)'
  <2>1. Account(m)
    BY DEF Books
  <2>2. /\ quota'[m] = quota[m] /\ drawn'[m] = drawn[m] /\ lost'[m] = lost[m]
        /\ repaid'[m] = repaid[m]
    BY <1>2, <1>4, <1>7
  <2> QED
    BY <1>2, <1>3, <2>1, <2>2, AccountKept DEF InPool
<1>5. Account(n)'
  <2>1. /\ quota[n] \in Int /\ Grant[n] \in Nat /\ drawn[n] \in Nat /\ lost[n] \in Nat
        /\ repaid[n] \in Nat /\ Account(n) /\ MaxEst \in Nat
    BY <1>7, PoolAssumption DEF Books
  <2> DEFINE c == Cardinality(Holders(n))
             d == Cardinality(Holders(n)')
             k == Cardinality(Slots)
             x == quota[n]
             y == drawn[n]
             l == lost[n]
             g == Grant[n]
             b == repaid[n]
  <2>2. c \in Nat /\ d \in Nat /\ c = d + 1 /\ k \in Nat /\ Holders(n) # {}
    <3>1. r \in Holders(n) /\ IsFiniteSet(Holders(n)) /\ k \in Nat /\ c \in Nat
      BY <1>1, HoldersCount DEF Holders
    <3>2. IsFiniteSet(Holders(n)') /\ d = c - 1
      BY <1>1, <1>3, <3>1, FS_RemoveElement
    <3>3. d \in Nat
      BY <3>2, FS_CardinalityType
    <3> QED
      BY <3>1, <3>2, <3>3
  <2>3. MaxEst * c = MaxEst * d + MaxEst /\ MaxEst * d \in Nat
    BY <2>1, <2>2, MulFacts
  <2>4. g > 0 /\ y + MaxEst * c < g + b + MaxEst * (k + l) /\ x <= g + b
    BY <2>1, <2>2 DEF Account
  <2>5. /\ MaxEst * (l + 1) = MaxEst * l + MaxEst /\ MaxEst * l \in Nat
        /\ MaxEst * (k + l) \in Nat
        /\ MaxEst * (k + (l + 1)) = MaxEst * (k + l) + MaxEst
    <3>1. l + 1 \in Nat /\ k + l \in Nat /\ k + (l + 1) = (k + l) + 1
      BY <2>1, <2>2
    <3> QED
      BY <2>1, <3>1, MulFacts
  <2>6. InPool(n) /\ x > 0 => y <= g + b - x + MaxEst * l
    BY <2>1 DEF Account
  <2>7. drawn'[n] = y + Plus(e) /\ Cardinality(Holders(n))' = d /\ InPool(n)' = InPool(n)
    BY <1>2, <1>7 DEF InPool
  <2>10. Plus(e) \in Nat /\ Plus(e) >= e /\ Plus(e) <= MaxEst
    BY <1>1, PlusType
  <2>8. CASE lost' = [lost EXCEPT ![n] = @ + 1] /\ UNCHANGED <<quota, repaid>>
    <3>1. lost'[n] = l + 1 /\ quota'[n] = x /\ repaid'[n] = b
      BY <1>7, <2>8
    <3> HIDE DEF c, d, k, x, y, l, g, b
    <3>2. y + Plus(e) + MaxEst * d < g + b + MaxEst * (k + (l + 1))
      BY <2>1, <2>3, <2>4, <2>5, <2>10 DEF y, l, g, b
    <3>3. InPool(n) /\ x > 0 => y + Plus(e) <= g + b - x + MaxEst * (l + 1)
      BY <2>1, <2>5, <2>6, <2>10 DEF x, y, l, g, b
    <3> QED
      BY <2>4, <2>7, <3>1, <3>2, <3>3 DEF Account, k, g
  <2>9. CASE /\ UNCHANGED lost
             /\ quota' = IF quota[n] > 0 /\ InPool(n)
                           THEN [quota EXCEPT ![n] = @ - e] ELSE quota
             /\ repaid' = [repaid EXCEPT ![n] = @ + Plus(quota'[n] - quota[n])]
    <3>1. /\ lost'[n] = l
          /\ quota'[n] = IF x > 0 /\ InPool(n) THEN x - e ELSE x
          /\ repaid'[n] = b + Plus(quota'[n] - x)
      BY <1>7, <2>9
    <3> DEFINE z == quota'[n]
               w == Plus(z - x)
    <3>5. z \in Int /\ w \in Nat /\ w >= z - x
      BY <2>1, <3>1, PlusType
    <3>6. (x > 0 /\ InPool(n)) => Plus(e) <= x - z + w
      <4> SUFFICES ASSUME x > 0 /\ InPool(n) PROVE Plus(e) <= x - z + w
        OBVIOUS
      <4>1. z = x - e
        BY <3>1
      <4>2. z - x = -e
        BY <2>1, <4>1
      <4>3. w = Plus(-e)
        BY <4>2
      <4>4. e = Plus(e) - Plus(-e) /\ Plus(e) \in Nat /\ Plus(-e) \in Nat
        BY PlusType
      <4> HIDE DEF z, w, x
      <4> QED
        BY <3>5, <4>2, <4>3, <4>4, <2>1 DEF x
    <3>7. z > 0 => x > 0
      BY <2>1, <3>1
    <3> HIDE DEF c, d, k, x, y, l, g, b, z, w
    <3>2. y + Plus(e) + MaxEst * d < g + (b + w) + MaxEst * (k + l)
      BY <2>1, <2>3, <2>4, <2>5, <2>10, <3>5 DEF y, l, g, b
    <3>3. InPool(n) /\ z > 0 => y + Plus(e) <= g + (b + w) - z + MaxEst * l
      BY <2>1, <2>5, <2>6, <2>10, <3>5, <3>6, <3>7 DEF x, y, l, g, b
    <3>4. z <= g + (b + w)
      BY <2>1, <2>4, <3>5 DEF x, g, b
    <3>8. repaid'[n] = b + w /\ lost'[n] = l /\ quota'[n] = z
      BY <3>1 DEF w, z
    <3> QED
      BY <2>4, <2>7, <3>2, <3>3, <3>4, <3>8 DEF Account, k, g
  <2> QED
    BY <1>2, <2>8, <2>9
<1> QED
  BY <1>2, <1>4, <1>5 DEF Books

\* A row that comes into the pool has served nothing yet.
LEMMA BooksAdd ==
  ASSUME Types, Books, NEW n \in Nodes, NEW key \in MasterKeys, AddPoolNode(n, key)
  PROVE  Books'
<1>1. /\ Home[n] \in Providers /\ rows \in [Providers -> Seq(Nodes)]
      /\ rows' = [rows EXCEPT ![Home[n]] = Append(@, n)]
      /\ UNCHANGED <<quota, drawn, repaid, lost, scan>> /\ drawn[n] = 0
  BY PoolAssumption DEF AddPoolNode, Types, RowTypes
<1>2. ToSet(rows'[Home[n]]) = ToSet(rows[Home[n]]) \cup {n}
  <2> DEFINE s == rows[Home[n]]
  <2>1. s \in Seq(Nodes) /\ rows'[Home[n]] = Append(s, n)
    BY <1>1
  <2>2. /\ Len(s) \in Nat /\ DOMAIN s = 1 .. Len(s)
        /\ DOMAIN Append(s, n) = 1 .. Len(s) + 1
        /\ Append(s, n)[Len(s) + 1] = n
        /\ \A i \in 1 .. Len(s) : Append(s, n)[i] = s[i]
    BY <2>1
  <2> QED
    BY <2>1, <2>2 DEF ToSet
<1>3. \A p \in Providers : p # Home[n] => rows'[p] = rows[p]
  BY <1>1
<1>4. \A p \in Providers : \A m \in ToSet(rows'[p]) : Home[m] = p
  BY <1>2, <1>3 DEF Books
<1>5. ASSUME NEW m \in Nodes PROVE Account(m)'
  <2>1. Account(m) /\ Holders(m)' = Holders(m)
    BY <1>1 DEF Books, Holders
  <2>2. CASE m # n
    <3>1. InPool(m)' => InPool(m)
      BY <1>2, <1>3, <2>2, PoolAssumption DEF InPool
    <3> QED
      BY <1>1, <2>1, <3>1, AccountKept
  <2>3. CASE m = n
    <3>1. /\ quota[n] \in Int /\ Grant[n] \in Nat /\ MaxEst * lost[n] \in Nat
          /\ repaid[n] \in Nat
      BY MulFacts, PoolAssumption DEF Types, RowTypes
    <3>2. 0 <= Grant[n] + repaid[n] - quota[n] + MaxEst * lost[n]
      BY <2>1, <2>3, <3>1 DEF Account
    <3>3. Cardinality(Holders(n))' = Cardinality(Holders(n))
      BY <2>1, <2>3
    <3> QED
      BY <1>1, <2>1, <2>3, <3>2, <3>3 DEF Account
  <2> QED
    BY <2>2, <2>3
<1> QED
  BY <1>4, <1>5 DEF Books

LEMMA BooksRevoke == ASSUME Types, Books, NEW n \in Nodes, Revoke(n) PROVE Books'
<1>1. UNCHANGED <<quota, drawn, repaid, lost, scan>>
  BY DEF Revoke
<1>2. \A p \in Providers : ToSet(rows'[p]) \subseteq ToSet(rows[p])
  BY RemoveRow
<1>3. ASSUME NEW m \in Nodes PROVE Account(m)'
  <2>1. Account(m) /\ Holders(m)' = Holders(m) /\ (InPool(m)' => InPool(m))
    BY <1>1, <1>2, PoolAssumption DEF Books, Holders, InPool
  <2> QED
    BY <1>1, <2>1, AccountKept
<1> QED
  BY <1>2, <1>3 DEF Books

LEMMA BooksKeyStep ==
  ASSUME Types, Books, NEW r \in Slots, KeyStep(r) \/ Gate(r) PROVE Books'
<1>1. CASE RejectProof(r)
  BY <1>1, BooksKept DEF RejectProof, bookVars, sessionVars
<1>2. CASE ReadRows(r)
  BY <1>2, BooksRead
<1>7. CASE ReadFails(r)
  BY <1>7, BooksKept DEF ReadFails, poolVars
<1>3. CASE Gate(r)
  <2>1. UNCHANGED <<rows, quota, drawn, repaid, lost>>
    BY <1>3 DEF Gate, bookVars, sessionVars
  <2>2. scan \in [Slots -> Scans]
    BY DEF Types, ScanTypes
  <2>3. \A m \in Slots : scan'[m].live \subseteq scan[m].live
    <3>1. CASE Refused(req[r].who)
      BY <1>3, <2>2, <3>1, NoScanType DEF Gate
    <3>2. CASE ~Refused(req[r].who)
      <4>1. PICK i : scan' = [scan EXCEPT ![r].at = i]
        BY <1>3, <3>2 DEF Gate, StartAt
      <4> QED
        BY <2>2, <4>1 DEF Scans
    <3> QED
      BY <3>1, <3>2
  <2> QED
    BY <2>1, <2>3, BooksKept
<1>4. CASE Skip(r)
  <2>1. UNCHANGED <<rows, quota, drawn, repaid, lost>>
    BY <1>4 DEF Skip, bookVars, sessionVars
  <2>2. \A m \in Slots : scan'[m].live \subseteq scan[m].live
    BY <1>4 DEF Skip, PassOver, Types, ScanTypes, Scans
  <2> QED
    BY <2>1, <2>2, BooksKept
<1>5. CASE TakeKey(r)
  BY <1>5, BooksTake
<1>6. CASE Exhausted(r)
  <2>1. \A m \in Slots : scan'[m].live \subseteq scan[m].live
    BY <1>6, NoScanType DEF Exhausted, Release, Types, ScanTypes
  <2> QED
    BY <1>6, <2>1, BooksKept DEF Exhausted, bookVars, sessionVars
<1> QED
  BY <1>1, <1>2, <1>3, <1>4, <1>5, <1>6, <1>7 DEF KeyStep

LEMMA BooksNext == Types /\ Books /\ [Next]_vars => Books'
<1> SUFFICES ASSUME Types, Books, [Next]_vars PROVE Books'
  OBVIOUS
<1>1. ASSUME NEW r \in Slots, KeyStep(r) \/ Gate(r) PROVE Books'
  BY <1>1, BooksKeyStep
<1>2. ASSUME NEW r \in Slots, Begin(r) \/ PeerStep(r) \/ Upstream(r) \/ Serve(r) \/ Return(r)
      PROVE  Books'
  <2>1. UNCHANGED poolVars
    BY <1>2 DEF Begin, PeerStep, PeerCall, PingPeers, PeerAnswers, PeerFails, Upstream,
                Succeed, BreakOff, GiveUp, Outage, Retry, FailOver, Answered, Serve,
                Return
  <2> QED
    BY <2>1, BooksKept DEF poolVars
<1>3. ASSUME NEW n \in Nodes, HandlePoolDonate(n) \/ DonateCmd(n) PROVE Books'
  BY <1>3, BooksAdd DEF HandlePoolDonate, DonateCmd, Types, RowTypes
<1>4. ASSUME NEW n \in Nodes, Revoke(n) PROVE Books'
  BY <1>4, BooksRevoke
<1>5. ASSUME NEW u \in Users, Rerate(u) PROVE Books'
  BY <1>5, BooksKept DEF Rerate, bookVars, sessionVars
<1>6. CASE Restart
  <2>1. \A m \in Slots : scan'[m].live \subseteq scan[m].live
    BY <1>6, NoScanType DEF Restart, PoolRestart
  <2> QED
    BY <1>6, <2>1, BooksKept DEF Restart, PoolRestart
<1>7. CASE UNCHANGED vars
  BY <1>7, BooksKept DEF vars, poolVars
<1> QED
  BY <1>1, <1>2, <1>3, <1>4, <1>5, <1>6, <1>7 DEF Next, Operate

\* A donated key serves less than its quota, what negative estimates put back
\* on it, one estimate for every request that can hold an old snapshot, and one
\* for every decrement that failed, whatever the peers say they need
\* (drr.go:74, ledger.go:286, protocol.go:137).
THEOREM QuotaHolds == Spec => []QuotaBound
<1>1. Types /\ Books => QuotaBound
  <2> SUFFICES ASSUME Types, Books, NEW n \in Nodes, drawn[n] > 0
               PROVE  drawn[n] < Grant[n] + repaid[n]
                                   + MaxEst * (Cardinality(Slots) + lost[n])
    BY DEF QuotaBound
  <2>1. /\ drawn[n] + MaxEst * Cardinality(Holders(n))
             < Grant[n] + repaid[n] + MaxEst * (Cardinality(Slots) + lost[n])
        /\ Cardinality(Holders(n)) \in Nat /\ Cardinality(Slots) + lost[n] \in Nat
    BY HoldersCount DEF Books, Account, Types, RowTypes
  <2>2. /\ MaxEst * Cardinality(Holders(n)) \in Nat
        /\ MaxEst * (Cardinality(Slots) + lost[n]) \in Nat
        /\ drawn[n] \in Nat /\ Grant[n] \in Nat /\ repaid[n] \in Nat
    BY <2>1, MulFacts, PoolAssumption DEF Types, RowTypes
  <2> QED
    BY <2>1, <2>2
<1> QED
  BY TypesInit, TypesNext, BooksInit, BooksNext, <1>1, PTL DEF Spec

----------------------------------------------------------------------------
(* Credentials.                                                            *)

\* A request has gone nowhere but to the provider it was meant for and to the
\* fallback, and every key of the proxy it carries is accounted for.
Matching(q) ==
  /\ q.prov # q.first => q.prov = Fallback
  /\ \A h \in Headers : q.hdr[h] \in {q.prov, Client, None} \/ Survives(q, h)

\* Where a slot has no request.
Vacant == {"idle", "done"}
Carried == \A r \in Slots : pc[r] \notin Vacant => Matching(req[r])

LEMMA CarriedKept ==
  ASSUME Carried,
         \A r \in Slots : pc'[r] \notin Vacant =>
           /\ pc[r] \notin Vacant
           /\ req'[r].prov = req[r].prov
           /\ req'[r].first = req[r].first /\ req'[r].hdr = req[r].hdr
  PROVE  Carried'
BY DEF Carried, Matching, Survives

\* A step of r, after which its headers match.
LEMMA CarriedStep ==
  ASSUME Carried, NEW r \in Slots, pc'[r] \notin Vacant => Matching(req'[r]),
         \A m \in Slots \ {r} : pc'[m] = pc[m] /\ req'[m] = req[m]
  PROVE  Carried'
BY DEF Carried, Matching, Survives

LEMMA CarriedBegin == ASSUME Types, Carried, NEW r \in Slots, Begin(r) PROVE Carried'
<1>1. PICK k \in Traffic :
        req' = [req EXCEPT ![r] =
          IF k.remote THEN Arriving(k) ELSE WithConfiguredKey(Arriving(k), k.prov)]
  BY DEF Begin
<1> DEFINE q == Arriving(k)
<1>2. /\ q.prov = k.prov /\ q.first = k.prov
      /\ q.hdr = [h \in Headers |-> IF h \in k.carries THEN Client ELSE None]
  BY DEF Arriving, NoReq
<1>3. Matching(q)
  BY <1>2 DEF Matching
<1>4. Matching(WithConfiguredKey(q, k.prov))
  <2> DEFINE g == [h \in Headers |->
                     IF h = KeyHeader[k.prov] THEN IF k.prov \in Configured THEN k.prov ELSE None
                     ELSE IF h = "original" /\ q.hdr["authorization"] # None
                       THEN q.hdr["authorization"] ELSE q.hdr[h]]
  <2>1. WithConfiguredKey(q, k.prov) = [q EXCEPT !.hdr = g]
    BY DEF WithConfiguredKey
  <2>2. "authorization" \in Headers
    BY DEF Headers
  <2>3. \A h \in Headers : g[h] \in {k.prov, Client, None}
    BY <1>2, <2>2
  <2> HIDE DEF g
  <2>4. [q EXCEPT !.hdr = g].prov = k.prov /\ [q EXCEPT !.hdr = g].first = k.prov
        /\ [q EXCEPT !.hdr = g].hdr = g
    BY <1>2 DEF Arriving, NoReq
  <2> HIDE DEF q
  <2> QED
    BY <2>1, <2>3, <2>4 DEF Matching
<1>5. /\ Matching(req'[r])
      /\ \A m \in Slots \ {r} : pc'[m] = pc[m] /\ req'[m] = req[m]
  BY <1>1, <1>3, <1>4 DEF Begin, Goto, Types, RequestTypes
<1> QED
  BY <1>5, CarriedStep

LEMMA CarriedNoKey ==
  ASSUME Types, Carried, NEW r \in Slots, NoKey(r), pc[r] \notin Vacant
  PROVE  Carried'
<1>1. CASE req[r].remote
  BY <1>1, CarriedKept DEF NoKey, Finish, Goto, Vacant, Types, RequestTypes
<1>2. CASE ~req[r].remote
  BY <1>2, CarriedKept DEF NoKey, Goto, Vacant, Types, RequestTypes
<1> QED
  BY <1>1, <1>2

\* One header is replaced by a key of the provider.
LEMMA MatchingSet ==
  ASSUME NEW q \in Requests, Matching(q), NEW i \in Headers
  PROVE  Matching([q EXCEPT !.hdr[i] = q.prov])
<1> DEFINE t == [q EXCEPT !.hdr[i] = q.prov]
<1>1. /\ t.prov = q.prov /\ t.first = q.first /\ t.hdr[i] = q.prov
      /\ \A h \in Headers \ {i} : t.hdr[h] = q.hdr[h]
  BY DEF Requests
<1> HIDE DEF t
<1>2. Matching(t)
  BY <1>1 DEF Matching, Survives
<1> QED
  BY <1>2 DEF t

LEMMA CarriedKey ==
  ASSUME Types, Carried, NEW r \in Slots, KeyStep(r) \/ Gate(r) PROVE Carried'
<1>1. CASE RejectProof(r)
  BY <1>1, CarriedKept DEF RejectProof, Finish, Goto, Vacant, Types, RequestTypes
<1>2. CASE ReadRows(r) \/ ReadFails(r)
  BY <1>2, CarriedNoKey, CarriedKept DEF ReadRows, ReadFails, Goto, Vacant, Types,
     RequestTypes
<1>3. CASE Gate(r)
  BY <1>3, CarriedNoKey, CarriedKept DEF Gate, Goto, Vacant, Types, RequestTypes
<1>4. CASE Skip(r)
  BY <1>4, CarriedKept DEF Skip, slotVars
<1>5. CASE TakeKey(r)
  <2>1. /\ req' = [req EXCEPT ![r] = WithPoolKey(@)]
        /\ \A m \in Slots \ {r} : pc'[m] = pc[m] /\ req'[m] = req[m]
    BY <1>5 DEF TakeKey, Goto, Types, RequestTypes
  <2>2. req[r] \in Requests /\ Matching(req[r])
    BY <1>5 DEF TakeKey, Vacant, Carried, Types, RequestTypes
  <2>3. Matching(WithPoolKey(req[r]))
    BY <2>2, MatchingSet, {"authorization", "x-api-key"} \subseteq Headers
       DEF WithPoolKey, Headers
  <2> QED
    BY <2>1, <2>3, CarriedStep DEF Types, RequestTypes
<1>6. CASE Exhausted(r)
  BY <1>6, CarriedNoKey DEF Exhausted, Vacant
<1> QED
  BY <1>1, <1>2, <1>3, <1>4, <1>5, <1>6 DEF KeyStep

LEMMA CarriedPeer == ASSUME Types, Carried, NEW r \in Slots, PeerStep(r) PROVE Carried'
<1>1. req[r] \in Requests /\ pc \in [Slots -> Phases] /\ req \in [Slots -> Requests]
  BY DEF Types, RequestTypes
<1>2. CASE PeerAnswers(r)
  BY <1>1, <1>2, CarriedKept DEF PeerAnswers, Finish, Goto, Vacant
<1>3. CASE PingPeers(r) \/ PeerFails(r)
  <2>1. PICK S \in SUBSET Peers : req' = [req EXCEPT ![r].peers = S]
    BY <1>1, <1>3 DEF PingPeers, PeerFails, Requests
  <2>2. /\ req'[r].prov = req[r].prov
        /\ req'[r].first = req[r].first /\ req'[r].hdr = req[r].hdr
        /\ \A m \in Slots \ {r} : req'[m] = req[m]
    BY <1>1, <2>1 DEF Requests
  <2>3. pc[r] \notin Vacant /\ \A m \in Slots \ {r} : pc'[m] = pc[m]
    BY <1>1, <1>3 DEF PingPeers, PeerFails, Goto, Vacant
  <2> QED
    BY <2>2, <2>3, CarriedKept
<1> QED
  BY <1>2, <1>3 DEF PeerStep, PeerCall

\* A failover leaves the provider the request was meant for, and no other: of
\* its keys only those survive that nothing removes.
LEMMA MatchingTranslated ==
  ASSUME NEW q \in Requests, Matching(q), q.prov # Fallback
  PROVE  Matching(Translated(q, Fallback))
<1> DEFINE t == Translated(q, Fallback)
<1>1. q.prov = q.first /\ q.hdr \in [Headers -> Credentials]
  BY DEF Matching, Requests
<1>2. \A h \in Headers : q.hdr[h] \in {q.first, Client, None}
  BY <1>1 DEF Matching, Survives
<1>3. CASE KeyHeader[Fallback] = "x-api-key"
  <2>1. /\ t.prov = Fallback /\ t.first = q.first
        /\ t.hdr["authorization"] = None
        /\ t.hdr["x-api-key"] \in {Fallback, q.hdr["x-api-key"]}
        /\ \A h \in Headers \ {"authorization", "x-api-key"} : t.hdr[h] = q.hdr[h]
    BY <1>1, <1>3 DEF Translated, Requests, Headers
  <2> HIDE DEF t
  <2>2. Matching(t)
    BY <1>1, <1>2, <2>1 DEF Matching, Survives
  <2> QED
    BY <2>2 DEF t
<1>4. CASE KeyHeader[Fallback] # "x-api-key"
  <2>1. t.prov = Fallback /\ t.first = q.first /\ t.hdr = q.hdr
    BY <1>4 DEF Translated, Requests
  <2> HIDE DEF t
  <2>2. Matching(t)
    BY <1>1, <1>2, <1>4, <2>1 DEF Matching, Survives
  <2> QED
    BY <2>2 DEF t
<1> QED
  BY <1>3, <1>4

LEMMA CarriedUpstream ==
  ASSUME Types, Carried, NEW r \in Slots, Upstream(r) PROVE Carried'
<1>1. /\ req[r] \in Requests /\ pc \in [Slots -> Phases] /\ req \in [Slots -> Requests]
      /\ pc[r] = "send" /\ Matching(req[r])
  BY DEF Types, RequestTypes, Carried, Vacant, Upstream, Succeed, BreakOff, GiveUp, Retry,
         FailOver, Outage, Answered
<1>2. CASE Succeed(r) \/ BreakOff(r) \/ GiveUp(r) \/ Outage(r)
  BY <1>1, <1>2, CarriedKept DEF Succeed, BreakOff, GiveUp, Outage, Answered, Finish,
     Goto, Vacant
<1>3. ASSUME NEW q \in Requests, Matching(q), Again(r, q) PROVE Carried'
  <2>1. /\ req' = [req EXCEPT ![r] = [q EXCEPT !.attempt = @ + 1]]
        /\ \A m \in Slots \ {r} : pc'[m] = pc[m] /\ req'[m] = req[m]
    BY <1>1, <1>3 DEF Again, Goto
  <2>2. Matching([q EXCEPT !.attempt = @ + 1])
    BY <1>3 DEF Matching, Survives, Requests
  <2> QED
    BY <1>1, <2>1, <2>2, CarriedStep
<1>4. CASE Retry(r)
  BY <1>1, <1>3, <1>4 DEF Retry
<1>5. CASE FailOver(r)
  <2>1. Translated(req[r], Fallback) \in Requests /\ req[r].prov # Fallback
    BY <1>1, <1>5, TranslatedType, DispatchAssumption DEF FailOver, MayFailOver
  <2>2. Matching(Translated(req[r], Fallback))
    BY <1>1, <2>1, MatchingTranslated
  <2> QED
    BY <1>3, <1>5, <2>1, <2>2 DEF FailOver
<1> QED
  BY <1>2, <1>4, <1>5 DEF Upstream

LEMMA CarriedNext == Types /\ Carried /\ [Next]_vars => Carried'
<1> SUFFICES ASSUME Types, Carried, [Next]_vars PROVE Carried'
  OBVIOUS
<1>1. ASSUME NEW r \in Slots, KeyStep(r) \/ Gate(r) PROVE Carried'
  BY <1>1, CarriedKey
<1>2. ASSUME NEW r \in Slots, Begin(r) \/ PeerStep(r) \/ Upstream(r) PROVE Carried'
  BY <1>2, CarriedBegin, CarriedPeer, CarriedUpstream
<1>3. ASSUME NEW r \in Slots, Serve(r) \/ Return(r) PROVE Carried'
  BY <1>3, CarriedKept DEF Serve, Return, Finish, Goto, Vacant, Types, RequestTypes
<1>4. CASE Operate \/ UNCHANGED vars
  BY <1>4, CarriedKept DEF Operate, vars, slotVars
<1>5. CASE Restart
  BY <1>5 DEF Restart, Carried, Vacant
<1> QED
  BY <1>1, <1>2, <1>3, <1>4, <1>5 DEF Next

\* Whatever the client sent, whichever keys the pool gave and wherever the
\* request failed over to, it carries no key of the proxy but those of its
\* provider and, after a failover, those of the provider it was meant for that
\* the failover leaves; to anthropic none of them in Authorization
\* (director.go:87-110, middleware.go:329-347, :419-455).
THEOREM CredentialsFollow == Spec => []CredentialMatches
<1>1. Init => Carried
  BY DEF Init, Carried, Vacant
<1>2. Carried => CredentialMatches
  BY DEF Carried, Matching, CredentialMatches, Vacant
<1> QED
  BY TypesInit, TypesNext, CarriedNext, <1>1, <1>2, PTL DEF Spec

----------------------------------------------------------------------------
(* Every key has its turn.                                                 *)

\* Where the next scan of the list starts, and the places from there to k.
Origin(p) == IF index[p] >= Len(rows[p]) THEN 0 ELSE index[p]
Gap(o, k, len) == IF k > o THEN k - 1 - o ELSE k - 1 - o + len

\* A key that no scan passes over.
Eligible(n) == n \notin Premium /\ quota[n] > 0 /\ Decrypts(n)

\* Every draw that misses an eligible key brings the index nearer to it.
Turn(p) ==
  \A k \in DOMAIN rows[p] :
    /\ missed[rows[p][k]] < Len(rows[p])
    /\ Eligible(rows[p][k]) =>
         missed[rows[p][k]] + Gap(Origin(p), k, Len(rows[p])) < Len(rows[p])

Distinct == \A p \in Providers : IsInjective(rows[p])

\* What is left of a quota was there when the scan read the rows.
LiveScans ==
  \A r \in Slots : \A k \in DOMAIN scan[r].rows :
    quota[scan[r].rows[k]] > 0 => scan[r].rows[k] \in scan[r].live

\* A scan is where the index says.
ScanPlace ==
  \A r \in Slots : pc[r] = "scan" =>
    scan[r].at = IF index[req[r].prov] >= Len(scan[r].rows) THEN 0
                 ELSE index[req[r].prov]

Turns ==
  /\ missed \in [Nodes -> Nat]
  /\ Distinct /\ LiveScans /\ ScanPlace
  /\ \A p \in Providers : Turn(p)

\* What the types say of a list, and what Home says of its rows.
LEMMA ListFacts ==
  ASSUME Types, Books, NEW p \in Providers
  PROVE  /\ rows[p] \in Seq(Nodes) /\ Len(rows[p]) \in Nat /\ index[p] \in Nat
         /\ DOMAIN rows[p] = 1 .. Len(rows[p])
         /\ \A k \in DOMAIN rows[p] : rows[p][k] \in Nodes /\ Home[rows[p][k]] = p
         /\ Len(rows[p]) > 0 => Origin(p) \in Nat /\ Origin(p) < Len(rows[p])
<1>1. rows[p] \in Seq(Nodes) /\ index[p] \in Nat
  BY DEF Types, RowTypes, EngineTypes
<1>2. /\ Len(rows[p]) \in Nat /\ DOMAIN rows[p] = 1 .. Len(rows[p])
      /\ \A k \in DOMAIN rows[p] : rows[p][k] \in Nodes /\ rows[p][k] \in ToSet(rows[p])
  BY <1>1 DEF ToSet
<1> QED
  BY <1>1, <1>2 DEF Books, Origin

\* A step of the index passes one place; the others come one nearer.
LEMMA GapFacts ==
  ASSUME NEW len \in Nat, NEW o \in Nat, NEW k \in 1 .. len, o < len
  PROVE  /\ Gap(o, k, len) \in Nat /\ Gap(o, k, len) < len
         /\ (o + 1) % len \in Nat /\ (o + 1) % len < len
         /\ k # o + 1 => Gap((o + 1) % len, k, len) + 1 = Gap(o, k, len)
<1>1. (o + 1) % len = IF o + 1 = len THEN 0 ELSE o + 1
  <2>1. CASE o + 1 = len
    BY <2>1
  <2>2. CASE o + 1 < len
    BY <2>2
  <2> QED
    BY <2>1, <2>2
<1> QED
  BY <1>1 DEF Gap

\* A list that is left alone, by the books and by the index.
LEMMA TurnKept ==
  ASSUME Types, Books, NEW p \in Providers, Turn(p),
         rows'[p] = rows[p], index'[p] = index[p],
         \A n \in Nodes : Home[n] = p =>
           missed'[n] = missed[n] /\ (Eligible(n)' => Eligible(n))
  PROVE  Turn(p)'
<1>1. Origin(p)' = Origin(p)
  BY DEF Origin
<1>2. ASSUME NEW k \in DOMAIN rows[p]
      PROVE  missed'[rows[p][k]] = missed[rows[p][k]]
  BY ListFacts
<1>3. ASSUME NEW k \in DOMAIN rows[p], Eligible(rows[p][k])'
      PROVE  Eligible(rows[p][k])
  <2>1. PICK n \in Nodes : n = rows[p][k] /\ Home[n] = p
    BY ListFacts
  <2>2. Eligible(n)' => Eligible(n)
    BY <2>1
  <2>3. Eligible(n)'
    BY <1>3, <2>1 DEF Eligible, Decrypts
  <2> QED
    BY <2>1, <2>2, <2>3
<1> QED
  BY <1>1, <1>2, <1>3 DEF Turn

\* A list whose counts start again.
LEMMA TurnFresh ==
  ASSUME Types', Books', NEW p \in Providers,
         \A n \in Nodes : Home[n] = p => missed'[n] = 0
  PROVE  Turn(p)'
<1> DEFINE len == Len(rows'[p])
<1>1. /\ len \in Nat /\ DOMAIN rows'[p] = 1 .. len
      /\ \A k \in DOMAIN rows'[p] : rows'[p][k] \in Nodes /\ Home[rows'[p][k]] = p
      /\ len > 0 => Origin(p)' \in Nat /\ Origin(p)' < len
  <2>1. rows'[p] \in Seq(Nodes) /\ index'[p] \in Nat
    BY DEF Types, RowTypes, EngineTypes
  <2>2. /\ len \in Nat /\ DOMAIN rows'[p] = 1 .. len
        /\ \A k \in DOMAIN rows'[p] : rows'[p][k] \in Nodes /\ rows'[p][k] \in ToSet(rows'[p])
    BY <2>1 DEF ToSet
  <2> QED
    BY <2>1, <2>2 DEF Books, Origin
<1>2. ASSUME NEW k \in DOMAIN rows'[p]
      PROVE  /\ missed'[rows'[p][k]] = 0 /\ len > 0
             /\ Gap(Origin(p)', k, len) < len
             /\ Gap(Origin(p)', k, len) \in Nat
  <2>1. len > 0 /\ k \in 1 .. len
    BY <1>1
  <2> HIDE DEF len
  <2> QED
    BY <1>1, <1>2, <2>1, GapFacts
<1> QED
  BY <1>2 DEF Turn

\* The index moves on by one place: past a key that is drawn, or that is none
\* to wait for.
LEMMA TurnMoves ==
  ASSUME Types, Books, NEW p \in Providers, Turn(p), missed \in [Nodes -> Nat],
         rows'[p] = rows[p], Len(rows[p]) > 0,
         index'[p] = (Origin(p) + 1) % Len(rows[p]),
         \A k \in DOMAIN rows[p] : \A n \in Nodes : n = rows[p][k] =>
           /\ Eligible(n)' => Eligible(n)
           /\ IF k = Origin(p) + 1
                THEN missed'[n] = 0 \/ (missed'[n] = missed[n] /\ ~Eligible(n))
                ELSE \/ missed'[n] \in {0, missed[n]}
                     \/ missed'[n] = missed[n] + 1 /\ Eligible(n)
  PROVE  Turn(p)'
<1> DEFINE len == Len(rows[p])
           o == Origin(p)
           next == (o + 1) % len
<1>1. /\ len \in Nat /\ o \in Nat /\ o < len /\ DOMAIN rows[p] = 1 .. len
      /\ \A k \in DOMAIN rows[p] : rows[p][k] \in Nodes
  BY ListFacts
<1>2. next \in Nat /\ next < len /\ index'[p] = next
  <2>1. 1 \in 1 .. len
    BY <1>1
  <2> HIDE DEF len, o
  <2> QED
    BY <1>1, <2>1, GapFacts DEF len, o
<1>3. Origin(p)' = next
  BY <1>1, <1>2 DEF Origin
<1>4. ASSUME NEW k \in DOMAIN rows[p], NEW n \in Nodes, n = rows[p][k]
      PROVE  /\ missed'[n] < len
             /\ Eligible(n)' => missed'[n] + Gap(next, k, len) < len
  <2>1. /\ Gap(o, k, len) \in Nat /\ Gap(o, k, len) < len
        /\ Gap(next, k, len) \in Nat /\ Gap(next, k, len) < len
        /\ k # o + 1 => Gap(next, k, len) + 1 = Gap(o, k, len)
    <3> HIDE DEF len, o
    <3> QED
      BY <1>1, <1>2, GapFacts DEF next
  <2>2. /\ missed[n] \in Nat /\ missed[n] < len
        /\ Eligible(n) => missed[n] + Gap(o, k, len) < len
    BY <1>4 DEF Turn
  <2>3. /\ Eligible(n)' => Eligible(n)
        /\ IF k = o + 1
             THEN missed'[n] = 0 \/ (missed'[n] = missed[n] /\ ~Eligible(n))
             ELSE \/ missed'[n] \in {0, missed[n]}
                  \/ missed'[n] = missed[n] + 1 /\ Eligible(n)
    BY <1>4
  <2> HIDE DEF len, o, next
  <2> QED
    BY <1>1, <2>1, <2>2, <2>3
<1>5. ASSUME NEW k \in DOMAIN rows[p], Eligible(rows[p][k])'
      PROVE  missed'[rows[p][k]] + Gap(next, k, len) < len
  <2>1. PICK n \in Nodes : n = rows[p][k]
    BY <1>1
  <2>2. Eligible(n)'
    BY <1>5, <2>1 DEF Eligible, Decrypts
  <2> QED
    BY <1>4, <2>1, <2>2
<1>6. \A k \in DOMAIN rows[p] : missed'[rows[p][k]] < len
  BY <1>1, <1>4
<1> HIDE DEF len, o, next
<1> QED
  BY <1>3, <1>5, <1>6 DEF Turn, len

\* Scans that read nothing new see no more than they did.
LEMMA LiveKept ==
  ASSUME Types, Types', LiveScans,
         \A n \in Nodes : quota'[n] > 0 => quota[n] > 0,
         \A r \in Slots : \/ scan'[r] = NoScan
                          \/ scan'[r].rows = scan[r].rows /\ scan'[r].live = scan[r].live
  PROVE  LiveScans'
<1> SUFFICES ASSUME NEW r \in Slots, NEW k \in DOMAIN scan'[r].rows,
                    quota'[scan'[r].rows[k]] > 0
             PROVE  scan'[r].rows[k] \in scan'[r].live
  BY DEF LiveScans
<1>1. scan'[r] # NoScan
  BY DEF NoScan
<1>2. scan'[r].rows = scan[r].rows /\ scan'[r].live = scan[r].live
  BY <1>1
<1>3. scan[r].rows \in Seq(Nodes)
  BY DEF Types, ScanTypes, Scans
<1>4. PICK n \in Nodes : n = scan[r].rows[k]
  BY <1>2, <1>3
<1>5. quota[n] > 0
  BY <1>2, <1>4 DEF Types, RowTypes
<1> QED
  BY <1>2, <1>4, <1>5 DEF LiveScans

\* The lists keep their turns when pool and index do.
LEMMA TurnsStay ==
  ASSUME Turns, UNCHANGED <<rows, quota, index, missed, cryptoVars>>
  PROVE  /\ missed' \in [Nodes -> Nat] /\ Distinct'
         /\ \A p \in Providers : Turn(p)'
BY DEF Turns, Distinct, Turn, Eligible, Decrypts, Origin, cryptoVars

\* A step that touches neither the lists nor a scan keeps every turn.
LEMMA TurnsQuiet ==
  ASSUME Types, Types', Turns, UNCHANGED <<rows, quota, index, missed, cryptoVars>>,
         \A r \in Slots : scan'[r] \in {scan[r], NoScan},
         \A r \in Slots : pc'[r] = "scan" =>
           pc[r] = "scan" /\ scan'[r] = scan[r] /\ req'[r].prov = req[r].prov
  PROVE  Turns'
<1>1. LiveScans'
  BY LiveKept DEF Turns, Types, RowTypes
<1>2. ScanPlace'
  BY DEF Turns, ScanPlace
<1> QED
  BY <1>1, <1>2, TurnsStay DEF Turns

\* A request that reads the rows and one that starts its scan.
LEMMA TurnsRead ==
  ASSUME Types, Types', Turns, NEW r \in Slots, ReadRows(r)
  PROVE  Turns'
<1>1. UNCHANGED <<rows, quota, index, missed, cryptoVars>>
  BY DEF ReadRows, bookVars, sessionVars
<1> DEFINE p == req[r].prov
<1>2. CASE rows[p] = <<>>
  <2>1. /\ UNCHANGED scan /\ pc'[r] # "scan"
        /\ \A m \in Slots \ {r} : pc'[m] = pc[m] /\ req'[m] = req[m]
    BY <1>2, LockNoKey DEF ReadRows
  <2> QED
    BY <1>1, <2>1, TurnsQuiet
<1>3. CASE rows[p] # <<>>
  <2>1. /\ scan' = [scan EXCEPT ![r] =
             [rows |-> rows[p], live |-> {n \in ToSet(rows[p]) : quota[n] > 0},
              at |-> 0, left |-> Len(rows[p])]]
        /\ pc' = [pc EXCEPT ![r] = "gate"] /\ UNCHANGED req
    BY <1>3 DEF ReadRows, Snapshot, Goto
  <2>2. pc'[r] # "scan" /\ \A m \in Slots \ {r} : pc'[m] = pc[m] /\ scan'[m] = scan[m]
    BY <2>1 DEF Types, RequestTypes, ScanTypes
  <2>3. scan'[r].rows = rows[p] /\ scan'[r].live = {n \in ToSet(rows[p]) : quota[n] > 0}
    BY <2>1 DEF Types, ScanTypes
  <2>4. LiveScans'
    BY <1>1, <2>2, <2>3 DEF Turns, LiveScans, ToSet
  <2>5. ScanPlace'
    BY <1>1, <2>1, <2>2 DEF Turns, ScanPlace
  <2> QED
    BY <1>1, <2>4, <2>5, TurnsStay DEF Turns
<1> QED
  BY <1>2, <1>3

\* A request that enters its scan starts where the index is.
LEMMA TurnsGate ==
  ASSUME Types, Types', Turns, NEW r \in Slots, Gate(r)
  PROVE  Turns'
<1>1. UNCHANGED <<rows, quota, index, missed, cryptoVars>>
  BY DEF Gate, bookVars, sessionVars
<1>2. CASE Refused(req[r].who)
  <2>1. /\ scan' = [scan EXCEPT ![r] = NoScan] /\ pc'[r] # "scan"
        /\ \A m \in Slots \ {r} : pc'[m] = pc[m] /\ req'[m] = req[m]
    BY <1>2, LockNoKey DEF Gate
  <2>2. scan'[r] = NoScan /\ \A m \in Slots \ {r} : scan'[m] = scan[m]
    BY <2>1 DEF Types, ScanTypes
  <2> QED
    BY <1>1, <2>1, <2>2, TurnsQuiet
<1>3. CASE ~Refused(req[r].who)
  <2>1. /\ scan' = [scan EXCEPT ![r].at =
             IF index[req[r].prov] >= Len(scan[r].rows) THEN 0 ELSE index[req[r].prov]]
        /\ pc' = [pc EXCEPT ![r] = "scan"] /\ UNCHANGED req
    BY <1>3 DEF Gate, StartAt, Goto
  <2>2. /\ \A m \in Slots : /\ scan'[m].rows = scan[m].rows
                            /\ scan'[m].live = scan[m].live
        /\ \A m \in Slots \ {r} : scan'[m] = scan[m] /\ pc'[m] = pc[m]
        /\ scan'[r].at = IF index[req[r].prov] >= Len(scan[r].rows) THEN 0
                         ELSE index[req[r].prov]
    BY <2>1 DEF Types, ScanTypes, Scans, RequestTypes
  <2>3. LiveScans'
    BY <1>1, <2>2 DEF Turns, LiveScans
  <2>4. ScanPlace'
    BY <1>1, <2>1, <2>2 DEF Turns, ScanPlace
  <2> QED
    BY <1>1, <2>3, <2>4, TurnsStay DEF Turns
<1> QED
  BY <1>2, <1>3

\* Who scans does so alone, where the index is.
LEMMA ScanFacts ==
  ASSUME Types, Books, Lock, Turns, NEW r \in Slots, pc[r] = "scan", scan[r].left > 0
  PROVE  /\ req[r].prov \in Providers
         /\ \A m \in Slots \ {r} : pc[m] # "scan"
         /\ NextAt(r) \in Nat /\ NextAt(r) < Len(scan[r].rows)
         /\ Row(r) \in Nodes
         /\ Eligible(Row(r)) => Usable(r, req[r].who)
         /\ scan[r].rows = rows[req[r].prov] =>
              /\ Len(rows[req[r].prov]) > 0
              /\ Origin(req[r].prov) + 1 \in DOMAIN rows[req[r].prov]
              /\ Row(r) = rows[req[r].prov][Origin(req[r].prov) + 1]
              /\ NextAt(r) = (Origin(req[r].prov) + 1) % Len(rows[req[r].prov])
<1>1. req[r].prov \in Providers
  BY DEF Types, RequestTypes
<1>2. \A m \in Slots \ {r} : pc[m] # "scan"
  BY DEF Lock
<1>3. NextAt(r) \in Nat /\ NextAt(r) < Len(scan[r].rows)
  BY NextAtType
<1>4. /\ scan[r].rows \in Seq(Nodes) /\ scan[r].at \in Nat
      /\ scan[r].at < Len(scan[r].rows)
      /\ scan[r].at + 1 \in DOMAIN scan[r].rows
  BY DEF Types, ScanTypes, Scans
<1>5. Row(r) \in Nodes
  BY <1>4 DEF Row
<1>6. Eligible(Row(r)) => Usable(r, req[r].who)
  BY <1>4 DEF Eligible, Usable, Admits, Row, Turns, LiveScans
<1>7. ASSUME scan[r].rows = rows[req[r].prov]
      PROVE  /\ Len(rows[req[r].prov]) > 0
             /\ Origin(req[r].prov) = scan[r].at
  BY <1>4, <1>7 DEF Turns, ScanPlace, Origin
<1> QED
  BY <1>1, <1>2, <1>3, <1>4, <1>5, <1>6, <1>7 DEF Row, NextAt

\* A scan passes over a row that is not eligible, or moves the index along an
\* older list.
LEMMA TurnsSkip ==
  ASSUME Types, Types', Books, Books', Lock, Turns, NEW r \in Slots, Skip(r)
  PROVE  Turns'
<1>0. PICK p \in Providers : p = req[r].prov
  BY DEF Skip, Types, RequestTypes
<1>1. /\ pc[r] = "scan" /\ scan[r].left > 0 /\ ~Usable(r, req[r].who)
      /\ index' = [index EXCEPT ![p] = NextAt(r)]
      /\ scan' = [scan EXCEPT ![r].at = NextAt(r), ![r].left = @ - 1]
      /\ IF scan[r].rows = rows[p] THEN UNCHANGED missed ELSE Forget(p)
      /\ UNCHANGED <<rows, quota, cryptoVars, pc, req>>
  BY <1>0 DEF Skip, PassOver, Advance, slotVars
<1>2. /\ \A m \in Slots \ {r} : pc[m] # "scan"
      /\ NextAt(r) \in Nat /\ NextAt(r) < Len(scan[r].rows)
      /\ Row(r) \in Nodes /\ ~Eligible(Row(r))
      /\ scan[r].rows = rows[p] =>
              /\ Len(rows[p]) > 0
              /\ Origin(p) + 1 \in DOMAIN rows[p]
              /\ Row(r) = rows[p][Origin(p) + 1]
              /\ NextAt(r) = (Origin(p) + 1) % Len(rows[p])
  BY <1>0, <1>1, ScanFacts
<1>3. /\ \A m \in Slots : scan'[m].rows = scan[m].rows /\ scan'[m].live = scan[m].live
      /\ scan'[r].at = NextAt(r)
      /\ index'[p] = NextAt(r)
      /\ \A q \in Providers \ {p} : index'[q] = index[q]
  BY <1>1, <1>2 DEF Types, ScanTypes, Scans, EngineTypes
<1>4. LiveScans'
  BY <1>1, <1>3 DEF Turns, LiveScans
<1>5. ScanPlace'
  <2>1. \A m \in Slots : pc'[m] = "scan" => m = r
    BY <1>1, <1>2
  <2>2. index'[req'[r].prov] = NextAt(r)
    BY <1>0, <1>1, <1>3
  <2>3. NextAt(r) < Len(scan'[r].rows) /\ Len(scan'[r].rows) \in Nat
    BY <1>2, <1>3 DEF Types, ScanTypes, Scans
  <2>4. ~(index'[req'[r].prov] >= Len(scan'[r].rows))
    BY <1>2, <2>2, <2>3
  <2> QED
    BY <1>3, <2>1, <2>2, <2>4 DEF ScanPlace
<1>6. /\ missed \in [Nodes -> Nat] /\ missed' \in [Nodes -> Nat]
      /\ \A n \in Nodes : Home[n] # p => missed'[n] = missed[n]
      /\ scan[r].rows # rows[p] => \A n \in Nodes : Home[n] = p => missed'[n] = 0
      /\ scan[r].rows = rows[p] => UNCHANGED missed
  BY <1>1 DEF Turns, Forget
<1>7. \A n \in Nodes : Eligible(n)' <=> Eligible(n)
  BY <1>1 DEF Eligible, Decrypts, cryptoVars
<1>8. ASSUME NEW q \in Providers, q # p PROVE Turn(q)'
  BY <1>1, <1>3, <1>6, <1>7, <1>8, TurnKept DEF Turns
<1>9. Turn(p)'
  <2>1. CASE scan[r].rows # rows[p]
    BY <1>6, <2>1, TurnFresh
  <2>2. CASE scan[r].rows = rows[p]
    <3>1. /\ rows'[p] = rows[p] /\ Len(rows[p]) > 0
          /\ index'[p] = (Origin(p) + 1) % Len(rows[p])
      BY <1>1, <1>2, <1>3, <2>2
    <3>2. ASSUME NEW k \in DOMAIN rows[p], NEW n \in Nodes, n = rows[p][k]
          PROVE  /\ Eligible(n)' => Eligible(n)
                 /\ IF k = Origin(p) + 1
                      THEN missed'[n] = 0 \/ (missed'[n] = missed[n] /\ ~Eligible(n))
                      ELSE \/ missed'[n] \in {0, missed[n]}
                           \/ missed'[n] = missed[n] + 1 /\ Eligible(n)
      <4>1. missed'[n] = missed[n] /\ (Eligible(n)' => Eligible(n))
        BY <1>6, <1>7, <2>2
      <4>2. k = Origin(p) + 1 => ~Eligible(n)
        BY <1>2, <2>2, <3>2
      <4> QED
        BY <4>1, <4>2
    <3>3. Turn(p)
      BY <1>2 DEF Turns
    <3> QED
      BY <1>6, <3>1, <3>2, <3>3, TurnMoves
  <2> QED
    BY <2>1, <2>2
<1>10. Distinct'
  BY <1>1 DEF Turns, Distinct
<1>11. \A q \in Providers : Turn(q)'
  BY <1>8, <1>9
<1> QED
  BY <1>4, <1>5, <1>6, <1>10, <1>11 DEF Turns

\* A draw takes the row the index was at; every other that was eligible has
\* come nearer.
LEMMA TurnsTake ==
  ASSUME Types, Types', Books, Books', Lock, Turns, NEW r \in Slots, TakeKey(r)
  PROVE  Turns'
<1>0. PICK p \in Providers : p = req[r].prov
  BY DEF TakeKey, Types, RequestTypes
<1>1. /\ pc[r] = "scan" /\ scan[r].left > 0
      /\ index' = [index EXCEPT ![p] = NextAt(r)]
      /\ CountMissed(r, p, Row(r))
      /\ pc' = [pc EXCEPT ![r] = IF req[r].remote THEN "serve" ELSE "send"]
  BY <1>0 DEF TakeKey, Draw, Advance, Goto
<1>2. /\ \A m \in Slots \ {r} : pc[m] # "scan"
      /\ NextAt(r) \in Nat /\ NextAt(r) < Len(scan[r].rows)
      /\ Row(r) \in Nodes
      /\ scan[r].rows = rows[p] =>
              /\ Len(rows[p]) > 0
              /\ Origin(p) + 1 \in DOMAIN rows[p]
              /\ Row(r) = rows[p][Origin(p) + 1]
              /\ NextAt(r) = (Origin(p) + 1) % Len(rows[p])
  BY <1>0, <1>1, ScanFacts
<1>3. /\ scan' = [scan EXCEPT ![r] = NoScan] /\ UNCHANGED <<rows, cryptoVars>>
      /\ \A n \in Nodes : quota'[n] > 0 => quota[n] > 0
  <2>1. /\ scan' = [scan EXCEPT ![r] = NoScan] /\ UNCHANGED <<rows, cryptoVars>>
        /\ \/ UNCHANGED quota
           \/ /\ quota[Row(r)] > 0
              /\ quota' = [quota EXCEPT ![Row(r)] = @ - req[r].est]
    BY DrawBooks
  <2>2. quota \in [Nodes -> Int]
    BY DEF Types, RowTypes
  <2> QED
    BY <1>2, <2>1, <2>2
<1>4. LiveScans'
  BY <1>3, LiveKept DEF Turns, Types, ScanTypes
<1>5. ScanPlace'
  BY <1>1, <1>2 DEF ScanPlace, Types, RequestTypes
<1>6. index'[p] = NextAt(r) /\ \A q \in Providers \ {p} : index'[q] = index[q]
  BY <1>1 DEF Types, EngineTypes
<1>7. \A n \in Nodes : Eligible(n)' => Eligible(n)
  BY <1>3 DEF Eligible, Decrypts, cryptoVars
<1>8. \A n \in Nodes : Waiting(r, Row(r), n) => Eligible(n) /\ n # Row(r)
  BY DEF Waiting, Eligible
<1>9. /\ missed \in [Nodes -> Nat] /\ missed' \in [Nodes -> Nat]
      /\ \A n \in Nodes : Home[n] # p => missed'[n] = missed[n]
      /\ scan[r].rows # rows[p] => \A n \in Nodes : Home[n] = p => missed'[n] = 0
      /\ scan[r].rows = rows[p] => \A n \in Nodes : Home[n] = p =>
           IF n = Row(r) THEN missed'[n] = 0
           ELSE missed'[n] = missed[n] \/ (missed'[n] = missed[n] + 1 /\ Eligible(n))
  <2>1. missed \in [Nodes -> Nat]
    BY DEF Turns
  <2>2. ASSUME NEW n \in Nodes
        PROVE  missed'[n] = IF Home[n] # p THEN missed[n]
                            ELSE IF n = Row(r) \/ scan[r].rows # rows[p] THEN 0
                            ELSE IF Waiting(r, Row(r), n) THEN missed[n] + 1 ELSE missed[n]
    BY <1>1 DEF CountMissed
  <2>3. \A n \in Nodes : missed'[n] \in Nat
    BY <2>1, <2>2
  <2>4. missed' \in [Nodes -> Nat]
    <3>1. missed' = [n \in Nodes |-> missed'[n]]
      BY <1>1 DEF CountMissed
    <3> QED
      BY <2>3, <3>1
  <2>5. \A n \in Nodes : Home[n] # p => missed'[n] = missed[n]
    BY <2>2
  <2>6. scan[r].rows # rows[p] => \A n \in Nodes : Home[n] = p => missed'[n] = 0
    BY <2>2
  <2>7. ASSUME scan[r].rows = rows[p], NEW n \in Nodes, Home[n] = p
        PROVE  IF n = Row(r) THEN missed'[n] = 0
               ELSE missed'[n] = missed[n] \/ (missed'[n] = missed[n] + 1 /\ Eligible(n))
    BY <1>8, <2>2, <2>7
  <2> QED
    BY <2>1, <2>4, <2>5, <2>6, <2>7
<1>10. ASSUME NEW q \in Providers, q # p PROVE Turn(q)'
  BY <1>3, <1>6, <1>7, <1>9, <1>10, TurnKept DEF Turns
<1>11. Turn(p)'
  <2>1. CASE scan[r].rows # rows[p]
    BY <1>9, <2>1, TurnFresh
  <2>2. CASE scan[r].rows = rows[p]
    <3>1. /\ rows'[p] = rows[p] /\ Len(rows[p]) > 0
          /\ index'[p] = (Origin(p) + 1) % Len(rows[p])
      BY <1>2, <1>3, <1>6, <2>2
    <3>2. ASSUME NEW k \in DOMAIN rows[p], NEW n \in Nodes, n = rows[p][k]
          PROVE  /\ Eligible(n)' => Eligible(n)
                 /\ IF k = Origin(p) + 1
                      THEN missed'[n] = 0 \/ (missed'[n] = missed[n] /\ ~Eligible(n))
                      ELSE \/ missed'[n] \in {0, missed[n]}
                           \/ missed'[n] = missed[n] + 1 /\ Eligible(n)
      <4>1. Home[n] = p
        BY <3>2, ListFacts
      <4>2. k = Origin(p) + 1 => n = Row(r)
        BY <1>2, <2>2, <3>2
      <4> QED
        BY <1>7, <1>9, <2>2, <4>1, <4>2
    <3>3. Turn(p)
      BY DEF Turns
    <3> QED
      BY <1>9, <3>1, <3>2, <3>3, TurnMoves
  <2> QED
    BY <2>1, <2>2
<1>12. Distinct'
  BY <1>3 DEF Turns, Distinct
<1>13. \A q \in Providers : Turn(q)'
  BY <1>10, <1>11
<1> QED
  BY <1>4, <1>5, <1>9, <1>12, <1>13 DEF Turns

\* What is left of a sequence without its element i is as distinct.
LEMMA RemoveAtDistinct ==
  ASSUME NEW S, NEW s \in Seq(S), NEW i \in 1 .. Len(s), IsInjective(s)
  PROVE  IsInjective(RemoveAt(s, i))
<1> DEFINE a == SubSeq(s, 1, i - 1)
           b == SubSeq(s, i + 1, Len(s))
<1>0. Len(s) \in Nat /\ i \in Nat /\ 1 <= i /\ i <= Len(s) /\ DOMAIN s = 1 .. Len(s)
  OBVIOUS
<1>1. a \in Seq(S) /\ Len(a) = i - 1 /\ \A j \in 1 .. i - 1 : a[j] = s[j]
  OBVIOUS
<1>2. /\ b \in Seq(S) /\ Len(b) = Len(s) - i
      /\ \A j \in 1 .. Len(s) - i : b[j] = s[i + j]
  OBVIOUS
<1>3. RemoveAt(s, i) = a \o b
  BY DEF RemoveAt
<1> HIDE DEF a, b
<1>4. /\ a \o b \in Seq(S) /\ Len(a \o b) = Len(s) - 1
      /\ \A j \in 1 .. Len(s) - 1 :
           /\ j <= i - 1 => (a \o b)[j] = s[j]
           /\ j > i - 1 => (a \o b)[j] = s[j + 1]
  <2>1. /\ a \o b \in Seq(S) /\ Len(a \o b) = Len(a) + Len(b)
        /\ \A j \in 1 .. Len(a) + Len(b) :
             (a \o b)[j] = IF j <= Len(a) THEN a[j] ELSE b[j - Len(a)]
    BY <1>1, <1>2, ConcatProperties
  <2>2. Len(a) + Len(b) = Len(s) - 1
    BY <1>0, <1>1, <1>2
  <2>3. ASSUME NEW j \in 1 .. Len(s) - 1, j > i - 1 PROVE (a \o b)[j] = s[j + 1]
    <3>1. (a \o b)[j] = b[j - (i - 1)]
      BY <1>0, <1>1, <2>1, <2>2, <2>3
    <3>2. j - (i - 1) \in 1 .. Len(s) - i /\ i + (j - (i - 1)) = j + 1
      BY <1>0, <2>3
    <3> QED
      BY <1>2, <3>1, <3>2
  <2>4. ASSUME NEW j \in 1 .. Len(s) - 1, j <= i - 1 PROVE (a \o b)[j] = s[j]
    BY <1>0, <1>1, <2>1, <2>2, <2>4
  <2> QED
    BY <2>1, <2>2, <2>3, <2>4
<1>5. ASSUME NEW j \in 1 .. Len(s) - 1, NEW k \in 1 .. Len(s) - 1,
             (a \o b)[j] = (a \o b)[k]
      PROVE  j = k
  <2>1. \A m, n \in 1 .. Len(s) : s[m] = s[n] => m = n
    BY <1>0 DEF IsInjective
  <2>2. /\ j \in 1 .. Len(s) /\ j + 1 \in 1 .. Len(s)
        /\ k \in 1 .. Len(s) /\ k + 1 \in 1 .. Len(s)
    BY <1>0
  <2> QED
    BY <1>0, <1>4, <1>5, <2>1, <2>2
<1>6. DOMAIN (a \o b) = 1 .. Len(s) - 1
  BY <1>4
<1> QED
  BY <1>3, <1>5, <1>6 DEF IsInjective

\* A donation or a revocation starts the counts of its list again.
LEMMA TurnsOperate ==
  ASSUME Types, Types', Books, Books', Turns, Operate
  PROVE  Turns'
<1>1. UNCHANGED slotVars
  BY DEF Operate
<1>2. ASSUME NEW n \in Nodes, NEW list \in Seq(Nodes), IsInjective(list),
             rows' = [rows EXCEPT ![Home[n]] = list], Forget(Home[n]),
             UNCHANGED <<quota, index, scan, master>>,
             \A m \in Nodes : Home[m] # Home[n] => sealed'[m] = sealed[m]
      PROVE  Turns'
  <2>1. Home[n] \in Providers
    BY PoolAssumption
  <2>2. /\ missed' \in [Nodes -> Nat]
        /\ \A m \in Nodes : missed'[m] = IF Home[m] = Home[n] THEN 0 ELSE missed[m]
    BY <1>2 DEF Forget, Turns
  <2>3. rows'[Home[n]] = list /\ \A q \in Providers \ {Home[n]} : rows'[q] = rows[q]
    BY <1>2, <2>1 DEF Types, RowTypes
  <2>4. Distinct'
    BY <1>2, <2>3 DEF Turns, Distinct
  <2>5. LiveScans' /\ ScanPlace'
    BY <1>1, <1>2 DEF Turns, LiveScans, ScanPlace, slotVars
  <2>6. Turn(Home[n])'
    <3>1. PICK p \in Providers : p = Home[n]
      BY <2>1
    <3>2. Turn(p)'
      BY <2>2, <3>1, TurnFresh
    <3> QED
      BY <3>1, <3>2
  <2>7. ASSUME NEW q \in Providers, q # Home[n] PROVE Turn(q)'
    <3>1. \A m \in Nodes : Home[m] = q =>
            missed'[m] = missed[m] /\ (Eligible(m)' => Eligible(m))
      BY <1>2, <2>2, <2>7 DEF Eligible, Decrypts
    <3>2. rows'[q] = rows[q] /\ index'[q] = index[q] /\ Turn(q)
      BY <1>2, <2>3, <2>7 DEF Turns
    <3> QED
      BY <3>1, <3>2, TurnKept
  <2>8. \A q \in Providers : Turn(q)'
    BY <2>6, <2>7
  <2> QED
    BY <2>2, <2>4, <2>5, <2>8 DEF Turns
<1>3. ASSUME NEW n \in Nodes, NEW key \in MasterKeys, AddPoolNode(n, key) PROVE Turns'
  <2>1. Home[n] \in Providers /\ rows[Home[n]] \in Seq(Nodes)
    BY PoolAssumption DEF Types, RowTypes
  <2> DEFINE s == rows[Home[n]]
             list == Append(s, n)
  <2>2. s \in Seq(Nodes) /\ IsInjective(s) /\ n \notin ToSet(s)
    BY <1>3, <2>1 DEF AddPoolNode, InPool, Turns, Distinct
  <2>3. list \in Seq(Nodes) /\ IsInjective(list)
    <3>1. /\ DOMAIN list = 1 .. Len(s) + 1 /\ list[Len(s) + 1] = n
          /\ \A k \in 1 .. Len(s) : list[k] = s[k]
          /\ DOMAIN s = 1 .. Len(s) /\ Len(s) \in Nat
      BY <2>2
    <3>2. \A k \in 1 .. Len(s) : s[k] # n
      BY <2>2, <3>1 DEF ToSet
    <3> HIDE DEF list, s
    <3>3. IsInjective(list)
      BY <2>2, <3>1, <3>2 DEF IsInjective
    <3> QED
      BY <2>2, <3>3 DEF list
  <2>4. /\ rows' = [rows EXCEPT ![Home[n]] = list] /\ Forget(Home[n])
        /\ UNCHANGED <<quota, index, scan, master>>
        /\ \A m \in Nodes : Home[m] # Home[n] => sealed'[m] = sealed[m]
    BY <1>3 DEF AddPoolNode, Types, RowTypes
  <2> HIDE DEF list
  <2> QED
    BY <1>2, <2>3, <2>4
<1>4. ASSUME NEW n \in Nodes, HandlePoolDonate(n) \/ DonateCmd(n) PROVE Turns'
  BY <1>3, <1>4 DEF HandlePoolDonate, DonateCmd, Types, RowTypes
<1>5. ASSUME NEW n \in Nodes, Revoke(n) PROVE Turns'
  <2>1. Home[n] \in Providers /\ rows[Home[n]] \in Seq(Nodes) /\ IsInjective(rows[Home[n]])
    BY PoolAssumption DEF Types, RowTypes, Turns, Distinct
  <2>2. PICK i \in DOMAIN rows[Home[n]] :
          rows' = [rows EXCEPT ![Home[n]] = RemoveAt(rows[Home[n]], i)]
    BY <1>5 DEF Revoke, RemovePoolNode
  <2> DEFINE list == RemoveAt(rows[Home[n]], i)
  <2>3. i \in 1 .. Len(rows[Home[n]])
    BY <2>1
  <2>4. list \in Seq(Nodes) /\ IsInjective(list)
    BY <2>1, <2>3, RemoveAtLeaves, RemoveAtDistinct
  <2>5. /\ Forget(Home[n]) /\ UNCHANGED <<quota, index, scan, master>>
        /\ \A m \in Nodes : Home[m] # Home[n] => sealed'[m] = sealed[m]
    BY <1>5 DEF Revoke, cryptoVars
  <2> HIDE DEF list
  <2>6. rows' = [rows EXCEPT ![Home[n]] = list]
    BY <2>2 DEF list
  <2> QED
    BY <1>2, <2>4, <2>5, <2>6
<1>6. ASSUME NEW u \in Users, Rerate(u) PROVE Turns'
  BY <1>1, <1>6, TurnsQuiet DEF Rerate, bookVars, sessionVars, slotVars
<1> QED
  BY <1>4, <1>5, <1>6 DEF Operate

\* Every step keeps the turns.
LEMMA TurnsNext ==
  ASSUME Types, Types', Books, Books', Lock, Turns, [Next]_vars
  PROVE  Turns'
<1>1. ASSUME NEW r \in Slots, Begin(r) \/ PeerStep(r) \/ Serve(r) \/ Return(r) PROVE Turns'
  <2>1. /\ UNCHANGED poolVars /\ pc'[r] # "scan"
        /\ \A m \in Slots \ {r} : pc'[m] = pc[m] /\ req'[m] = req[m]
    BY <1>1 DEF Begin, PeerStep, PingPeers, PeerAnswers, PeerFails, Serve, Return, Finish,
                PeerCall, Goto, Types, RequestTypes
  <2> QED
    BY <2>1, TurnsQuiet DEF poolVars, cryptoVars
<1>2. ASSUME NEW r \in Slots, Upstream(r) PROVE Turns'
  <2>1. /\ UNCHANGED poolVars /\ pc'[r] # "scan"
        /\ \A m \in Slots \ {r} : pc'[m] = pc[m] /\ req'[m] = req[m]
    BY <1>2 DEF Upstream, Succeed, BreakOff, GiveUp, Outage, Retry, FailOver, Answered,
                Again, Finish, Goto, Types, RequestTypes
  <2> QED
    BY <2>1, TurnsQuiet DEF poolVars, cryptoVars
<1>3. ASSUME NEW r \in Slots, RejectProof(r) PROVE Turns'
  <2>1. /\ UNCHANGED <<rows, quota, index, missed, cryptoVars, scan>> /\ pc'[r] # "scan"
        /\ \A m \in Slots \ {r} : pc'[m] = pc[m] /\ req'[m] = req[m]
    BY <1>3 DEF RejectProof, Finish, Goto, bookVars, sessionVars, Types, RequestTypes
  <2> QED
    BY <2>1, TurnsQuiet
<1>4. ASSUME NEW r \in Slots, Exhausted(r) PROVE Turns'
  <2>1. /\ UNCHANGED <<rows, quota, index, missed, cryptoVars>> /\ pc'[r] # "scan"
        /\ scan' = [scan EXCEPT ![r] = NoScan]
        /\ \A m \in Slots \ {r} : pc'[m] = pc[m] /\ req'[m] = req[m]
    BY <1>4, LockNoKey DEF Exhausted, Release, bookVars, sessionVars
  <2>2. scan'[r] = NoScan /\ \A m \in Slots \ {r} : scan'[m] = scan[m]
    BY <2>1 DEF Types, ScanTypes
  <2> QED
    BY <2>1, <2>2, TurnsQuiet
<1>9. ASSUME NEW r \in Slots, ReadFails(r) PROVE Turns'
  <2>1. /\ UNCHANGED poolVars /\ pc'[r] # "scan"
        /\ \A m \in Slots \ {r} : pc'[m] = pc[m] /\ req'[m] = req[m]
    BY <1>9, LockNoKey DEF ReadFails
  <2> QED
    BY <2>1, TurnsQuiet DEF poolVars, cryptoVars
<1>5. ASSUME NEW r \in Slots, Gate(r) \/ ReadRows(r) \/ Skip(r) \/ TakeKey(r) PROVE Turns'
  BY <1>5, TurnsGate, TurnsRead, TurnsSkip, TurnsTake
<1>6. CASE Operate
  BY <1>6, TurnsOperate
<1>7. CASE Restart
  <2>1. /\ missed' = [n \in Nodes |-> 0] /\ UNCHANGED <<rows, quota>>
        /\ scan' = [r \in Slots |-> NoScan] /\ \A r \in Slots : pc'[r] # "scan"
    BY <1>7 DEF Restart, PoolRestart
  <2>2. Distinct' /\ ScanPlace'
    BY <2>1 DEF Turns, Distinct, ScanPlace
  <2>3. LiveScans'
    BY <2>1, LiveKept DEF Turns, Types, RowTypes
  <2>4. \A p \in Providers : Turn(p)'
    BY <2>1, TurnFresh
  <2> QED
    BY <2>1, <2>2, <2>3, <2>4 DEF Turns
<1>8. CASE UNCHANGED vars
  BY <1>8, TurnsQuiet DEF vars, poolVars, cryptoVars, slotVars
<1> QED
  BY <1>1, <1>2, <1>3, <1>4, <1>5, <1>6, <1>7, <1>8, <1>9 DEF Next, KeyStep

\* At the start nothing has been missed.
LEMMA TurnsInit == ASSUME Init, Types, Books PROVE Turns
<1>1. /\ missed = [n \in Nodes |-> 0] /\ rows = FirstRows
      /\ index = [p \in Providers |-> 0]
      /\ scan = [r \in Slots |-> NoScan] /\ \A r \in Slots : pc[r] = "idle"
  BY DEF Init, PoolInit
<1>2. Distinct
  BY <1>1, PoolAssumption DEF Distinct
<1>3. LiveScans /\ ScanPlace
  BY <1>1 DEF LiveScans, ScanPlace, NoScan
<1>4. ASSUME NEW p \in Providers PROVE Turn(p)
  <2> SUFFICES ASSUME NEW k \in DOMAIN rows[p]
               PROVE  /\ missed[rows[p][k]] = 0
                      /\ Len(rows[p]) > 0
                      /\ Gap(Origin(p), k, Len(rows[p])) \in Nat
                      /\ Gap(Origin(p), k, Len(rows[p])) < Len(rows[p])
    BY DEF Turn
  <2>1. k \in 1 .. Len(rows[p]) /\ Len(rows[p]) \in Nat /\ Len(rows[p]) > 0
    BY ListFacts
  <2>2. Origin(p) \in Nat /\ Origin(p) < Len(rows[p])
    BY <2>1, ListFacts
  <2> QED
    BY <1>1, <2>1, <2>2, ListFacts, GapFacts
<1> QED
  BY <1>1, <1>2, <1>3, <1>4 DEF Turns

\* While the list stays as it is, and nobody scans an older one, a key with
\* quota left is not passed over more often than there are other keys in it,
\* whichever sessions ask (drr.go:99-107).
THEOREM Rotation == Spec => []RotationFair
<1> DEFINE All == Types /\ Lock /\ Books /\ Turns
<1>1. Init => All
  BY TypesInit, LockInit, BooksInit, TurnsInit
<1>2. All /\ [Next]_vars => All'
  BY TypesNext, LockNext, BooksNext, TurnsNext
<1>3. All => RotationFair
  <2> SUFFICES ASSUME All, NEW p \in Providers, NEW n \in ToSet(rows[p])
               PROVE  missed[n] < Len(rows[p])
    BY DEF RotationFair
  <2>1. PICK k \in DOMAIN rows[p] : rows[p][k] = n
    BY DEF ToSet
  <2> QED
    BY <2>1 DEF Turns, Turn
<1> QED
  BY <1>1, <1>2, <1>3, PTL DEF Spec
=============================================================================
