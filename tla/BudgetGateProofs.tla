-------------------------- MODULE BudgetGateProofs --------------------------
(* What the budget gate guarantees for every number of slots, every set of *)
(* keys, sessions and organizations, and every limit.                      *)
EXTENDS BudgetGate, FiniteSetTheorems, TLAPS

\* The inductive invariant: the types, and what a phase says about its slot.
GateInv == TypeOK /\ SlotInv

\* The abstract breaker's theorems, for the global budget.
GlobalProofs == INSTANCE SpendMeterProofs
  WITH meter <- spent, open <- GlobalOpen, waived <- waived[Global],
       Line <- RedLine(EffectiveGlobalLimit)

KeyPhases == {"org", "key", "keyzone", "keyalert", "streamzone", "streamalert"}

----------------------------------------------------------------------------
(* Zones and the operations of the ledger.                                 *)

(* A zone is a zone, whatever is compared.                                 *)
LEMMA ZonesAreZones ==
  /\ \A amount, limit : ZoneOf(amount, limit) \in Zones
  /\ \A k : RowZone(k) \in Zones
  BY DEF ZoneOf, RowZone, Zones

(* Booking keeps the columns numeric.                                      *)
LEMMA RecordType ==
  ASSUME LedgerTypeOK, NEW c \in Clients, NEW cost \in Nat, NEW done,
         RecordTransaction(c, cost, done)
  PROVE  LedgerTypeOK'
<1> USE DEF LedgerTypeOK, RecordTransaction
<1>1. spent' \in Nat
  OBVIOUS
<1>2. sessionSpent' \in [Sessions -> Nat]
  <2>1. \A s \in Sessions :
          sessionSpent[s] + (IF s \in Books(c) THEN cost ELSE 0) \in Nat
    OBVIOUS
  <2> QED
    BY <2>1
<1>3. sessionConsumed' \in [Sessions -> Nat]
  <2>1. \A s \in Sessions :
          sessionConsumed[s] +
            (IF "session" \in done /\ s \in Books(c) \cap sessionRows
               THEN cost ELSE 0) \in Nat
    OBVIOUS
  <2> QED
    BY <2>1
<1>4. keyConsumed' \in [Keys -> Nat]
  <2>1. \A k \in Keys :
          keyConsumed[k] +
            (IF "vkey" \in done /\ k = c /\ k \in issued THEN cost ELSE 0) \in Nat
    OBVIOUS
  <2> QED
    BY <2>1
<1>5. orgConsumed' \in [Orgs -> Nat]
  <2>1. \A o \in Orgs :
          orgConsumed[o] +
            (IF "org" \in done /\ c \in issued /\ o \in orgRows /\ KeyOrg[c] = o
               THEN cost ELSE 0) \in Nat
    OBVIOUS
  <2> QED
    BY <2>1
<1> QED
  BY <1>1, <1>2, <1>3, <1>4, <1>5

(* So do the other operations of the ledger.                               *)
LEMMA LedgerOpsType ==
  ASSUME LedgerTypeOK
  PROVE  /\ \A s \in Sessions : EnsureSession(s) => LedgerTypeOK'
         /\ \A k, z : z \in Zones /\ UpdateVirtualKeyZone(k, z) => LedgerTypeOK'
         /\ \A b : Reset(b) => LedgerTypeOK'
         /\ \A k \in Keys : RegisterVirtualKey(k) => LedgerTypeOK'
         /\ \A s : RevokeVirtualKey(s) => LedgerTypeOK'
         /\ \A o \in Orgs : CreateOrganization(o) => LedgerTypeOK'
         /\ \A o : DeleteOrganization(o) => LedgerTypeOK'
         /\ UNCHANGED ledgerVars => LedgerTypeOK'
<1> USE DEF LedgerTypeOK, spendVars, sessionVars, keyVars, orgVars
<1>1. ASSUME NEW s \in Sessions, EnsureSession(s) PROVE LedgerTypeOK'
  BY <1>1 DEF EnsureSession
<1>2. ASSUME NEW k, NEW z \in Zones, UpdateVirtualKeyZone(k, z) PROVE LedgerTypeOK'
  BY <1>2 DEF UpdateVirtualKeyZone
<1>3. ASSUME NEW b, Reset(b) PROVE LedgerTypeOK'
  BY <1>3 DEF Reset
<1>4. ASSUME NEW k \in Keys, RegisterVirtualKey(k) PROVE LedgerTypeOK'
  BY <1>4 DEF RegisterVirtualKey
<1>5. ASSUME NEW s, RevokeVirtualKey(s) PROVE LedgerTypeOK'
  BY <1>5 DEF RevokeVirtualKey
<1>6. ASSUME NEW o \in Orgs, CreateOrganization(o) PROVE LedgerTypeOK'
  BY <1>6 DEF CreateOrganization
<1>7. ASSUME NEW o, DeleteOrganization(o) PROVE LedgerTypeOK'
  BY <1>7 DEF DeleteOrganization
<1>8. ASSUME UNCHANGED ledgerVars PROVE LedgerTypeOK'
  BY <1>8 DEF ledgerVars
<1> QED
  BY <1>1, <1>2, <1>3, <1>4, <1>5, <1>6, <1>7, <1>8

----------------------------------------------------------------------------
(* Slots, alerts and faults.                                               *)

SlotsOK == SlotTypeOK /\ SlotInv

(* A slot that goes on, or stops, stays consistent if the phase it goes to *)
(* suits its client and its input.                                         *)
LEMMA SlotSteps ==
  ASSUME SlotsOK, NEW r \in Slots
  PROVE  /\ Leave(r) => SlotsOK'
         /\ \A phase \in Phases :
              /\ phase \in KeyPhases => cred[r] \in Keys
              /\ r \in inputDue => phase \in Answered
              /\ Proceed(r, phase) \/ \E z \in Zones : ProceedIn(r, phase, z)
              => SlotsOK'
         /\ InputBooked(r) => SlotsOK'
         /\ UNCHANGED slotVars => SlotsOK'
<1> USE DEF SlotsOK, SlotTypeOK, SlotInv, Goto, KeyPhases, Answered
<1>1. ASSUME Leave(r) PROVE SlotsOK'
  <2>1. SlotTypeOK'
    BY <1>1, GateAssumption DEF Leave, Clients, Phases, Zones
  <2>2. ASSUME NEW q \in Slots
        PROVE  /\ pc'[q] \in KeyPhases => cred'[q] \in Keys
               /\ q \in inputDue' => pc'[q] \in Answered \cup {"idle"}
    BY <1>1 DEF Leave
  <2> QED
    BY <2>1, <2>2
<1>2. ASSUME NEW phase \in Phases,
             phase \in KeyPhases => cred[r] \in Keys,
             r \in inputDue => phase \in Answered,
             Proceed(r, phase) \/ \E z \in Zones : ProceedIn(r, phase, z)
      PROVE  SlotsOK'
  BY <1>2 DEF Proceed, ProceedIn
<1>3. ASSUME InputBooked(r) PROVE SlotsOK'
  BY <1>3 DEF InputBooked, Clients
<1>4. ASSUME UNCHANGED slotVars PROVE SlotsOK'
  BY <1>4 DEF slotVars
<1> QED
  BY <1>1, <1>2, <1>3, <1>4

(* Counting a fault or a waived check keeps the counters in range.         *)
LEMMA FaultSteps ==
  ASSUME FaultTypeOK
  PROVE  /\ NoFault => FaultTypeOK'
         /\ Fault /\ UNCHANGED waived => FaultTypeOK'
         /\ \A s : FailOpen(s) => FaultTypeOK'
  BY GateAssumption DEF FaultTypeOK, NoFault, Fault, FailOpen, faultVars

(* An alert names a budget and a zone.                                     *)
LEMMA GuardSteps ==
  ASSUME GuardTypeOK
  PROVE  /\ \A s \in Scopes, z \in Zones :
              Dispatch(s, z) /\ UNCHANGED lastGlobalZone => GuardTypeOK'
         /\ UNCHANGED guardVars => GuardTypeOK'
  BY DEF GuardTypeOK, Dispatch, guardVars

(* Storing the zone of a key, and announcing it.                           *)
LEMMA ShiftType ==
  ASSUME LedgerTypeOK, GuardTypeOK, FaultTypeOK, NEW r \in Slots,
         cred[r] \in Scopes, zone[r] \in Zones, StoreKeyZone(r) \/ AnnounceKeyZone(r)
  PROVE  LedgerTypeOK' /\ GuardTypeOK' /\ FaultTypeOK'
<1>1. CASE StoreKeyZone(r)
  <2>1. LedgerTypeOK'
    BY <1>1, LedgerOpsType DEF StoreKeyZone
  <2>2. GuardTypeOK'
    BY <1>1, GuardSteps DEF StoreKeyZone
  <2>3. FaultTypeOK'
    BY <1>1, GateAssumption DEF FaultTypeOK, Fault, StoreKeyZone
  <2> QED
    BY <2>1, <2>2, <2>3
<1>2. CASE AnnounceKeyZone(r)
  BY <1>2, LedgerOpsType, GuardSteps, FaultSteps DEF AnnounceKeyZone
<1> QED
  BY <1>1, <1>2

----------------------------------------------------------------------------
(* Every action keeps the invariant.                                       *)

\* The invariant in the parts the lemmas above speak of.
LEMMA InvParts ==
  GateInv <=> /\ LedgerTypeOK /\ SlotsOK /\ GuardTypeOK /\ FaultTypeOK
              /\ ops \in 0 .. MaxOps
  BY DEF GateInv, TypeOK, SlotsOK

(* The steps from a request's arrival to its decision.                     *)
LEMMA CheckKeepsParts ==
  ASSUME LedgerTypeOK, SlotsOK, GuardTypeOK, FaultTypeOK, NEW r \in Slots, Check(r)
  PROVE  LedgerTypeOK' /\ SlotsOK' /\ GuardTypeOK' /\ FaultTypeOK'
<1> DEFINE Parts == LedgerTypeOK' /\ SlotsOK' /\ GuardTypeOK' /\ FaultTypeOK'
<1>a. /\ UNCHANGED ledgerVars => LedgerTypeOK'
      /\ UNCHANGED guardVars => GuardTypeOK'
      /\ NoFault => FaultTypeOK'
      /\ \A s : FailOpen(s) => FaultTypeOK'
      /\ Leave(r) => SlotsOK'
  BY LedgerOpsType, GuardSteps, FaultSteps, SlotSteps
<1>b. /\ pc \in [Slots -> Phases] /\ cred \in [Slots -> Clients]
      /\ zone \in [Slots -> Zones] /\ issued \subseteq Keys
      /\ keyState \in [Keys -> Zones] /\ inputDue \subseteq Slots
  BY DEF SlotsOK, SlotTypeOK, LedgerTypeOK
<1>c. /\ pc[r] \in KeyPhases => cred[r] \in Keys
      /\ r \in inputDue => pc[r] \in Answered \cup {"idle"}
  BY DEF SlotsOK, SlotInv, KeyPhases
<1>d. \A phase \in Phases :
        /\ phase \in KeyPhases => cred[r] \in Keys
        /\ r \notin inputDue
        /\ Proceed(r, phase) \/ \E z \in Zones : ProceedIn(r, phase, z)
        => SlotsOK'
  BY SlotSteps
<1>e. \A x \in Phases : x \notin Answered \cup {"idle"} /\ pc[r] = x => r \notin inputDue
  BY <1>c
<1>f. "GREEN" \in Zones /\ {"auth", "org", "key", "keyzone", "keyalert", "session", "forward", "alert"}
        \subseteq Phases
  BY DEF Zones, Phases
<1>1. ASSUME NEW c \in Callers, Arrive(r, c) PROVE Parts
  <2>1. SlotsOK'
    BY <1>1, ZonesAreZones, GateAssumption
       DEF Arrive, SlotsOK, SlotTypeOK, SlotInv, Goto, Phases, GlobalZone, Answered
  <2> QED
    BY <1>1, <1>a, <2>1 DEF Arrive
<1>2. ASSUME NEW c \in Callers, ArriveUnchecked(r, c) PROVE Parts
  <2>1. SlotsOK'
    BY <1>2, GateAssumption
       DEF ArriveUnchecked, SlotsOK, SlotTypeOK, SlotInv, Goto, Phases, Answered
  <2> QED
    BY <1>2, <1>a, <2>1 DEF ArriveUnchecked
<1>g. pc[r] \in {"guard", "alert"} /\ GlobalVerdict(r) => SlotsOK'
  BY <1>a, <1>d, <1>e, <1>f DEF GlobalVerdict, KeyPhases, Answered, Phases
<1>3. CASE GuardDecides(r)
  <2>1. GuardTypeOK'
    BY <1>3, <1>b DEF GuardDecides, GuardTypeOK
  <2>2. SlotsOK'
    BY <1>3, <1>d, <1>e, <1>f, <1>g DEF GuardDecides, KeyPhases, Answered, Phases
  <2> QED
    BY <1>3, <1>a, <2>1, <2>2 DEF GuardDecides
<1>16. CASE GuardAlert(r)
  <2>1. GuardTypeOK'
    BY <1>16, <1>b, GuardSteps DEF GuardAlert, Scopes
  <2> QED
    BY <1>16, <1>a, <1>g, <2>1 DEF GuardAlert
<1>4. CASE AuthAnonymous(r)
  BY <1>4, <1>a, <1>d, <1>e, <1>f DEF AuthAnonymous, KeyPhases, Answered, Phases
<1>5. CASE AuthSession(r)
  BY <1>5, <1>a, <1>d, <1>e, <1>f, LedgerOpsType DEF AuthSession, KeyPhases, Answered,
     Phases
<1>6. CASE AuthKey(r)
  BY <1>6, <1>a, <1>b, <1>d, <1>e, <1>f, ZonesAreZones DEF AuthKey, KeyPhases, Answered,
     Phases
<1>7. CASE AuthRejects(r)
  BY <1>7, <1>a DEF AuthRejects
<1>8. CASE OrgDecides(r)
  BY <1>8, <1>a, <1>c, <1>d, <1>e, <1>f DEF OrgDecides, KeyPhases, Answered, Phases
<1>9. CASE OrgUnchecked(r)
  BY <1>9, <1>a, <1>c, <1>d, <1>e, <1>f DEF OrgUnchecked, KeyPhases, Answered, Phases
<1>10. CASE KeyDecides(r)
  <2>1. KeyZone(cred[r]) \in Zones
    BY ZonesAreZones DEF KeyZone
  <2> QED
    BY <1>10, <1>a, <1>c, <1>d, <1>e, <1>f, <2>1 DEF KeyDecides, KeyPhases, Answered,
       Phases
<1>11. CASE KeyVanished(r)
  BY <1>11, <1>a, <1>d, <1>e, <1>f DEF KeyVanished, KeyPhases, Answered, Phases
<1>12. CASE KeyUnchecked(r)
  BY <1>12, <1>a, <1>d, <1>e, <1>f DEF KeyUnchecked, KeyPhases, Answered, Phases
<1>13. CASE KeyZoneShift(r) \/ KeyAlert(r)
  <2>1. SlotsOK'
    BY <1>13, <1>a, <1>c, <1>d, <1>e, <1>f
       DEF KeyZoneShift, KeyAlert, KeyPhases, Answered, Phases
  <2>2. cred[r] \in Scopes /\ zone[r] \in Zones
    BY <1>13, <1>b, <1>c DEF KeyZoneShift, KeyAlert, KeyPhases, Scopes
  <2> QED
    BY <1>13, <2>1, <2>2, ShiftType DEF KeyZoneShift, KeyAlert
<1>14. CASE SessionDecides(r)
  <2>1. SessionZone(cred[r]) \in Zones
    BY ZonesAreZones DEF SessionZone
  <2> QED
    BY <1>14, <1>a, <1>d, <1>e, <1>f, <2>1 DEF SessionDecides, KeyPhases, Answered, Phases
<1>15. CASE SessionUnchecked(r)
  BY <1>15, <1>a, <1>d, <1>e, <1>f DEF SessionUnchecked, KeyPhases, Answered, Phases
<1> QED
  BY <1>1, <1>2, <1>3, <1>4, <1>5, <1>6, <1>7, <1>8, <1>9, <1>10, <1>11,
     <1>12, <1>13, <1>14, <1>15, <1>16 DEF Check

(* The steps from the upstream's answer to the last booking.               *)
LEMMA ServeKeepsParts ==
  ASSUME LedgerTypeOK, SlotsOK, GuardTypeOK, FaultTypeOK, NEW r \in Slots, Serve(r)
  PROVE  LedgerTypeOK' /\ SlotsOK' /\ GuardTypeOK' /\ FaultTypeOK'
<1> DEFINE Parts == LedgerTypeOK' /\ SlotsOK' /\ GuardTypeOK' /\ FaultTypeOK'
<1>a. /\ UNCHANGED ledgerVars => LedgerTypeOK'
      /\ UNCHANGED guardVars => GuardTypeOK'
      /\ NoFault => FaultTypeOK'
      /\ Fault /\ UNCHANGED waived => FaultTypeOK'
      /\ Leave(r) => SlotsOK'
      /\ InputBooked(r) => SlotsOK'
  BY LedgerOpsType, GuardSteps, FaultSteps, SlotSteps
<1>b. /\ pc \in [Slots -> Phases] /\ cred[r] \in Clients /\ zone[r] \in Zones
      /\ bill \in [Slots -> 0 .. MaxCost] /\ bill[r] \in Nat
      /\ issued \subseteq Keys /\ inputDue \subseteq Slots /\ MaxCost \in Nat
  BY GateAssumption DEF SlotsOK, SlotTypeOK, LedgerTypeOK
<1>c. /\ pc[r] \in KeyPhases => cred[r] \in Keys
      /\ r \in inputDue => pc[r] \in Answered \cup {"idle"}
  BY DEF SlotsOK, SlotInv, KeyPhases
<1>d. \A phase \in {"bill", "stream", "streamalert"} :
        (phase = "streamalert" => cred[r] \in Keys) /\ Proceed(r, phase) => SlotsOK'
  BY SlotSteps DEF KeyPhases, Answered, Phases
<1>e. \A done : \A cost \in 0 .. MaxCost :
        RecordTransaction(cred[r], cost, done) => LedgerTypeOK'
  BY <1>b, RecordType
<1>1. CASE EndUnbilled(r)
  BY <1>1, <1>a DEF EndUnbilled
<1>2. ASSUME NEW cost \in 0 .. MaxCost, AnswerBuffered(r, cost) PROVE Parts
  <2>1. SlotsOK'
    BY <1>2 DEF AnswerBuffered, SlotsOK, SlotTypeOK, SlotInv, Goto, Phases, Answered
  <2> QED
    BY <1>2, <1>a, <2>1 DEF AnswerBuffered
<1>3. CASE AnswerStream(r)
  <2>1. SlotsOK'
    BY <1>3 DEF AnswerStream, SlotsOK, SlotTypeOK, SlotInv, Goto, Phases, Answered
  <2> QED
    BY <1>3, <1>a, <2>1 DEF AnswerStream
<1>4. ASSUME NEW tokens \in {0, 1}, StreamChunk(r, tokens) PROVE Parts
  <2> DEFINE c == cred[r]
  <2>1. bill' \in [Slots -> 0 .. MaxCost]
    BY <1>4, <1>b DEF StreamChunk
  <2>2. /\ pc' \in [Slots -> Phases]
        /\ zone' \in [Slots -> Zones]
        /\ pc'[r] \in {"bill", "stream", "streamzone"}
        /\ pc'[r] = "streamzone" => cred[r] \in issued
        /\ \A q \in Slots \ {r} : pc'[q] = pc[q]
    BY <1>4, <1>b, ZonesAreZones
       DEF StreamChunk, Goto, Phases, KeyZone, SlotsOK, SlotTypeOK
  <2>3. SlotsOK'
    BY <1>4, <1>b, <2>1, <2>2
       DEF StreamChunk, SlotsOK, SlotTypeOK, SlotInv, Answered
  <2>4. LedgerTypeOK'
    BY <1>4 DEF StreamChunk, LedgerTypeOK, spendVars, sessionVars, keyVars, orgVars
  <2> QED
    BY <1>4, <1>a, <2>3, <2>4 DEF StreamChunk
<1>5. ASSUME NEW tokens \in {0, 1}, StreamChunkUnchecked(r, tokens) PROVE Parts
  <2>1. bill' \in [Slots -> 0 .. MaxCost]
    BY <1>5, <1>b DEF StreamChunkUnchecked
  <2>2. SlotsOK'
    BY <1>5, <2>1 DEF StreamChunkUnchecked, SlotsOK, SlotTypeOK, SlotInv
  <2> QED
    BY <1>5, <1>a, <2>2 DEF StreamChunkUnchecked
<1>6. CASE StreamZoneShift(r) \/ StreamAlert(r)
  <2>1. SlotsOK'
    BY <1>6, <1>c, <1>d DEF StreamZoneShift, StreamAlert, KeyPhases
  <2>2. cred[r] \in Scopes
    BY <1>6, <1>c DEF StreamZoneShift, StreamAlert, KeyPhases, Scopes
  <2> QED
    BY <1>6, <1>b, <2>1, <2>2, ShiftType DEF StreamZoneShift, StreamAlert
<1>7. CASE StreamEnd(r)
  BY <1>7, <1>a, <1>d DEF StreamEnd
<1>8. CASE StreamClosed(r)
  BY <1>8, <1>a DEF StreamClosed
<1>9. CASE Book(r)
  BY <1>9, <1>a, <1>b, <1>e DEF Book, SlotsOK, SlotTypeOK
<1>10. CASE BookLost(r)
  BY <1>10, <1>a DEF BookLost
<1>11. ASSUME NEW done \in SUBSET Statements, BookTorn(r, done) PROVE Parts
  BY <1>11, <1>a, <1>b, <1>e DEF BookTorn
<1>12. ASSUME NEW cost \in 0 .. MaxCost, BookInput(r, cost) PROVE Parts
  BY <1>12, <1>a, <1>e DEF BookInput
<1>13. ASSUME NEW cost \in 0 .. MaxCost, NEW done \in SUBSET Statements,
              BookInputTorn(r, cost, done)
       PROVE  Parts
  BY <1>13, <1>a, <1>e DEF BookInputTorn
<1>14. CASE BookInputLost(r)
  BY <1>14, <1>a DEF BookInputLost
<1> QED
  BY <1>1, <1>2, <1>3, <1>4, <1>5, <1>6, <1>7, <1>8, <1>9, <1>10, <1>11,
     <1>12, <1>13, <1>14 DEF Serve

(* A crash forgets the slots and keeps the ledger, torn or not.            *)
LEMMA DieKeepsParts ==
  ASSUME LedgerTypeOK, SlotsOK, GuardTypeOK, FaultTypeOK, Die
  PROVE  LedgerTypeOK' /\ SlotsOK' /\ GuardTypeOK' /\ FaultTypeOK'
<1>1. Forget /\ Fault
  <2>1. CASE Crash
    BY <2>1 DEF Crash
  <2>2. CASE \E r \in Slots, cost \in 0 .. MaxCost, done \in StatementPrefixes :
               CrashInBook(r, cost, done)
    BY <2>2 DEF CrashInBook
  <2> QED
    BY <2>1, <2>2 DEF Die
<1>2. SlotsOK'
  BY <1>1, GateAssumption
     DEF Forget, SlotsOK, SlotTypeOK, SlotInv, Phases, Clients, Zones
<1>3. GuardTypeOK' /\ FaultTypeOK'
  BY <1>1, FaultSteps DEF Forget, GuardTypeOK, Zones
<1>4. LedgerTypeOK'
  <2>1. CASE Crash
    BY <2>1, LedgerOpsType DEF Crash
  <2>2. ASSUME NEW r \in Slots, NEW cost \in 0 .. MaxCost, NEW done,
               CrashInBook(r, cost, done)
        PROVE  LedgerTypeOK'
    <3>1. cred[r] \in Clients /\ cost \in Nat
      BY GateAssumption DEF SlotsOK, SlotTypeOK
    <3> QED
      BY <2>2, <3>1, RecordType DEF CrashInBook
  <2> QED
    BY <2>1, <2>2 DEF Die
<1> QED
  BY <1>2, <1>3, <1>4

(* The operator changes rows of the ledger and the history of alerts.      *)
LEMMA OperatorKeepsParts ==
  ASSUME LedgerTypeOK, SlotsOK, GuardTypeOK, FaultTypeOK, Administer \/ ResetBudget
  PROVE  LedgerTypeOK' /\ SlotsOK' /\ GuardTypeOK' /\ FaultTypeOK'
<1>1. SlotsOK'
  BY DEF Administer, ResetBudget, SlotsOK, SlotTypeOK, SlotInv, slotVars
<1>2. LedgerTypeOK'
  BY LedgerOpsType DEF Administer, ResetBudget
<1>3. GuardTypeOK' /\ FaultTypeOK'
  BY GuardSteps, FaultSteps DEF Administer, ResetBudget, GuardTypeOK
<1> QED
  BY <1>1, <1>2, <1>3

(* The invariant is inductive.                                             *)
THEOREM GateInvariant == Spec => []GateInv
<1>1. Init => GateInv
  <2> SUFFICES ASSUME Init PROVE GateInv
    OBVIOUS
  <2>1. LedgerTypeOK
    BY DEF Init, LedgerInit, LedgerTypeOK, Zones
  <2>2. SlotsOK
    BY GateAssumption
       DEF Init, SlotsOK, SlotTypeOK, SlotInv, Phases, Clients, Zones
  <2>3. GuardTypeOK /\ FaultTypeOK /\ ops \in 0 .. MaxOps
    BY GateAssumption DEF Init, GuardTypeOK, FaultTypeOK, Zones
  <2> QED
    BY <2>1, <2>2, <2>3, InvParts
<1>2. GateInv /\ [Next]_vars => GateInv'
  <2> SUFFICES ASSUME GateInv, [Next]_vars PROVE GateInv'
    OBVIOUS
  <2>1. LedgerTypeOK /\ SlotsOK /\ GuardTypeOK /\ FaultTypeOK /\ ops \in 0 .. MaxOps
    BY InvParts
  <2>2. LedgerTypeOK' /\ SlotsOK' /\ GuardTypeOK' /\ FaultTypeOK'
    <3>1. ASSUME NEW r \in Slots, Check(r) \/ Serve(r)
          PROVE  LedgerTypeOK' /\ SlotsOK' /\ GuardTypeOK' /\ FaultTypeOK'
      BY <2>1, <3>1, CheckKeepsParts, ServeKeepsParts
    <3>2. CASE Administer \/ ResetBudget \/ Die
      BY <2>1, <3>2, OperatorKeepsParts, DieKeepsParts
    <3>3. CASE UNCHANGED vars
      BY <2>1, <3>3
         DEF vars, ledgerVars, spendVars, sessionVars, keyVars, orgVars, slotVars,
             guardVars, faultVars, LedgerTypeOK, SlotsOK, SlotTypeOK, SlotInv,
             GuardTypeOK, FaultTypeOK
    <3> QED
      BY <3>1, <3>2, <3>3 DEF Next
  <2>3. ops' \in 0 .. MaxOps
    <3>1. CASE UNCHANGED ops
      BY <2>1, <3>1
    <3>2. CASE Administer \/ ResetBudget
      <4>1. Operated
        BY <3>2 DEF Administer, ResetBudget
      <4> QED
        BY <2>1, <4>1, GateAssumption DEF Operated
    <3> QED
      BY <3>1, <3>2 DEF Next, vars
  <2>4. (LedgerTypeOK /\ SlotsOK /\ GuardTypeOK /\ FaultTypeOK /\ ops \in 0 .. MaxOps)'
          => GateInv'
    BY DEF GateInv, TypeOK, SlotsOK
  <2> QED
    BY <2>2, <2>3, <2>4
<1> QED
  BY <1>1, <1>2, PTL DEF Spec

(* The types of the gate's state, whatever runs, fails or crashes.         *)
THEOREM GateType == Spec => []TypeOK
<1>1. GateInv => TypeOK
  BY DEF GateInv
<1> QED
  BY <1>1, GateInvariant, PTL

----------------------------------------------------------------------------
(* The gate implements the abstract breaker.                               *)

\* The slots whose input is open; those whose output is are the Passed ones.
Unbilled == {r \in Passed : pc[r] \notin Answered} \cup inputDue

\* No slot opens anything in this step.
NothingOpens == Passed' \subseteq Passed /\ Unbilled' \subseteq Unbilled

(* A step that opens nothing and books at most MaxCost, closing an item if *)
(* it books, is a step of the breaker.                                     *)
LEMMA ClosingStep ==
  ASSUME NothingOpens, NEW c \in 0 .. MaxCost,
         spent \in Nat, spent' = spent + c, waived'[Global] = waived[Global],
         c = 0 \/ Passed' # Passed \/ Unbilled' # Unbilled
  PROVE  [GlobalMeter!MeterNext]_(GlobalMeter!meterVars)
<1>1. GlobalOpen = (Passed \X {"out"}) \cup (Unbilled \X {"in"})
  BY DEF GlobalOpen, OpenItems, Unbilled
<1>2. GlobalOpen' = (Passed' \X {"out"}) \cup (Unbilled' \X {"in"})
  BY DEF GlobalOpen, OpenItems, Unbilled
<1>3. GlobalOpen' \subseteq GlobalOpen
  BY <1>1, <1>2 DEF NothingOpens
<1>4. CASE GlobalOpen' = GlobalOpen
  <2>1. Passed' = Passed
    <3>1. \A q : q \in Passed <=> <<q, "out">> \in GlobalOpen
      BY <1>1
    <3>2. \A q : q \in Passed' <=> <<q, "out">> \in GlobalOpen'
      BY <1>2
    <3> QED
      BY <1>4, <3>1, <3>2
  <2>2. Unbilled' = Unbilled
    <3>1. \A q : q \in Unbilled <=> <<q, "in">> \in GlobalOpen
      BY <1>1
    <3>2. \A q : q \in Unbilled' <=> <<q, "in">> \in GlobalOpen'
      BY <1>2
    <3> QED
      BY <1>4, <3>1, <3>2
  <2>3. spent' = spent
    BY <2>1, <2>2
  <2> QED
    BY <1>4, <2>3 DEF GlobalMeter!meterVars
<1>5. CASE GlobalOpen' # GlobalOpen
  <2> DEFINE items == GlobalOpen \ GlobalOpen'
  <2>1. items \in SUBSET GlobalOpen /\ items # {} /\ GlobalOpen' = GlobalOpen \ items
    BY <1>3, <1>5
  <2>2. GlobalMeter!Close(items, c)
    BY <2>1 DEF GlobalMeter!Close
  <2> QED
    BY <2>1, <2>2 DEF GlobalMeter!MeterNext
<1> QED
  BY <1>4, <1>5

(* What the moves of a slot do to its open items.                          *)
LEMMA SlotMoves ==
  ASSUME SlotsOK, NEW r \in Slots
  PROVE  /\ Leave(r) => NothingOpens /\ r \notin Passed'
         /\ \A phase, z :
              /\ r \in Passed
              /\ pc[r] \in Answered => phase \in Answered
              /\ Proceed(r, phase) \/ ProceedIn(r, phase, z)
              => NothingOpens
         /\ r \in inputDue /\ InputBooked(r)
              => NothingOpens /\ r \in Unbilled /\ r \notin Unbilled'
         /\ UNCHANGED slotVars => NothingOpens
         /\ Forget => NothingOpens /\ r \notin Passed' /\ r \notin Unbilled'
<1> USE DEF SlotsOK, SlotTypeOK, NothingOpens, Passed, Unbilled, Goto
<1>1. ASSUME Leave(r) PROVE NothingOpens /\ r \notin Passed'
  BY <1>1 DEF Leave
<1>2. ASSUME NEW phase, NEW z, r \in Passed, pc[r] \in Answered => phase \in Answered,
             Proceed(r, phase) \/ ProceedIn(r, phase, z)
      PROVE  NothingOpens
  BY <1>2 DEF Proceed, ProceedIn
<1>3. ASSUME r \in inputDue, InputBooked(r)
      PROVE  NothingOpens /\ r \in Unbilled /\ r \notin Unbilled'
  BY <1>3 DEF InputBooked, SlotInv
<1>4. ASSUME UNCHANGED slotVars PROVE NothingOpens
  BY <1>4 DEF slotVars
<1>5. ASSUME Forget PROVE NothingOpens /\ r \notin Passed' /\ r \notin Unbilled'
  BY <1>5 DEF Forget
<1> QED
  BY <1>1, <1>2, <1>3, <1>4, <1>5

(* The line of the global budget is above zero.                            *)
LEMMA GlobalLine ==
  /\ EffectiveGlobalLimit \in Nat \ {0}
  /\ RedLine(EffectiveGlobalLimit) \in Nat \ {0}
<1>1. EffectiveGlobalLimit \in Nat \ {0}
  BY GateAssumption DEF EffectiveGlobalLimit
<1> QED
  BY <1>1, GateAssumption, SMT DEF RedLine, Threshold

BreakerStep == [GlobalMeter!MeterNext]_(GlobalMeter!meterVars)

(* A step that books nothing and opens nothing.                            *)
LEMMA QuietStep ==
  ASSUME LedgerTypeOK, NothingOpens, UNCHANGED spent, waived'[Global] = waived[Global]
  PROVE  BreakerStep
<1>1. spent \in Nat /\ spent' = spent + 0 /\ 0 \in 0 .. MaxCost
  BY GateAssumption DEF LedgerTypeOK
<1> QED
  BY <1>1, ClosingStep DEF BreakerStep

(* What leaves the global spend and the waived global checks as they are.  *)
LEMMA SpendUntouched ==
  ASSUME FaultTypeOK
  PROVE  /\ UNCHANGED ledgerVars => UNCHANGED spent
         /\ \A s : EnsureSession(s) => UNCHANGED spent
         /\ \A k, z : UpdateVirtualKeyZone(k, z) => UNCHANGED spent
         /\ NoFault => waived' = waived
         /\ \A s : s # Global /\ FailOpen(s) => waived'[Global] = waived[Global]
  BY DEF ledgerVars, spendVars, EnsureSession, UpdateVirtualKeyZone, NoFault,
         faultVars, FailOpen, FaultTypeOK, Scopes

(* Every decision of a request is an admission below the line, a waived    *)
(* one, or closes what the request held open.                              *)
LEMMA CheckImplements ==
  ASSUME LedgerTypeOK, SlotsOK, FaultTypeOK, NEW r \in Slots, Check(r)
  PROVE  BreakerStep
<1>a. /\ UNCHANGED ledgerVars => UNCHANGED spent
      /\ \A s : EnsureSession(s) => UNCHANGED spent
      /\ \A k, z : UpdateVirtualKeyZone(k, z) => UNCHANGED spent
      /\ NoFault => waived'[Global] = waived[Global]
      /\ \A s : s # Global /\ FailOpen(s) => waived'[Global] = waived[Global]
  BY SpendUntouched
<1>b. Leave(r) => NothingOpens
  BY SlotMoves
<1>c. \A phase, z :
        /\ pc[r] \in {"auth", "org", "key", "keyzone", "keyalert", "session"} \/ r \in Passed
        /\ pc[r] \notin Answered
        /\ Proceed(r, phase) \/ ProceedIn(r, phase, z)
        => NothingOpens
  BY SlotMoves DEF Passed
<1>d. /\ NothingOpens /\ UNCHANGED spent /\ waived'[Global] = waived[Global]
           => BreakerStep
      /\ pc[r] \in {"org", "key"} => cred[r] \in Keys
  BY QuietStep DEF SlotsOK, SlotInv
<1>1. ASSUME NEW c \in Callers, Arrive(r, c) PROVE BreakerStep
  <2>1. CASE GlobalZone = "RED"
    <3>1. NothingOpens
      BY <1>1, <2>1
         DEF Arrive, NothingOpens, Passed, Unbilled, Goto, SlotsOK, SlotTypeOK, Answered
    <3> QED
      BY <1>1, <1>a, <1>d, <3>1 DEF Arrive
  <2>2. CASE GlobalZone # "RED"
    <3>1. ~(spent >= RedLine(EffectiveGlobalLimit))
      BY <2>2 DEF GlobalZone, ZoneOf, RedLine
    <3>2. spent < RedLine(EffectiveGlobalLimit)
      BY <3>1, GlobalLine DEF LedgerTypeOK
    <3>3. Passed' = Passed \cup {r} /\ Unbilled' = Unbilled \cup {r}
      BY <1>1, <2>2 DEF Arrive, Passed, Unbilled, Goto, SlotsOK, SlotTypeOK, Answered
    <3>4. GlobalOpen' = GlobalOpen \cup ({r} \X {"in", "out"})
      BY <3>3 DEF GlobalOpen, OpenItems, Unbilled
    <3>5. GlobalMeter!Admit(r)
      BY <1>1, <1>a, <3>2, <3>4
         DEF GlobalMeter!Admit, GlobalMeter!ItemsOf, GlobalMeter!Parts, Arrive
    <3> QED
      BY <3>5 DEF BreakerStep, GlobalMeter!MeterNext
  <2> QED
    BY <2>1, <2>2
<1>2. ASSUME NEW c \in Callers, ArriveUnchecked(r, c) PROVE BreakerStep
  <2>1. Passed' = Passed \cup {r} /\ Unbilled' = Unbilled \cup {r}
    BY <1>2 DEF ArriveUnchecked, Passed, Unbilled, Goto, SlotsOK, SlotTypeOK, Answered
  <2>2. GlobalOpen' = GlobalOpen \cup ({r} \X {"in", "out"})
    BY <2>1 DEF GlobalOpen, OpenItems, Unbilled
  <2>3. waived'[Global] = waived[Global] + 1
    BY <1>2 DEF ArriveUnchecked, FailOpen, FaultTypeOK, Scopes
  <2>4. GlobalMeter!Waive(r)
    BY <1>2, <1>a, <2>2, <2>3
       DEF GlobalMeter!Waive, GlobalMeter!ItemsOf, GlobalMeter!Parts, ArriveUnchecked
  <2> QED
    BY <2>4 DEF BreakerStep, GlobalMeter!MeterNext
<1>3. CASE GuardDecides(r) \/ GuardAlert(r)
  <2>1. /\ pc[r] \in {"guard", "alert"}
        /\ Proceed(r, "alert") \/ GlobalVerdict(r)
    BY <1>3 DEF GuardDecides, GuardAlert
  <2>2. NothingOpens
    <3>1. CASE Proceed(r, "alert")
      BY <2>1, <3>1 DEF Proceed, Goto, NothingOpens, Passed, Unbilled, Answered,
                        SlotsOK, SlotTypeOK
    <3>2. CASE GlobalVerdict(r) /\ zone[r] # "RED"
      <4>1. r \in Passed /\ pc[r] \notin Answered
        BY <2>1, <3>2 DEF Passed, Answered
      <4> QED
        BY <1>c, <3>2, <4>1 DEF GlobalVerdict
    <3> QED
      BY <1>b, <2>1, <3>1, <3>2 DEF GlobalVerdict
  <2> QED
    BY <1>3, <1>a, <1>d, <2>2 DEF GuardDecides, GuardAlert
<1>4. CASE AuthAnonymous(r)
  BY <1>4, <1>a, <1>c, <1>d DEF AuthAnonymous, Answered
<1>5. CASE AuthSession(r)
  BY <1>5, <1>a, <1>c, <1>d DEF AuthSession, Answered
<1>6. CASE AuthKey(r)
  BY <1>6, <1>a, <1>c, <1>d DEF AuthKey, Answered
<1>7. CASE AuthRejects(r)
  BY <1>7, <1>a, <1>b, <1>d DEF AuthRejects
<1>8. CASE OrgDecides(r)
  BY <1>8, <1>a, <1>b, <1>c, <1>d DEF OrgDecides, Answered
<1>9. CASE OrgUnchecked(r)
  <2>1. KeyOrg[cred[r]] # Global
    BY <1>9, <1>d, LedgerAssumption, GateAssumption DEF OrgUnchecked
  <2> QED
    BY <1>9, <1>a, <1>c, <1>d, <2>1 DEF OrgUnchecked, Answered
<1>10. CASE KeyDecides(r)
  BY <1>10, <1>a, <1>b, <1>c, <1>d DEF KeyDecides, Answered
<1>11. CASE KeyVanished(r)
  BY <1>11, <1>a, <1>c, <1>d DEF KeyVanished, Answered
<1>12. CASE KeyUnchecked(r)
  <2>1. cred[r] # Global
    BY GateAssumption DEF SlotsOK, SlotTypeOK
  <2> QED
    BY <1>12, <1>a, <1>c, <1>d, <2>1 DEF KeyUnchecked, Answered
<1>13. CASE KeyZoneShift(r) \/ KeyAlert(r)
  <2>1. UNCHANGED spent /\ waived'[Global] = waived[Global]
    BY <1>13, <1>a DEF KeyZoneShift, KeyAlert, StoreKeyZone, AnnounceKeyZone
  <2> QED
    BY <1>13, <1>b, <1>c, <1>d, <2>1 DEF KeyZoneShift, KeyAlert, Answered
<1>14. CASE SessionDecides(r)
  BY <1>14, <1>a, <1>b, <1>c, <1>d DEF SessionDecides, Answered
<1>15. CASE SessionUnchecked(r)
  <2>1. cred[r] # Global
    BY GateAssumption DEF SlotsOK, SlotTypeOK
  <2> QED
    BY <1>15, <1>a, <1>c, <1>d, <2>1 DEF SessionUnchecked, Answered
<1> QED
  BY <1>1, <1>2, <1>3, <1>4, <1>5, <1>6, <1>7, <1>8, <1>9, <1>10, <1>11,
     <1>12, <1>13, <1>14, <1>15 DEF Check

(* Every booking closes the item it books, and books at most MaxCost.      *)
LEMMA ServeImplements ==
  ASSUME LedgerTypeOK, SlotsOK, FaultTypeOK, NEW r \in Slots, Serve(r)
  PROVE  BreakerStep
<1>a. /\ UNCHANGED ledgerVars => UNCHANGED spent
      /\ \A k, z : UpdateVirtualKeyZone(k, z) => UNCHANGED spent
      /\ NoFault => waived'[Global] = waived[Global]
  BY SpendUntouched
<1>b. /\ Leave(r) => NothingOpens /\ r \notin Passed'
      /\ r \in inputDue /\ InputBooked(r)
           => NothingOpens /\ r \in Unbilled /\ r \notin Unbilled'
  BY SlotMoves
<1>c. /\ pc[r] \in Answered \cup {"forward"} => r \in Passed
      /\ \A phase \in Answered :
           pc[r] \in Answered \cup {"forward"} /\ Proceed(r, phase) => NothingOpens
  BY SlotMoves DEF Passed, Answered
<1>d. NothingOpens /\ UNCHANGED spent /\ waived'[Global] = waived[Global]
        => BreakerStep
  BY QuietStep
<1>e. \A c \in 0 .. MaxCost :
        /\ spent' = spent + c
        /\ NothingOpens /\ waived'[Global] = waived[Global]
        /\ Passed' # Passed \/ Unbilled' # Unbilled
        => BreakerStep
  BY ClosingStep DEF BreakerStep, LedgerTypeOK
<1>f. bill[r] \in 0 .. MaxCost
  BY DEF SlotsOK, SlotTypeOK
<1>g. \A c, cost, done : RecordTransaction(c, cost, done) => spent' = spent + cost
  BY DEF RecordTransaction
<1>1. CASE EndUnbilled(r)
  BY <1>1, <1>a, <1>b, <1>d DEF EndUnbilled
<1>2. ASSUME NEW cost \in 0 .. MaxCost, AnswerBuffered(r, cost) PROVE BreakerStep
  <2>1. NothingOpens
    BY <1>2 DEF AnswerBuffered, NothingOpens, Passed, Unbilled, Goto, Answered,
                SlotsOK, SlotTypeOK
  <2> QED
    BY <1>2, <1>a, <1>d, <2>1 DEF AnswerBuffered
<1>3. CASE AnswerStream(r)
  <2>1. NothingOpens
    BY <1>3 DEF AnswerStream, NothingOpens, Passed, Unbilled, Goto, Answered,
                SlotsOK, SlotTypeOK
  <2> QED
    BY <1>3, <1>a, <1>d, <2>1 DEF AnswerStream
<1>4. ASSUME NEW tokens \in {0, 1}, StreamChunk(r, tokens) PROVE BreakerStep
  <2>1. /\ pc[r] = "stream" /\ pc'[r] \in Answered /\ UNCHANGED inputDue
        /\ \A q \in Slots \ {r} : pc'[q] = pc[q] /\ zone'[q] = zone[q]
    BY <1>4 DEF StreamChunk, Goto, Answered, SlotsOK, SlotTypeOK
  <2>2. NothingOpens
    BY <2>1 DEF NothingOpens, Passed, Unbilled, Answered
  <2>3. UNCHANGED spent
    BY <1>4 DEF StreamChunk, spendVars
  <2> QED
    BY <1>4, <1>a, <1>d, <2>2, <2>3 DEF StreamChunk
<1>5. ASSUME NEW tokens \in {0, 1}, StreamChunkUnchecked(r, tokens) PROVE BreakerStep
  <2>1. NothingOpens
    BY <1>5 DEF StreamChunkUnchecked, NothingOpens, Passed, Unbilled
  <2> QED
    BY <1>5, <1>a, <1>d, <2>1 DEF StreamChunkUnchecked
<1>6. CASE StreamZoneShift(r) \/ StreamAlert(r)
  <2>1. UNCHANGED spent /\ waived'[Global] = waived[Global]
    BY <1>6, <1>a DEF StreamZoneShift, StreamAlert, StoreKeyZone, AnnounceKeyZone
  <2> QED
    BY <1>6, <1>c, <1>d, <2>1 DEF StreamZoneShift, StreamAlert, Answered
<1>7. CASE StreamEnd(r)
  BY <1>7, <1>a, <1>c, <1>d DEF StreamEnd, Answered
<1>8. CASE StreamClosed(r)
  BY <1>8, <1>a, <1>b, <1>d DEF StreamClosed
<1>9. CASE Book(r)
  BY <1>9, <1>a, <1>b, <1>c, <1>e, <1>f, <1>g DEF Book, Answered
<1>10. CASE BookLost(r)
  BY <1>10, <1>a, <1>b, <1>d DEF BookLost
<1>11. ASSUME NEW done \in SUBSET Statements, BookTorn(r, done) PROVE BreakerStep
  BY <1>11, <1>b, <1>c, <1>e, <1>f, <1>g DEF BookTorn, Answered
<1>12. ASSUME NEW cost \in 0 .. MaxCost, BookInput(r, cost) PROVE BreakerStep
  BY <1>12, <1>a, <1>b, <1>e, <1>g DEF BookInput
<1>13. ASSUME NEW cost \in 0 .. MaxCost, NEW done \in SUBSET Statements,
              BookInputTorn(r, cost, done)
       PROVE  BreakerStep
  BY <1>13, <1>b, <1>e, <1>g DEF BookInputTorn
<1>14. CASE BookInputLost(r)
  BY <1>14, <1>a, <1>b, <1>d DEF BookInputLost
<1> QED
  BY <1>1, <1>2, <1>3, <1>4, <1>5, <1>6, <1>7, <1>8, <1>9, <1>10, <1>11,
     <1>12, <1>13, <1>14 DEF Serve

(* A crash closes everything, booking at most one item; the operator       *)
(* erases the spend or does not touch it.                                  *)
LEMMA RestImplements ==
  ASSUME LedgerTypeOK, SlotsOK, FaultTypeOK, Die \/ Administer \/ ResetBudget
  PROVE  BreakerStep
<1>a. \A r \in Slots : Forget => NothingOpens /\ r \notin Passed' /\ r \notin Unbilled'
  BY SlotMoves
<1>b. NothingOpens /\ UNCHANGED spent /\ waived'[Global] = waived[Global]
        => BreakerStep
  BY QuietStep
<1>c. Forget => NothingOpens /\ waived' = waived
  BY DEF Forget, NothingOpens, Passed, Unbilled
<1>1. CASE Crash
  BY <1>1, <1>b, <1>c, SpendUntouched DEF Crash
<1>2. ASSUME NEW r \in Slots, NEW cost \in 0 .. MaxCost, NEW done,
             CrashInBook(r, cost, done)
      PROVE  BreakerStep
  <2>1. r \in Passed \/ r \in Unbilled
    BY <1>2 DEF CrashInBook, Passed, Unbilled
  <2>2. /\ Passed' # Passed \/ Unbilled' # Unbilled
        /\ NothingOpens /\ waived'[Global] = waived[Global]
    BY <1>2, <1>a, <1>c, <2>1 DEF CrashInBook
  <2>3. spent' = spent + cost /\ spent \in Nat
    BY <1>2 DEF CrashInBook, RecordTransaction, LedgerTypeOK
  <2> QED
    BY <2>2, <2>3, ClosingStep DEF BreakerStep
<1>4. CASE Administer
  <2>1. UNCHANGED spent
    BY <1>4 DEF Administer, RegisterVirtualKey, RevokeVirtualKey,
                CreateOrganization, DeleteOrganization, spendVars
  <2>2. waived' = waived /\ NothingOpens
    BY <1>4 DEF Administer, NoFault, faultVars, slotVars, NothingOpens, Passed, Unbilled
  <2> QED
    BY <1>b, <2>1, <2>2
<1>5. CASE ResetBudget
  <2>1. spent' = 0 /\ waived' = waived
    BY <1>5 DEF ResetBudget, Reset, NoFault, faultVars
  <2>2. GlobalOpen' = GlobalOpen
    BY <1>5 DEF ResetBudget, GlobalOpen, OpenItems, Passed, slotVars
  <2>3. GlobalMeter!Erase
    BY <2>1, <2>2 DEF GlobalMeter!Erase
  <2> QED
    BY <2>3 DEF BreakerStep, GlobalMeter!MeterNext
<1> QED
  BY <1>1, <1>2, <1>4, <1>5 DEF Die

(* The gate refines the breaker: whatever the interleaving, the operator   *)
(* and the faults, it admits only below the line of the global budget and  *)
(* books every admitted item at most once.                                 *)
THEOREM GateImplementsBreaker == Spec => GlobalBreaker
<1>1. Init => GlobalMeter!MeterInit
  BY DEF Init, LedgerInit, GlobalMeter!MeterInit, GlobalOpen, OpenItems, Passed, Scopes
<1>2. GateInv /\ [Next]_vars => [GlobalMeter!MeterNext]_(GlobalMeter!meterVars)
  <2> SUFFICES ASSUME GateInv, [Next]_vars PROVE BreakerStep
    BY DEF BreakerStep
  <2>1. LedgerTypeOK /\ SlotsOK /\ FaultTypeOK
    BY InvParts
  <2>2. ASSUME NEW r \in Slots, Check(r) \/ Serve(r) PROVE BreakerStep
    BY <2>1, <2>2, CheckImplements, ServeImplements
  <2>3. CASE Die \/ Administer \/ ResetBudget
    BY <2>1, <2>3, RestImplements
  <2>4. CASE UNCHANGED vars
    <3>1. NothingOpens /\ UNCHANGED spent /\ waived' = waived
      BY <2>4 DEF vars, ledgerVars, spendVars, slotVars, faultVars, NothingOpens,
                  Passed, Unbilled
    <3> QED
      BY <2>1, <3>1, QuietStep
  <2> QED
    BY <2>2, <2>3, <2>4 DEF Next
<1> QED
  BY <1>1, <1>2, GateInvariant, PTL DEF Spec, GlobalBreaker, GlobalMeter!MeterSpec

----------------------------------------------------------------------------
(* The global budget.                                                      *)

(* The instances of SpendMeter used here mean the same finite sets.        *)
LEMMA SameCardinality ==
  /\ \A S : GlobalProofs!IsFiniteSet(S) <=> IsFiniteSet(S)
  /\ \A S : GlobalProofs!Cardinality(S) = GlobalMeter!Cardinality(S)
<1>1. \A S : GlobalProofs!IsFiniteSet(S) <=> IsFiniteSet(S)
  BY DEF IsFiniteSet, GlobalProofs!IsFiniteSet
<1>2. \A S : GlobalProofs!Cardinality(S) = GlobalMeter!Cardinality(S)
  BY DEF GlobalProofs!Cardinality, GlobalMeter!Cardinality
<1> QED
  BY <1>1, <1>2

(* The global spend passes the RED line by at most the cost of what can be *)
(* in flight and of the requests whose check failed, for every number of   *)
(* requests, keys, sessions, faults and operator actions.                  *)
THEOREM GlobalOverspend == Spec => []GlobalOverspendBound
<1>1. GlobalProofs!MeterAssumption
  BY SameCardinality, GlobalLine, GateAssumption DEF GlobalProofs!MeterAssumption
<1>2. GlobalProofs!MeterSpec => []GlobalProofs!OverspendBound
  BY <1>1, GlobalProofs!MeterOverspend, PTL
<1>3. GlobalMeter!MeterInit <=> GlobalProofs!MeterInit
  BY DEF GlobalMeter!MeterInit, GlobalProofs!MeterInit
<1>4. [GlobalMeter!MeterNext]_(GlobalMeter!meterVars)
        <=> [GlobalProofs!MeterNext]_(GlobalProofs!meterVars)
  BY DEF GlobalMeter!MeterNext, GlobalProofs!MeterNext,
         GlobalMeter!meterVars, GlobalProofs!meterVars,
         GlobalMeter!Admit, GlobalProofs!Admit, GlobalMeter!Waive, GlobalProofs!Waive,
         GlobalMeter!Close, GlobalProofs!Close, GlobalMeter!Erase, GlobalProofs!Erase,
         GlobalMeter!ItemsOf, GlobalProofs!ItemsOf, GlobalMeter!Parts, GlobalProofs!Parts
<1>5. GlobalProofs!OverspendBound <=> GlobalOverspendBound
  BY SameCardinality
     DEF GlobalProofs!OverspendBound, GlobalOverspendBound, GlobalMeter!OverspendBound,
         GlobalProofs!Excess, GlobalMeter!Excess
<1> QED
  BY <1>2, <1>3, <1>4, <1>5, GateImplementsBreaker, PTL
     DEF GlobalBreaker, GlobalMeter!MeterSpec, GlobalProofs!MeterSpec

----------------------------------------------------------------------------
(* The books.                                                              *)

(* Booking, with any part of its statements, keeps the books behind the    *)
(* transactions: the INSERT comes first and nothing is charged without it. *)
LEMMA RecordKeepsBooks ==
  ASSUME LedgerTypeOK, BooksNeverAhead, NEW c \in Clients, NEW cost \in Nat, NEW done,
         RecordTransaction(c, cost, done), ops' = ops
  PROVE  BooksNeverAhead'
<1> SUFFICES ASSUME ops = 0
             PROVE  /\ \A s \in Sessions : sessionConsumed'[s] <= sessionSpent'[s]
                    /\ \A k \in Keys : keyConsumed'[k] <= sessionSpent'[KeyName[k]]
                    /\ \A o \in Orgs : orgConsumed'[o] <= spent'
  BY DEF BooksNeverAhead
<1> USE DEF RecordTransaction, LedgerTypeOK, BooksNeverAhead
<1>1. ASSUME NEW s \in Sessions PROVE sessionConsumed'[s] <= sessionSpent'[s]
  <2>1. /\ sessionConsumed[s] \in Nat /\ sessionSpent[s] \in Nat
        /\ sessionConsumed[s] <= sessionSpent[s]
    OBVIOUS
  <2>2. CASE s \in Books(c)
    BY <2>1, <2>2
  <2>3. CASE s \notin Books(c)
    BY <2>1, <2>3
  <2> QED
    BY <2>2, <2>3
<1>2. ASSUME NEW k \in Keys PROVE keyConsumed'[k] <= sessionSpent'[KeyName[k]]
  <2>1. /\ KeyName[k] \in Sessions /\ keyConsumed[k] \in Nat
        /\ sessionSpent[KeyName[k]] \in Nat
        /\ keyConsumed[k] <= sessionSpent[KeyName[k]]
    BY LedgerAssumption
  <2>2. CASE k = c
    <3>1. KeyName[k] \in Books(c)
      BY <2>2 DEF Books
    <3> QED
      BY <2>1, <2>2, <3>1
  <2>3. CASE k # c
    BY <2>1, <2>3
  <2> QED
    BY <2>2, <2>3
<1>3. ASSUME NEW o \in Orgs PROVE orgConsumed'[o] <= spent'
  <2>1. orgConsumed[o] \in Nat /\ spent \in Nat /\ orgConsumed[o] <= spent
    OBVIOUS
  <2>2. orgConsumed'[o] <= orgConsumed[o] + cost
    BY <2>1
  <2> QED
    BY <2>1, <2>2
<1> QED
  BY <1>1, <1>2, <1>3

(* Whatever does not book leaves the amounts alone.                        *)
LEMMA AmountsUntouched ==
  ASSUME BooksNeverAhead, ops' = ops,
         UNCHANGED <<spent, sessionSpent, sessionConsumed, keyConsumed, orgConsumed>>
  PROVE  BooksNeverAhead'
  BY DEF BooksNeverAhead

(* No account is ever ahead of the transactions it stands for, whichever   *)
(* statement of a booking fails or is the last before a crash.             *)
THEOREM BooksBehind == Spec => []BooksNeverAhead
<1>1. Init => BooksNeverAhead
  BY LedgerAssumption DEF Init, LedgerInit, BooksNeverAhead
<1>2. GateInv /\ BooksNeverAhead /\ [Next]_vars => BooksNeverAhead'
  <2> SUFFICES ASSUME GateInv, BooksNeverAhead, [Next]_vars PROVE BooksNeverAhead'
    OBVIOUS
  <2> DEFINE Untouched ==
        UNCHANGED <<spent, sessionSpent, sessionConsumed, keyConsumed, orgConsumed>>
  <2>1. LedgerTypeOK /\ SlotsOK /\ ops \in Nat
    BY InvParts, GateAssumption
  <2>2. /\ UNCHANGED ledgerVars => Untouched
        /\ \A s : EnsureSession(s) => Untouched
        /\ \A k, z : UpdateVirtualKeyZone(k, z) => Untouched
    BY DEF ledgerVars, spendVars, sessionVars, keyVars, orgVars, EnsureSession,
           UpdateVirtualKeyZone
  <2>3. \A r \in Slots : cred[r] \in Clients /\ bill[r] \in Nat
    BY <2>1, GateAssumption DEF SlotsOK, SlotTypeOK
  <2>4. ASSUME NEW r \in Slots, Check(r), UNCHANGED ops PROVE BooksNeverAhead'
    <3>1. Untouched
      BY <2>2, <2>4
         DEF Check, Arrive, ArriveUnchecked, GuardDecides, GuardAlert, GlobalVerdict,
            AuthAnonymous, AuthSession,
             AuthKey, AuthRejects, OrgDecides, OrgUnchecked, KeyDecides, KeyVanished,
             KeyUnchecked, KeyZoneShift, KeyAlert, StoreKeyZone, AnnounceKeyZone,
             SessionDecides, SessionUnchecked
    <3> QED
      BY <2>4, <3>1, AmountsUntouched
  <2>5. ASSUME NEW r \in Slots, Serve(r), UNCHANGED ops PROVE BooksNeverAhead'
    <3>1. \/ Untouched
          \/ \E done : \E cost \in Nat : RecordTransaction(cred[r], cost, done)
      <4>1. ASSUME NEW tokens \in {0, 1}, StreamChunk(r, tokens) PROVE Untouched
        BY <4>1 DEF StreamChunk, spendVars, keyVars, orgVars, sessionVars
      <4> QED
        BY <2>2, <2>3, <2>5, <4>1, GateAssumption
           DEF Serve, EndUnbilled, AnswerBuffered, AnswerStream, StreamChunkUnchecked,
               StreamZoneShift, StreamAlert, StoreKeyZone, AnnounceKeyZone, StreamEnd,
               StreamClosed, Book, BookTorn,
               BookLost, BookInput, BookInputTorn, BookInputLost
    <3> QED
      BY <2>1, <2>3, <2>5, <3>1, AmountsUntouched, RecordKeepsBooks
  <2>6. ASSUME Die, UNCHANGED ops PROVE BooksNeverAhead'
    <3>1. CASE Crash
      BY <2>2, <2>6, <3>1, AmountsUntouched DEF Crash
    <3>2. ASSUME NEW r \in Slots, NEW cost \in 0 .. MaxCost, NEW done,
                 CrashInBook(r, cost, done)
          PROVE  BooksNeverAhead'
      BY <2>1, <2>3, <2>6, <3>2, GateAssumption, RecordKeepsBooks DEF CrashInBook
    <3> QED
      BY <2>6, <3>1, <3>2 DEF Die
  <2>7. CASE Administer \/ ResetBudget
    <3>1. Operated
      BY <2>7 DEF Administer, ResetBudget
    <3>2. ops' # 0
      BY <2>1, <3>1 DEF Operated
    <3> QED
      BY <3>2 DEF BooksNeverAhead
  <2>8. CASE UNCHANGED vars
    BY <2>2, <2>8, AmountsUntouched DEF vars
  <2> QED
    BY <2>4, <2>5, <2>6, <2>7, <2>8 DEF Next
<1> QED
  BY <1>1, <1>2, GateInvariant, PTL DEF Spec
=============================================================================
