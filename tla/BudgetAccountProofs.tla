------------------------- MODULE BudgetAccountProofs -------------------------
(* What the gate guarantees for the budgets of its clients: those of the   *)
(* virtual keys, of their organizations and of the legacy sessions; and    *)
(* that a client is blocked only after the alert, for every number of them.*)
EXTENDS BudgetGateProofs

----------------------------------------------------------------------------
(* Who is past authentication.                                             *)

\* Only a session is checked as one, only an organization as one; a key that
\* is past authentication has a row, or had one that was revoked since.
Authentic(r) ==
  /\ pc[r] = "session" => cred[r] \in Sessions
  /\ pc[r] = "org" => KeyOrg[cred[r]] \in Orgs
  /\ cred[r] \in Keys /\ (pc[r] \notin {"idle", "guard", "alert", "auth"} \/ r \in inputDue)
       => cred[r] \in issued \cup revoked

AuthInv == \A r \in Slots : Authentic(r)

\* Rows are only moved from the issued to the revoked ones.
RowsRemembered == issued \cup revoked \subseteq issued' \cup revoked'

(* What the moves of a slot need to keep it authentic.                     *)
LEMMA AuthMoves ==
  ASSUME SlotsOK, AuthInv, RowsRemembered, NEW r \in Slots
  PROVE  /\ Leave(r) => AuthInv'
         /\ \A phase, z :
              /\ phase = "session" => cred[r] \in Sessions
              /\ phase = "org" => KeyOrg[cred[r]] \in Orgs
              /\ phase \notin {"idle", "guard", "alert", "auth"} /\ cred[r] \in Keys
                   => cred[r] \in issued \cup revoked
              /\ Proceed(r, phase) \/ ProceedIn(r, phase, z)
              => AuthInv'
         /\ InputBooked(r) => AuthInv'
         /\ UNCHANGED slotVars => AuthInv'
         /\ Forget => AuthInv'
<1> USE GateAssumption, LedgerAssumption
    DEF SlotsOK, SlotTypeOK, AuthInv, Authentic, RowsRemembered, Goto
<1>1. ASSUME Leave(r) PROVE AuthInv'
  BY <1>1 DEF Leave
<1>2. ASSUME NEW phase, NEW z,
             phase = "session" => cred[r] \in Sessions,
             phase = "org" => KeyOrg[cred[r]] \in Orgs,
             phase \notin {"idle", "guard", "alert", "auth"} /\ cred[r] \in Keys
               => cred[r] \in issued \cup revoked,
             Proceed(r, phase) \/ ProceedIn(r, phase, z)
      PROVE  AuthInv'
  <2>1. /\ UNCHANGED <<cred, inputDue>> /\ pc'[r] = phase
        /\ \A q \in Slots \ {r} : pc'[q] = pc[q]
    BY <1>2 DEF Proceed, ProceedIn
  <2>2. r \in inputDue /\ cred[r] \in Keys => cred[r] \in issued \cup revoked
    OBVIOUS
  <2> QED
    BY <1>2, <2>1, <2>2
<1>3. ASSUME InputBooked(r) PROVE AuthInv'
  BY <1>3 DEF InputBooked
<1>4. ASSUME UNCHANGED slotVars PROVE AuthInv'
  BY <1>4 DEF slotVars
<1>5. ASSUME Forget PROVE AuthInv'
  BY <1>5 DEF Forget
<1> QED
  BY <1>1, <1>2, <1>3, <1>4, <1>5

(* No operation of the ledger forgets that a key had a row.                *)
LEMMA RowsKept ==
  /\ UNCHANGED ledgerVars => RowsRemembered
  /\ \A s : EnsureSession(s) => RowsRemembered
  /\ \A k, z : UpdateVirtualKeyZone(k, z) => RowsRemembered
  /\ \A c, cost, done : RecordTransaction(c, cost, done) => RowsRemembered
  /\ \A b : Reset(b) => RowsRemembered
  /\ \A k : RegisterVirtualKey(k) => RowsRemembered
  /\ \A s : RevokeVirtualKey(s) => RowsRemembered
  /\ \A o : CreateOrganization(o) \/ DeleteOrganization(o) => RowsRemembered
  BY DEF RowsRemembered, ledgerVars, keyVars, EnsureSession, UpdateVirtualKeyZone,
         RecordTransaction, Reset, RegisterVirtualKey, RevokeVirtualKey,
         CreateOrganization, DeleteOrganization

(* A request's decisions keep every slot authentic.                        *)
LEMMA CheckAuthentic ==
  ASSUME LedgerTypeOK, SlotsOK, AuthInv, NEW r \in Slots, Check(r)
  PROVE  AuthInv'
<1>a. RowsRemembered
  BY RowsKept
     DEF Check, Arrive, ArriveUnchecked, GuardDecides, GuardAlert, GlobalVerdict,
        AuthAnonymous, AuthSession,
         AuthKey, AuthRejects, OrgDecides, OrgUnchecked, KeyDecides, KeyVanished,
         KeyUnchecked, KeyZoneShift, KeyAlert, StoreKeyZone, AnnounceKeyZone,
         SessionDecides, SessionUnchecked
<1>b. /\ Leave(r) => AuthInv'
      /\ \A phase, z :
           /\ phase = "session" => cred[r] \in Sessions
           /\ phase = "org" => KeyOrg[cred[r]] \in Orgs
           /\ phase \notin {"idle", "guard", "alert", "auth"} /\ cred[r] \in Keys
                => cred[r] \in issued \cup revoked
           /\ Proceed(r, phase) \/ ProceedIn(r, phase, z)
           => AuthInv'
  BY <1>a, AuthMoves
<1>c. /\ pc[r] = "session" => cred[r] \in Sessions
      /\ cred[r] \in Keys /\ pc[r] \notin {"idle", "guard", "alert", "auth"}
           => cred[r] \in issued \cup revoked
      /\ Keys \cap Sessions = {} /\ Anonymous \notin Keys
  BY LedgerAssumption DEF AuthInv, Authentic
<1>1. ASSUME NEW c \in Callers, Arrive(r, c) \/ ArriveUnchecked(r, c) PROVE AuthInv'
  BY <1>a, <1>1
     DEF Arrive, ArriveUnchecked, Goto, SlotsOK, SlotTypeOK, AuthInv, Authentic,
         RowsRemembered
<1>2. CASE GuardDecides(r) \/ GuardAlert(r)
  BY <1>2, <1>b DEF GuardDecides, GuardAlert, GlobalVerdict
<1>3. CASE AuthAnonymous(r) \/ AuthSession(r) \/ AuthRejects(r)
  BY <1>3, <1>b, <1>c DEF AuthAnonymous, AuthSession, AuthRejects
<1>7. CASE AuthKey(r)
  <2>1. \E phase \in {"key", "org"} : ProceedIn(r, phase, RowZone(cred[r]))
    BY <1>7 DEF AuthKey
  <2>2. /\ cred[r] \in Keys \cap issued
        /\ KeyOrg[cred[r]] \in Orgs \/ ProceedIn(r, "key", RowZone(cred[r]))
    BY <1>7, LedgerAssumption DEF AuthKey, LedgerTypeOK
  <2> QED
    BY <1>b, <1>c, <2>1, <2>2
<1>4. CASE OrgDecides(r) \/ OrgUnchecked(r)
  BY <1>4, <1>b, <1>c DEF OrgDecides, OrgUnchecked
<1>5. CASE KeyDecides(r) \/ KeyVanished(r) \/ KeyUnchecked(r) \/ KeyZoneShift(r)
             \/ KeyAlert(r)
  BY <1>5, <1>b, <1>c DEF KeyDecides, KeyVanished, KeyUnchecked, KeyZoneShift, KeyAlert
<1>6. CASE SessionDecides(r) \/ SessionUnchecked(r)
  BY <1>6, <1>b, <1>c DEF SessionDecides, SessionUnchecked
<1> QED
  BY <1>1, <1>2, <1>3, <1>4, <1>5, <1>6, <1>7 DEF Check

(* So does serving it.                                                     *)
LEMMA ServeAuthentic ==
  ASSUME LedgerTypeOK, SlotsOK, AuthInv, NEW r \in Slots, Serve(r)
  PROVE  AuthInv'
<1>a. RowsRemembered
  <2>1. ASSUME NEW tokens \in {0, 1}, StreamChunk(r, tokens) PROVE RowsRemembered
    BY <2>1 DEF StreamChunk, keyVars, RowsRemembered
  <2> QED
    BY <2>1, RowsKept
       DEF Serve, EndUnbilled, AnswerBuffered, AnswerStream, StreamChunkUnchecked,
           StreamZoneShift, StreamAlert, StoreKeyZone, AnnounceKeyZone, StreamEnd,
           StreamClosed, Book, BookTorn,
           BookLost, BookInput, BookInputTorn, BookInputLost
<1>b. /\ Leave(r) => AuthInv'
      /\ \A phase \in Answered :
           pc[r] \in Answered /\ Proceed(r, phase) => AuthInv'
      /\ InputBooked(r) => AuthInv'
  BY <1>a, AuthMoves DEF AuthInv, Authentic, Answered
<1>1. ASSUME NEW cost \in 0 .. MaxCost, AnswerBuffered(r, cost) PROVE AuthInv'
  BY <1>a, <1>1
     DEF AnswerBuffered, Goto, SlotsOK, SlotTypeOK, AuthInv, Authentic, RowsRemembered
<1>2. CASE AnswerStream(r)
  BY <1>a, <1>2
     DEF AnswerStream, Goto, SlotsOK, SlotTypeOK, AuthInv, Authentic, RowsRemembered
<1>3. ASSUME NEW tokens \in {0, 1}, StreamChunk(r, tokens) PROVE AuthInv'
  <2>1. /\ pc[r] = "stream" /\ pc'[r] \in Answered /\ UNCHANGED <<cred, inputDue>>
        /\ \A q \in Slots \ {r} : pc'[q] = pc[q]
    BY <1>3 DEF StreamChunk, Goto, Answered, SlotsOK, SlotTypeOK
  <2> QED
    BY <1>a, <2>1 DEF AuthInv, Authentic, RowsRemembered, Answered
<1>4. ASSUME NEW tokens \in {0, 1}, StreamChunkUnchecked(r, tokens) PROVE AuthInv'
  BY <1>a, <1>4 DEF StreamChunkUnchecked, AuthInv, Authentic, RowsRemembered
<1>5. CASE StreamZoneShift(r) \/ StreamAlert(r) \/ StreamEnd(r)
  BY <1>5, <1>b DEF StreamZoneShift, StreamAlert, StreamEnd, Answered
<1>6. CASE Leave(r) \/ InputBooked(r)
  BY <1>6, <1>b
<1> QED
  BY <1>1, <1>2, <1>3, <1>4, <1>5, <1>6
     DEF Serve, EndUnbilled, StreamClosed, Book, BookTorn, BookLost, BookInput,
         BookInputTorn, BookInputLost

(* Whoever the gate serves has been authenticated.                         *)
LEMMA Authenticated == Spec => []AuthInv
<1>1. Init => AuthInv
  BY DEF Init, AuthInv, Authentic
<1>2. GateInv /\ AuthInv /\ [Next]_vars => AuthInv'
  <2> SUFFICES ASSUME GateInv, AuthInv, [Next]_vars PROVE AuthInv'
    OBVIOUS
  <2>1. LedgerTypeOK /\ SlotsOK
    BY InvParts
  <2>2. ASSUME NEW r \in Slots, Check(r) \/ Serve(r) PROVE AuthInv'
    BY <2>1, <2>2, CheckAuthentic, ServeAuthentic
  <2>3. CASE Die
    <3>1. Forget
      BY <2>3 DEF Die, Crash, CrashInBook
    <3> QED
      BY <3>1 DEF Forget, AuthInv, Authentic
  <2>4. CASE Administer \/ ResetBudget
    BY <2>1, <2>4, AuthMoves, RowsKept DEF Administer, ResetBudget, AuthInv, Authentic,
       slotVars, RowsRemembered
  <2>5. CASE UNCHANGED vars
    BY <2>5 DEF vars, ledgerVars, keyVars, slotVars, AuthInv, Authentic
  <2> QED
    BY <2>2, <2>3, <2>4, <2>5 DEF Next
<1> QED
  BY <1>1, <1>2, GateInvariant, PTL DEF Spec

----------------------------------------------------------------------------
(* How far above its line a budget can get.                                *)

\* CreditBound of SpendMeter for an amount, a line, the open items and the
\* waived checks of any budget.
Credit(amount, line, items, w) ==
  amount + MaxCost * Cardinality(items) < line + 2 * MaxCost * (Cardinality(Slots) + w)

(* The instances of SpendMeter count the same sets.                        *)
LEMMA CardinalityIsCardinality ==
  \A S : GlobalProofs!Cardinality(S) = Cardinality(S)
  BY DEF GlobalProofs!Cardinality, Cardinality

(* What the slots can hold open.                                           *)
LEMMA HeldIsBounded ==
  ASSUME NEW S \in SUBSET (Slots \X {"in", "out"})
  PROVE  /\ Cardinality(S) \in Nat
         /\ Cardinality(S) <= 2 * Cardinality(Slots)
         /\ \A T \in SUBSET S : T # S => Cardinality(T) + 1 <= Cardinality(S)
         /\ \A T \in SUBSET S : Cardinality(T) <= Cardinality(S)
         /\ \A r \in Slots :
              Cardinality(S \cup ({r} \X {"in", "out"})) <= Cardinality(S) + 2
<1>0. GlobalProofs!MeterAssumption
  BY SameCardinality, GlobalLine, GateAssumption DEF GlobalProofs!MeterAssumption
<1>1. GlobalProofs!Parts = {"in", "out"}
  BY DEF GlobalProofs!Parts
<1>2. IsFiniteSet(S) /\ Cardinality(S) \in Nat /\ Cardinality(S) <= 2 * Cardinality(Slots)
  BY <1>0, <1>1, GlobalProofs!OpenIsBounded, SameCardinality, CardinalityIsCardinality
<1>3. ASSUME NEW T \in SUBSET S, T # S PROVE Cardinality(T) + 1 <= Cardinality(S)
  <2>1. S \ T \in SUBSET S /\ S \ T # {} /\ S \ (S \ T) = T
    BY <1>3
  <2> QED
    BY <1>0, <1>1, <2>1, GlobalProofs!ClosingRemovesOne, CardinalityIsCardinality
<1>4. ASSUME NEW T \in SUBSET S PROVE Cardinality(T) <= Cardinality(S)
  BY <1>2, FS_Subset
<1>5. ASSUME NEW r \in Slots
      PROVE  Cardinality(S \cup ({r} \X {"in", "out"})) <= Cardinality(S) + 2
  BY <1>0, <1>1, GlobalProofs!OpeningAddsTwo, CardinalityIsCardinality
     DEF GlobalProofs!ItemsOf
<1> QED
  BY <1>2, <1>3, <1>4, <1>5

(* The arithmetic of a credit: x items before a step, y after it, n slots. *)
LEMMA CreditArithmetic ==
  ASSUME NEW m \in Nat, NEW n \in Nat, NEW x \in Nat, NEW y \in Nat, NEW a \in Nat,
         NEW b \in Nat, NEW w \in Nat, NEW v \in Nat, NEW line \in Nat,
         w <= v, y <= 2 * n
  PROVE  /\ b < line => b + m * y < line + 2 * m * (n + v)
         /\ /\ a + m * x < line + 2 * m * (n + w)
            /\ \/ b <= a /\ y <= x
               \/ b <= a + m /\ y + 1 <= x
               \/ b <= a /\ y <= x + 2 /\ w + 1 <= v
            => b + m * y < line + 2 * m * (n + v)
         /\ a + m * x < line + 2 * m * (n + w) => a < line + 2 * m * (n + w)
<1>0. GlobalProofs!MeterAssumption
  BY SameCardinality, GlobalLine, GateAssumption DEF GlobalProofs!MeterAssumption
<1>1. \A i, j \in Nat : /\ m * i \in Nat
                        /\ i <= j => m * i <= m * j
                        /\ m * (i + j) = m * i + m * j
  BY <1>0, GlobalProofs!Products
<1> DEFINE top == m * (2 * n + 2 * v)
           low == m * (2 * n + 2 * w)
<1>2. 2 * m * (n + v) = top /\ 2 * m * (n + w) = low
  BY SMT
<1>3. /\ m * x \in Nat /\ m * y \in Nat /\ top \in Nat /\ low \in Nat
      /\ m * y <= top /\ low <= top /\ m * 1 = m /\ m * 2 = m + m
  BY <1>1, 2 * n + 2 * v \in Nat, 2 * n + 2 * w \in Nat, y <= 2 * n + 2 * v,
     2 * n + 2 * w <= 2 * n + 2 * v, 1 + 1 = 2, 1 \in Nat, 2 \in Nat
<1>4. ASSUME y <= x PROVE m * y <= m * x
  BY <1>1, <1>4
<1>5. ASSUME y + 1 <= x PROVE m * y + m <= m * x
  BY <1>1, <1>3, <1>5, y + 1 \in Nat, 1 \in Nat
<1>6. ASSUME y <= x + 2 PROVE m * y <= m * x + (m + m)
  BY <1>1, <1>3, <1>6, x + 2 \in Nat, 2 \in Nat
<1>7. ASSUME w + 1 <= v PROVE low + (m + m) <= top
  <2>1. m * ((2 * n + 2 * w) + 2) = low + m * 2
    BY <1>1, 2 * n + 2 * w \in Nat, 2 \in Nat
  <2>2. (2 * n + 2 * w) + 2 <= 2 * n + 2 * v
    BY <1>7
  <2>3. m * ((2 * n + 2 * w) + 2) <= top
    BY <1>1, <2>2, (2 * n + 2 * w) + 2 \in Nat, 2 * n + 2 * v \in Nat
  <2> QED
    BY <1>3, <2>1, <2>3
<1> HIDE DEF top, low
<1>8. b < line => b + m * y < line + top
  BY <1>3
<1>9. ASSUME a + m * x < line + low, b <= a, y <= x PROVE b + m * y < line + top
  BY <1>3, <1>4, <1>9
<1>10. ASSUME a + m * x < line + low, b <= a + m, y + 1 <= x
       PROVE  b + m * y < line + top
  BY <1>3, <1>5, <1>10
<1>11. ASSUME a + m * x < line + low, b <= a, y <= x + 2, w + 1 <= v
       PROVE  b + m * y < line + top
  BY <1>3, <1>6, <1>7, <1>11
<1>12. a + m * x < line + low => a < line + low
  BY <1>3
<1> QED
  BY <1>2, <1>8, <1>9, <1>10, <1>11, <1>12

(* A credit holds after every step of a budget: one that finds or leaves   *)
(* the amount below the line, one that opens nothing and charges nothing,  *)
(* one that charges an item it closes, and one whose check was waived.     *)
LEMMA CreditKept ==
  ASSUME NEW X \in SUBSET (Slots \X {"in", "out"}),
         NEW Y \in SUBSET (Slots \X {"in", "out"}),
         NEW a \in Nat, NEW b \in Nat, NEW w \in Nat, NEW v \in Nat, NEW line \in Nat,
         w <= v
  PROVE  /\ b < line => Credit(b, line, Y, v)
         /\ /\ Credit(a, line, X, w)
            /\ \/ b <= a /\ Y \subseteq X
               \/ b <= a + MaxCost /\ Y \subseteq X /\ Y # X
               \/ \E r \in Slots :
                    b <= a /\ Y \subseteq X \cup ({r} \X {"in", "out"}) /\ w + 1 <= v
            => Credit(b, line, Y, v)
         /\ Credit(a, line, X, w) => a < line + 2 * MaxCost * (Cardinality(Slots) + w)
<1> DEFINE n == Cardinality(Slots)
           x == Cardinality(X)
           y == Cardinality(Y)
<1>1. n \in Nat /\ x \in Nat /\ y \in Nat /\ y <= 2 * n /\ MaxCost \in Nat
  BY HeldIsBounded, GateAssumption, FS_CardinalityType
<1>2. Y \subseteq X => y <= x
  BY HeldIsBounded
<1>3. Y \subseteq X /\ Y # X => y + 1 <= x
  BY HeldIsBounded
<1>4. ASSUME NEW r \in Slots, Y \subseteq X \cup ({r} \X {"in", "out"})
      PROVE  y <= x + 2
  <2> DEFINE Z == X \cup ({r} \X {"in", "out"})
  <2>1. Z \in SUBSET (Slots \X {"in", "out"}) /\ Y \in SUBSET Z
    BY <1>4
  <2>2. Cardinality(Z) \in Nat /\ y <= Cardinality(Z) /\ Cardinality(Z) <= x + 2
    BY <2>1, HeldIsBounded
  <2> QED
    BY <1>1, <2>2
<1> HIDE DEF n, x, y
<1>5. /\ b < line => b + MaxCost * y < line + 2 * MaxCost * (n + v)
      /\ /\ a + MaxCost * x < line + 2 * MaxCost * (n + w)
         /\ \/ b <= a /\ y <= x
            \/ b <= a + MaxCost /\ y + 1 <= x
            \/ b <= a /\ y <= x + 2 /\ w + 1 <= v
         => b + MaxCost * y < line + 2 * MaxCost * (n + v)
      /\ a + MaxCost * x < line + 2 * MaxCost * (n + w)
           => a < line + 2 * MaxCost * (n + w)
  BY <1>1, CreditArithmetic
<1> QED
  BY <1>2, <1>3, <1>4, <1>5 DEF Credit, n, x, y

(* A budget nobody has used has its credit.                                *)
LEMMA CreditUnused ==
  ASSUME NEW line \in Nat \ {0}
  PROVE  Credit(0, line, {}, 0)
<1>1. /\ {} \in SUBSET (Slots \X {"in", "out"}) /\ 0 \in Nat /\ 0 <= 0
      /\ line \in Nat /\ 0 < line
  OBVIOUS
<1> QED
  BY <1>1, CreditKept

(* A budget with its credit is overspent by the excess at most.            *)
LEMMA CreditBounds ==
  ASSUME NEW X \in SUBSET (Slots \X {"in", "out"}), NEW a \in Nat, NEW w \in Nat,
         NEW line \in Nat \ {0}, Credit(a, line, X, w)
  PROVE  a < line + 2 * MaxCost * (Cardinality(Slots) + w)
  BY CreditKept

(* Two sets of slots make a set of items, and can be told from it.         *)
LEMMA ItemsOfTwo ==
  ASSUME NEW A, NEW B, NEW C, NEW D
  PROVE  /\ A \subseteq C /\ B \subseteq D
              => (A \X {"out"}) \cup (B \X {"in"}) \subseteq (C \X {"out"}) \cup (D \X {"in"})
         /\ (A \X {"out"}) \cup (B \X {"in"}) = (C \X {"out"}) \cup (D \X {"in"})
              => A = C /\ B = D
<1> DEFINE S == (A \X {"out"}) \cup (B \X {"in"})
           T == (C \X {"out"}) \cup (D \X {"in"})
<1>1. \A q : /\ q \in A <=> <<q, "out">> \in S
             /\ q \in C <=> <<q, "out">> \in T
             /\ q \in B <=> <<q, "in">> \in S
             /\ q \in D <=> <<q, "in">> \in T
  OBVIOUS
<1>2. S = T => A = C /\ B = D
  <2> HIDE DEF S, T
  <2> QED
    BY <1>1
<1> QED
  BY <1>2

----------------------------------------------------------------------------
(* The budget of every key implements the abstract breaker.                *)

\* The slots whose input is open for key k; those whose output is are the
\* KeyPassed ones.
KeyUnbilled(k) ==
  {r \in KeyPassed(k) : pc[r] \notin Answered}
    \cup {r \in inputDue : cred[r] = k /\ k \in issued}

NothingOpensFor(k) ==
  KeyPassed(k)' \subseteq KeyPassed(k) /\ KeyUnbilled(k)' \subseteq KeyUnbilled(k)

KeyStep(k) == KeyMeter(k)!MeterNext \/ UNCHANGED KeyMeter(k)!meterVars

(* A step that opens nothing for a key and charges it at most MaxCost,     *)
(* closing an item if it charges, is a step of its breaker.                *)
LEMMA KeyClosing ==
  ASSUME NEW k \in Keys, NothingOpensFor(k), NEW c \in 0 .. MaxCost,
         keyConsumed'[k] = keyConsumed[k] + c, keyConsumed[k] \in Nat,
         waived'[k] = waived[k],
         c = 0 \/ KeyPassed(k)' # KeyPassed(k) \/ KeyUnbilled(k)' # KeyUnbilled(k)
  PROVE  KeyStep(k)
<1>1. KeyOpen(k) = (KeyPassed(k) \X {"out"}) \cup (KeyUnbilled(k) \X {"in"})
  BY DEF KeyOpen, OpenItems, KeyUnbilled
<1>2. KeyOpen(k)' = (KeyPassed(k)' \X {"out"}) \cup (KeyUnbilled(k)' \X {"in"})
  BY DEF KeyOpen, OpenItems, KeyUnbilled
<1>3. KeyOpen(k)' \subseteq KeyOpen(k)
  BY <1>1, <1>2, ItemsOfTwo DEF NothingOpensFor
<1>4. CASE KeyOpen(k)' = KeyOpen(k)
  <2>1. KeyPassed(k)' = KeyPassed(k) /\ KeyUnbilled(k)' = KeyUnbilled(k)
    BY <1>1, <1>2, <1>4, ItemsOfTwo
  <2>2. keyConsumed'[k] = keyConsumed[k]
    BY <2>1
  <2> QED
    BY <1>4, <2>2 DEF KeyStep, KeyMeter!meterVars
<1>5. CASE KeyOpen(k)' # KeyOpen(k)
  <2> DEFINE items == KeyOpen(k) \ KeyOpen(k)'
  <2>1. items \in SUBSET KeyOpen(k) /\ items # {} /\ KeyOpen(k)' = KeyOpen(k) \ items
    BY <1>3, <1>5
  <2>2. KeyMeter(k)!Close(items, c)
    BY <2>1 DEF KeyMeter!Close
  <2> QED
    BY <2>1, <2>2 DEF KeyStep, KeyMeter!MeterNext
<1> QED
  BY <1>4, <1>5

(* A step that charges the key nothing and opens nothing for it.           *)
LEMMA KeyQuiet ==
  ASSUME LedgerTypeOK, NEW k \in Keys, NothingOpensFor(k),
         keyConsumed'[k] = keyConsumed[k], waived'[k] = waived[k]
  PROVE  KeyStep(k)
<1>1. /\ keyConsumed[k] \in Nat /\ keyConsumed'[k] = keyConsumed[k] + 0
      /\ 0 \in 0 .. MaxCost
  BY GateAssumption DEF LedgerTypeOK
<1> QED
  BY <1>1, KeyClosing

(* What the moves of a slot do to the open items of a key.                 *)
LEMMA KeyMoves ==
  ASSUME SlotsOK, NEW k \in Keys, NEW r \in Slots, issued' = issued
  PROVE  /\ Leave(r) => NothingOpensFor(k) /\ r \notin KeyPassed(k)'
         /\ \A phase, z :
              /\ \/ cred[r] # k
                 \/ r \in KeyPassed(k) /\ (pc[r] \in Answered => phase \in Answered)
                 \/ phase \notin Answered \cup {"keyzone", "keyalert", "forward"}
                 \/ k \notin issued
              /\ Proceed(r, phase) \/ ProceedIn(r, phase, z)
              => NothingOpensFor(k)
         /\ r \in inputDue /\ InputBooked(r)
              => /\ NothingOpensFor(k)
                 /\ cred[r] = k /\ k \in issued
                      => r \in KeyUnbilled(k) /\ r \notin KeyUnbilled(k)'
         /\ UNCHANGED slotVars => NothingOpensFor(k)
<1> USE DEF SlotsOK, SlotTypeOK, NothingOpensFor, KeyPassed, KeyUnbilled, Goto
<1>1. ASSUME Leave(r) PROVE NothingOpensFor(k) /\ r \notin KeyPassed(k)'
  BY <1>1, LedgerAssumption DEF Leave, Answered
<1>2. ASSUME NEW phase, NEW z,
             \/ cred[r] # k
             \/ r \in KeyPassed(k) /\ (pc[r] \in Answered => phase \in Answered)
             \/ phase \notin Answered \cup {"keyzone", "keyalert", "forward"}
             \/ k \notin issued,
             Proceed(r, phase) \/ ProceedIn(r, phase, z)
      PROVE  NothingOpensFor(k)
  BY <1>2 DEF Proceed, ProceedIn
<1>3. ASSUME r \in inputDue, InputBooked(r)
      PROVE  /\ NothingOpensFor(k)
             /\ cred[r] = k /\ k \in issued
                  => r \in KeyUnbilled(k) /\ r \notin KeyUnbilled(k)'
  BY <1>3, LedgerAssumption DEF InputBooked, SlotInv, Answered
<1>4. ASSUME UNCHANGED slotVars PROVE NothingOpensFor(k)
  BY <1>4 DEF slotVars
<1> QED
  BY <1>1, <1>2, <1>3, <1>4

(* When the process dies, or the key has no row any more or not yet,       *)
(* nothing is open for it.                                                 *)
LEMMA NobodyServed ==
  ASSUME NEW k \in Keys
  PROVE  /\ Forget => KeyPassed(k)' = {} /\ KeyUnbilled(k)' = {}
         /\ k \notin issued' => KeyPassed(k)' = {} /\ KeyUnbilled(k)' = {}
  BY DEF Forget, KeyPassed, KeyUnbilled, Answered

(* The line of a key is above zero.                                        *)
LEMMA KeyLine ==
  ASSUME NEW k \in Keys
  PROVE  Allocated[k] \in Nat \ {0} /\ RedLine(Allocated[k]) \in Nat \ {0}
<1>1. Allocated[k] \in Nat \ {0}
  BY GateAssumption
<1> QED
  BY <1>1, GateAssumption, SMT DEF RedLine, Threshold

(* What leaves the amount of a key and its waived checks as they are.      *)
LEMMA KeyUntouched ==
  ASSUME FaultTypeOK, NEW k \in Keys
  PROVE  /\ UNCHANGED ledgerVars => UNCHANGED <<keyConsumed, issued>>
         /\ \A s : EnsureSession(s) => UNCHANGED <<keyConsumed, issued>>
         /\ \A x, z : UpdateVirtualKeyZone(x, z) => UNCHANGED <<keyConsumed, issued>>
         /\ NoFault => waived' = waived
         /\ \A s : s # k /\ FailOpen(s) => waived'[k] = waived[k]
  BY DEF ledgerVars, keyVars, EnsureSession, UpdateVirtualKeyZone, NoFault,
         faultVars, FailOpen, FaultTypeOK, Scopes

(* Every decision of a request is, for key k, an admission below its line, *)
(* a waived one, or closes what the request held open.                     *)
LEMMA CheckKey ==
  ASSUME LedgerTypeOK, SlotsOK, FaultTypeOK, AuthInv, NEW r \in Slots, Check(r),
         NEW k \in Keys
  PROVE  KeyStep(k)
<1>a. /\ UNCHANGED ledgerVars => UNCHANGED <<keyConsumed, issued>>
      /\ \A s : EnsureSession(s) => UNCHANGED <<keyConsumed, issued>>
      /\ \A x, z : UpdateVirtualKeyZone(x, z) => UNCHANGED <<keyConsumed, issued>>
      /\ NoFault => waived'[k] = waived[k]
      /\ \A s : s # k /\ FailOpen(s) => waived'[k] = waived[k]
  BY KeyUntouched
<1>b. /\ issued' = issued /\ Leave(r) => NothingOpensFor(k)
      /\ \A phase, z :
           /\ issued' = issued
           /\ \/ cred[r] # k
              \/ r \in KeyPassed(k) /\ (pc[r] \in Answered => phase \in Answered)
              \/ phase \notin Answered \cup {"keyzone", "keyalert", "forward"}
              \/ k \notin issued
           /\ Proceed(r, phase) \/ ProceedIn(r, phase, z)
           => NothingOpensFor(k)
  BY KeyMoves
<1>c. NothingOpensFor(k) /\ keyConsumed'[k] = keyConsumed[k] /\ waived'[k] = waived[k]
        => KeyStep(k)
  BY KeyQuiet
<1>d. /\ pc[r] = "session" => cred[r] \in Sessions
      /\ Keys \cap Sessions = {} /\ Anonymous \notin Keys
      /\ Orgs \cap Keys = {}
  BY LedgerAssumption, GateAssumption DEF AuthInv, Authentic
<1>1. ASSUME NEW c \in Callers, Arrive(r, c) \/ ArriveUnchecked(r, c) PROVE KeyStep(k)
  <2>1. NothingOpensFor(k)
    BY <1>1 DEF Arrive, ArriveUnchecked, NothingOpensFor, KeyPassed, KeyUnbilled, Goto,
                SlotsOK, SlotTypeOK, Answered, ledgerVars, keyVars
  <2>2. k # Global
    BY GateAssumption DEF Clients
  <2> QED
    BY <1>1, <1>a, <1>c, <2>1, <2>2 DEF Arrive, ArriveUnchecked
<1>2. CASE GuardDecides(r) \/ GuardAlert(r)
  <2>1. NothingOpensFor(k)
    BY <1>2, <1>a, <1>b DEF GuardDecides, GuardAlert, GlobalVerdict, Answered
  <2> QED
    BY <1>2, <1>a, <1>c, <2>1 DEF GuardDecides, GuardAlert
<1>3. CASE AuthAnonymous(r) \/ AuthSession(r) \/ AuthRejects(r)
  BY <1>3, <1>a, <1>b, <1>c, <1>d DEF AuthAnonymous, AuthSession, AuthRejects, Answered
<1>4. CASE AuthKey(r)
  <2>1. \E phase \in {"key", "org"} : ProceedIn(r, phase, RowZone(cred[r]))
    BY <1>4 DEF AuthKey
  <2> QED
    BY <1>4, <1>a, <1>b, <1>c, <2>1 DEF AuthKey, Answered
<1>5. CASE OrgDecides(r)
  BY <1>5, <1>a, <1>b, <1>c DEF OrgDecides, Answered
<1>6. CASE OrgUnchecked(r)
  <2>1. KeyOrg[cred[r]] # k
    BY <1>6, <1>d DEF OrgUnchecked, AuthInv, Authentic
  <2> QED
    BY <1>6, <2>1, <1>a, <1>b, <1>c DEF OrgUnchecked, Answered
<1>7. CASE KeyDecides(r)
  <2>0. UNCHANGED <<keyConsumed, issued>> /\ waived'[k] = waived[k]
    BY <1>7, <1>a DEF KeyDecides
  <2>1. CASE cred[r] # k
    BY <1>7, <2>0, <2>1, <1>b, <1>c DEF KeyDecides
  <2>2. CASE cred[r] = k /\ KeyZone(k) = "RED"
    <3>1. NothingOpensFor(k)
      BY <1>7, <2>0, <2>2, <1>b
         DEF KeyDecides, ProceedIn, NothingOpensFor, KeyPassed, KeyUnbilled, Goto,
             SlotsOK, SlotTypeOK, Answered
    <3> QED
      BY <2>0, <3>1, <1>c
  <2>3. CASE cred[r] = k /\ KeyZone(k) # "RED"
    <3>1. ~(keyConsumed[k] >= RedLine(Allocated[k]))
      BY <2>3 DEF KeyZone, ZoneOf, RedLine
    <3>2. keyConsumed[k] < RedLine(Allocated[k])
      BY <3>1, KeyLine DEF LedgerTypeOK
    <3>3. \E phase \in {"keyzone", "forward"} : ProceedIn(r, phase, KeyZone(k))
      BY <1>7, <2>3 DEF KeyDecides
    <3>4. pc[r] = "key" /\ k \in issued
      BY <1>7, <2>3 DEF KeyDecides
    <3>5. /\ KeyPassed(k)' = KeyPassed(k) \cup {r}
          /\ KeyUnbilled(k)' = KeyUnbilled(k) \cup {r}
      BY <2>0, <2>3, <3>3, <3>4
         DEF ProceedIn, KeyPassed, KeyUnbilled, Goto, SlotsOK, SlotTypeOK, Answered
    <3>6. KeyOpen(k)' = KeyOpen(k) \cup ({r} \X {"in", "out"})
      BY <3>5 DEF KeyOpen, OpenItems, KeyUnbilled
    <3>7. KeyMeter(k)!Admit(r)
      BY <2>0, <3>2, <3>6 DEF KeyMeter!Admit, KeyMeter!ItemsOf, KeyMeter!Parts
    <3> QED
      BY <3>7 DEF KeyStep, KeyMeter!MeterNext
  <2> QED
    BY <2>1, <2>2, <2>3
<1>8. CASE KeyVanished(r)
  BY <1>8, <1>a, <1>b, <1>c DEF KeyVanished
<1>9. CASE KeyUnchecked(r)
  <2>1. CASE cred[r] # k
    BY <1>9, <2>1, <1>a, <1>b, <1>c DEF KeyUnchecked
  <2>2. CASE cred[r] = k
    <3>0. UNCHANGED <<keyConsumed, issued>> /\ pc[r] = "key" /\ k \in issued
      BY <1>9, <2>2, <1>a DEF KeyUnchecked
    <3>1. /\ KeyPassed(k)' = KeyPassed(k) \cup {r}
          /\ KeyUnbilled(k)' = KeyUnbilled(k) \cup {r}
      BY <1>9, <2>2, <3>0
         DEF KeyUnchecked, Proceed, KeyPassed, KeyUnbilled, Goto, SlotsOK, SlotTypeOK,
             Answered
    <3>2. KeyOpen(k)' = KeyOpen(k) \cup ({r} \X {"in", "out"})
      BY <3>1 DEF KeyOpen, OpenItems, KeyUnbilled
    <3>3. waived'[k] = waived[k] + 1
      BY <1>9, <2>2 DEF KeyUnchecked, FailOpen, FaultTypeOK, Scopes
    <3>4. KeyMeter(k)!Waive(r)
      BY <3>0, <3>2, <3>3 DEF KeyMeter!Waive, KeyMeter!ItemsOf, KeyMeter!Parts
    <3> QED
      BY <3>4 DEF KeyStep, KeyMeter!MeterNext
  <2> QED
    BY <2>1, <2>2
<1>10. CASE KeyZoneShift(r) \/ KeyAlert(r)
  <2>0. UNCHANGED <<keyConsumed, issued>> /\ waived'[k] = waived[k]
    BY <1>10, <1>a DEF KeyZoneShift, KeyAlert, StoreKeyZone, AnnounceKeyZone
  <2>1. CASE cred[r] # k \/ k \notin issued
    BY <1>10, <2>0, <2>1, <1>b, <1>c DEF KeyZoneShift, KeyAlert
  <2>2. CASE zone[r] # "RED" /\ cred[r] = k /\ k \in issued
    <3>1. r \in KeyPassed(k) /\ pc[r] \notin Answered
      BY <1>10, <2>2 DEF KeyZoneShift, KeyAlert, KeyPassed, Answered
    <3> QED
      BY <1>10, <2>0, <2>2, <3>1, <1>b, <1>c DEF KeyZoneShift, KeyAlert
  <2>3. CASE zone[r] = "RED" /\ KeyAlert(r)
    BY <2>0, <2>3, <1>b, <1>c DEF KeyAlert
  <2>4. CASE zone[r] = "RED" /\ KeyZoneShift(r)
    <3>1. NothingOpensFor(k)
      BY <2>0, <2>4
         DEF KeyZoneShift, Proceed, Goto, NothingOpensFor, KeyPassed, KeyUnbilled,
             SlotsOK, SlotTypeOK, Answered
    <3> QED
      BY <2>0, <3>1, <1>c
  <2> QED
    BY <1>10, <2>1, <2>2, <2>3, <2>4
<1>11. CASE SessionDecides(r) \/ SessionUnchecked(r)
  <2>1. cred[r] # k
    BY <1>11, <1>d DEF SessionDecides, SessionUnchecked
  <2> QED
    BY <1>11, <2>1, <1>a, <1>b, <1>c DEF SessionDecides, SessionUnchecked
<1> QED
  BY <1>1, <1>2, <1>3, <1>4, <1>5, <1>6, <1>7, <1>8, <1>9, <1>10, <1>11 DEF Check

(* What is charged to a key closes the item it is charged for.             *)
LEMMA ServeKey ==
  ASSUME LedgerTypeOK, SlotsOK, FaultTypeOK, NEW r \in Slots, Serve(r), NEW k \in Keys
  PROVE  KeyStep(k)
<1>a. /\ UNCHANGED ledgerVars => UNCHANGED <<keyConsumed, issued>>
      /\ \A x, z : UpdateVirtualKeyZone(x, z) => UNCHANGED <<keyConsumed, issued>>
      /\ NoFault => waived'[k] = waived[k]
  BY KeyUntouched
<1>b. /\ issued' = issued /\ Leave(r) => NothingOpensFor(k) /\ r \notin KeyPassed(k)'
      /\ issued' = issued /\ r \in inputDue /\ InputBooked(r)
           => /\ NothingOpensFor(k)
              /\ cred[r] = k /\ k \in issued
                   => r \in KeyUnbilled(k) /\ r \notin KeyUnbilled(k)'
      /\ \A phase \in Answered :
           issued' = issued /\ pc[r] \in Answered /\ Proceed(r, phase)
             => NothingOpensFor(k)
  BY KeyMoves DEF KeyPassed
<1>c. NothingOpensFor(k) /\ keyConsumed'[k] = keyConsumed[k] /\ waived'[k] = waived[k]
        => KeyStep(k)
  BY KeyQuiet
<1>d. \A cost \in 0 .. MaxCost : \A done :
        /\ RecordTransaction(cred[r], cost, done)
        /\ NothingOpensFor(k) /\ waived'[k] = waived[k]
        /\ cred[r] = k /\ k \in issued
             => KeyPassed(k)' # KeyPassed(k) \/ KeyUnbilled(k)' # KeyUnbilled(k)
        => KeyStep(k)
  <2> SUFFICES ASSUME NEW cost \in 0 .. MaxCost, NEW done,
                      RecordTransaction(cred[r], cost, done),
                      NothingOpensFor(k), waived'[k] = waived[k],
                      cred[r] = k /\ k \in issued
                        => KeyPassed(k)' # KeyPassed(k) \/ KeyUnbilled(k)' # KeyUnbilled(k)
               PROVE  KeyStep(k)
    OBVIOUS
  <2>1. keyConsumed[k] \in Nat
    BY DEF LedgerTypeOK
  <2>2. CASE cred[r] = k /\ k \in issued /\ "vkey" \in done
    <3>1. keyConsumed'[k] = keyConsumed[k] + cost
      BY <2>2 DEF RecordTransaction
    <3> QED
      BY <2>1, <2>2, <3>1, KeyClosing
  <2>3. CASE ~(cred[r] = k /\ k \in issued /\ "vkey" \in done)
    <3>1. keyConsumed'[k] = keyConsumed[k]
      BY <2>1, <2>3 DEF RecordTransaction
    <3> QED
      BY <3>1, <1>c
  <2> QED
    BY <2>2, <2>3
<1>e. /\ bill[r] \in 0 .. MaxCost
      /\ \A c, cost, done : RecordTransaction(c, cost, done) => issued' = issued
      /\ pc[r] = "bill" /\ cred[r] = k /\ k \in issued => r \in KeyPassed(k)
  BY DEF SlotsOK, SlotTypeOK, RecordTransaction, KeyPassed, Answered
<1>1. CASE EndUnbilled(r) \/ StreamClosed(r)
  BY <1>1, <1>a, <1>b, <1>c DEF EndUnbilled, StreamClosed
<1>2. ASSUME NEW cost \in 0 .. MaxCost, AnswerBuffered(r, cost) PROVE KeyStep(k)
  <2>1. NothingOpensFor(k) /\ keyConsumed' = keyConsumed
    BY <1>2, <1>a DEF AnswerBuffered, NothingOpensFor, KeyPassed, KeyUnbilled, Goto,
                      Answered, SlotsOK, SlotTypeOK
  <2> QED
    BY <1>2, <1>a, <1>c, <2>1 DEF AnswerBuffered
<1>3. CASE AnswerStream(r)
  <2>1. NothingOpensFor(k) /\ keyConsumed' = keyConsumed
    BY <1>3, <1>a DEF AnswerStream, NothingOpensFor, KeyPassed, KeyUnbilled, Goto,
                      Answered, SlotsOK, SlotTypeOK
  <2> QED
    BY <1>3, <1>a, <1>c, <2>1 DEF AnswerStream
<1>4. ASSUME NEW tokens \in {0, 1}, StreamChunk(r, tokens) PROVE KeyStep(k)
  <2>1. /\ pc[r] = "stream" /\ pc'[r] \in Answered
        /\ UNCHANGED <<cred, inputDue, keyConsumed, issued>>
        /\ \A q \in Slots \ {r} : pc'[q] = pc[q] /\ zone'[q] = zone[q]
    BY <1>4 DEF StreamChunk, Goto, Answered, SlotsOK, SlotTypeOK, keyVars
  <2>2. NothingOpensFor(k)
    BY <2>1 DEF NothingOpensFor, KeyPassed, KeyUnbilled, Answered
  <2> QED
    BY <1>4, <1>a, <1>c, <2>1, <2>2 DEF StreamChunk
<1>5. ASSUME NEW tokens \in {0, 1}, StreamChunkUnchecked(r, tokens) PROVE KeyStep(k)
  <2>1. NothingOpensFor(k) /\ keyConsumed' = keyConsumed
    BY <1>5, <1>a DEF StreamChunkUnchecked, NothingOpensFor, KeyPassed, KeyUnbilled
  <2> QED
    BY <1>5, <1>c, <2>1 DEF StreamChunkUnchecked
<1>6. CASE StreamZoneShift(r) \/ StreamAlert(r)
  <2>1. UNCHANGED <<keyConsumed, issued>> /\ waived'[k] = waived[k]
    BY <1>6, <1>a DEF StreamZoneShift, StreamAlert, StoreKeyZone, AnnounceKeyZone
  <2> QED
    BY <1>6, <1>b, <1>c, <2>1 DEF StreamZoneShift, StreamAlert, Answered
<1>7. CASE StreamEnd(r)
  BY <1>7, <1>a, <1>b, <1>c DEF StreamEnd, Answered
<1>8. CASE Book(r)
  BY <1>8, <1>a, <1>b, <1>d, <1>e DEF Book
<1>9. CASE BookLost(r)
  BY <1>9, <1>a, <1>b, <1>c DEF BookLost
<1>10. ASSUME NEW done \in SUBSET Statements, BookTorn(r, done) PROVE KeyStep(k)
  BY <1>10, <1>b, <1>d, <1>e DEF BookTorn
<1>11. ASSUME NEW cost \in 0 .. MaxCost, BookInput(r, cost) PROVE KeyStep(k)
  BY <1>11, <1>a, <1>b, <1>d, <1>e DEF BookInput
<1>12. ASSUME NEW cost \in 0 .. MaxCost, NEW done \in SUBSET Statements,
              BookInputTorn(r, cost, done)
       PROVE  KeyStep(k)
  BY <1>12, <1>b, <1>d, <1>e DEF BookInputTorn
<1>13. CASE BookInputLost(r)
  BY <1>13, <1>a, <1>b, <1>c DEF BookInputLost
<1> QED
  BY <1>1, <1>2, <1>3, <1>4, <1>5, <1>6, <1>7, <1>8, <1>9, <1>10, <1>11, <1>12,
     <1>13 DEF Serve

(* Crashes drop every open item of a key.                                  *)
LEMMA DieKey ==
  ASSUME LedgerTypeOK, SlotsOK, Die, NEW k \in Keys
  PROVE  KeyStep(k)
<1>a. KeyPassed(k)' = {} /\ KeyUnbilled(k)' = {} /\ waived'[k] = waived[k]
  BY NobodyServed DEF Die, Crash, CrashInBook, Forget
<1>b. NothingOpensFor(k)
  BY <1>a DEF NothingOpensFor
<1>c. keyConsumed'[k] = keyConsumed[k] => KeyStep(k)
  BY <1>a, <1>b, KeyQuiet
<1>1. CASE Crash
  BY <1>1, <1>c DEF Crash, ledgerVars, keyVars
<1>2. ASSUME NEW r \in Slots, NEW cost \in 0 .. MaxCost, NEW done,
             CrashInBook(r, cost, done)
      PROVE  KeyStep(k)
  <2>1. CASE cred[r] = k /\ k \in issued /\ "vkey" \in done
    <3>1. keyConsumed'[k] = keyConsumed[k] + cost /\ keyConsumed[k] \in Nat
      BY <1>2, <2>1 DEF CrashInBook, RecordTransaction, LedgerTypeOK
    <3>2. r \in KeyPassed(k) \/ r \in KeyUnbilled(k)
      BY <1>2, <2>1 DEF CrashInBook, KeyPassed, KeyUnbilled, Answered
    <3> QED
      BY <1>a, <1>b, <3>1, <3>2, KeyClosing
  <2>2. CASE ~(cred[r] = k /\ k \in issued /\ "vkey" \in done)
    <3>1. keyConsumed'[k] = keyConsumed[k]
      BY <1>2, <2>2 DEF CrashInBook, RecordTransaction, LedgerTypeOK
    <3> QED
      BY <3>1, <1>c
  <2> QED
    BY <2>1, <2>2
<1> QED
  BY <1>1, <1>2 DEF Die

(* The operator opens nothing either: no slot serves a key without a row,  *)
(* and none is left that would serve a key whose row was just created.     *)
LEMMA OperatorKey ==
  ASSUME LedgerTypeOK, SlotsOK, AuthInv, Administer \/ ResetBudget, NEW k \in Keys
  PROVE  KeyStep(k)
<1>a. keyConsumed' = keyConsumed /\ waived' = waived /\ UNCHANGED slotVars
  BY DEF Administer, ResetBudget, Reset, RegisterVirtualKey, RevokeVirtualKey,
         CreateOrganization, DeleteOrganization, keyVars, NoFault, faultVars
<1>1. CASE k \notin issued'
  BY <1>1, <1>a, NobodyServed, KeyQuiet DEF NothingOpensFor
<1>2. CASE k \in issued' /\ k \in issued
  BY <1>2, <1>a, KeyQuiet DEF slotVars, NothingOpensFor, KeyPassed, KeyUnbilled
<1>3. CASE k \notin issued \cup revoked
  <2>1. KeyPassed(k)' = {} /\ KeyUnbilled(k)' = {}
    BY <1>3, <1>a DEF slotVars, KeyPassed, KeyUnbilled, Answered, AuthInv, Authentic,
                      SlotsOK, SlotTypeOK
  <2> QED
    BY <1>a, <2>1, KeyQuiet DEF NothingOpensFor
<1>4. k \in issued' => k \in issued \/ k \notin issued \cup revoked
  BY DEF Administer, ResetBudget, Reset, RegisterVirtualKey, RevokeVirtualKey,
         CreateOrganization, DeleteOrganization, keyVars
<1> QED
  BY <1>1, <1>2, <1>3, <1>4

(* Every step is, for every key, a step of its breaker or a stutter.       *)
LEMMA KeysStep ==
  ASSUME GateInv, AuthInv, [Next]_vars, NEW k \in Keys
  PROVE  KeyStep(k)
<1>1. LedgerTypeOK /\ SlotsOK /\ FaultTypeOK
  BY InvParts
<1>2. ASSUME NEW r \in Slots, Check(r) \/ Serve(r) PROVE KeyStep(k)
  BY <1>1, <1>2, CheckKey, ServeKey
<1>3. CASE Die
  BY <1>1, <1>3, DieKey
<1>4. CASE Administer \/ ResetBudget
  BY <1>1, <1>4, OperatorKey
<1>5. CASE UNCHANGED vars
  <2>1. NothingOpensFor(k) /\ keyConsumed' = keyConsumed /\ waived' = waived
    BY <1>5 DEF vars, ledgerVars, keyVars, slotVars, faultVars, NothingOpensFor,
                KeyPassed, KeyUnbilled
  <2> QED
    BY <1>1, <2>1, KeyQuiet
<1> QED
  BY <1>2, <1>3, <1>4, <1>5 DEF Next

(* Every key has its own breaker: whatever the interleaving, the operator  *)
(* and the faults, CheckVirtualKeyBudget admits only below the line of the *)
(* key, and what is admitted is charged to the key at most once.           *)
THEOREM KeysImplementBreaker == Spec => KeyBreaker
<1>1. Init => \A k \in Keys : KeyMeter(k)!MeterInit
  BY DEF Init, LedgerInit, KeyMeter!MeterInit, KeyOpen, OpenItems, KeyPassed, Answered,
         Scopes
<1>2. GateInv /\ AuthInv /\ [Next]_vars
        => [\A k \in Keys : KeyMeter(k)!MeterNext \/ UNCHANGED KeyMeter(k)!meterVars]_vars
  BY KeysStep DEF KeyStep
<1> QED
  BY <1>1, <1>2, GateInvariant, Authenticated, PTL DEF Spec, KeyBreaker

\* OverspendBound of the breaker of every key.
KeyOverspendBound == \A k \in Keys : KeyMeter(k)!OverspendBound

KeyCredit ==
  \A k \in Keys : Credit(keyConsumed[k], RedLine(Allocated[k]), KeyOpen(k), waived[k])

(* A step of the breaker of a key keeps its credit.                        *)
LEMMA KeyStepCredit ==
  ASSUME LedgerTypeOK, LedgerTypeOK', SlotsOK, SlotsOK', FaultTypeOK, FaultTypeOK',
         NEW k \in Keys, KeyStep(k),
         Credit(keyConsumed[k], RedLine(Allocated[k]), KeyOpen(k), waived[k])
  PROVE  Credit(keyConsumed[k], RedLine(Allocated[k]), KeyOpen(k), waived[k])'
<1> DEFINE X == KeyOpen(k)
           Y == KeyOpen(k)'
           a == keyConsumed[k]
           b == keyConsumed'[k]
           w == waived[k]
           v == waived'[k]
           line == RedLine(Allocated[k])
<1>1. /\ X \in SUBSET (Slots \X {"in", "out"}) /\ Y \in SUBSET (Slots \X {"in", "out"})
      /\ a \in Nat /\ b \in Nat /\ w \in Nat /\ v \in Nat /\ line \in Nat \ {0}
  BY KeyLine DEF LedgerTypeOK, FaultTypeOK, Scopes, SlotsOK, SlotTypeOK, KeyOpen,
                 OpenItems, KeyPassed
<1> DEFINE Moves ==
      \/ a < line /\ b = a /\ v = w
      \/ b = 0 /\ v = w
      \/ b = a /\ Y = X /\ v = w
      \/ b <= a + MaxCost /\ Y \subseteq X /\ Y # X /\ v = w
      \/ \E r \in Slots : b = a /\ Y = X \cup ({r} \X {"in", "out"}) /\ v = w + 1
<1>2. Moves
  <2>1. ASSUME NEW r \in Slots, KeyMeter(k)!Admit(r) PROVE Moves
    BY <2>1 DEF KeyMeter!Admit
  <2>2. ASSUME NEW r \in Slots, KeyMeter(k)!Waive(r) PROVE Moves
    BY <2>2 DEF KeyMeter!Waive, KeyMeter!ItemsOf, KeyMeter!Parts
  <2>3. ASSUME NEW items \in SUBSET X, NEW c \in 0 .. MaxCost, KeyMeter(k)!Close(items, c)
        PROVE  Moves
    <3>1. Y \subseteq X /\ Y # X /\ v = w
      BY <2>3 DEF KeyMeter!Close
    <3>2. b = a + c
      BY <2>3 DEF KeyMeter!Close
    <3>3. b <= a + MaxCost
      BY <1>1, <3>2, GateAssumption
    <3> QED
      BY <3>1, <3>3
  <2>4. ASSUME KeyMeter(k)!Erase PROVE Moves
    BY <2>4 DEF KeyMeter!Erase
  <2>5. ASSUME UNCHANGED KeyMeter(k)!meterVars PROVE Moves
    BY <2>5 DEF KeyMeter!meterVars
  <2> QED
    BY <2>1, <2>2, <2>3, <2>4, <2>5 DEF KeyStep, KeyMeter!MeterNext
<1>3. b <= a <=> b < a \/ b = a
  BY <1>1
<1> HIDE DEF X, Y, a, b, w, v, line
<1>4. Credit(a, line, X, w) => Credit(b, line, Y, v)
  <2>1. w <= v
    BY <1>1, <1>2
  <2> QED
    BY <1>1, <1>2, <1>3, <2>1, CreditKept
<1> QED
  BY <1>4 DEF X, Y, a, b, w, v, line, Credit

(* What a key consumes passes its RED line by at most the cost of what can *)
(* be in flight and of the requests whose check failed (SELECT in          *)
(* CheckVirtualKeyBudget against the UPDATE in RecordTransaction).         *)
THEOREM KeyOverspend == Spec => []KeyOverspendBound
<1>1. Init => KeyCredit
  <2> SUFFICES ASSUME Init, NEW k \in Keys
               PROVE  Credit(keyConsumed[k], RedLine(Allocated[k]), KeyOpen(k), waived[k])
    BY DEF KeyCredit
  <2>1. KeyOpen(k) = {} /\ keyConsumed[k] = 0 /\ waived[k] = 0
    BY DEF Init, LedgerInit, KeyOpen, OpenItems, KeyPassed, Answered, Scopes
  <2> QED
    BY <2>1, KeyLine, CreditUnused
<1>2. GateInv /\ GateInv' /\ AuthInv /\ KeyCredit /\ [Next]_vars => KeyCredit'
  <2> SUFFICES ASSUME GateInv, GateInv', AuthInv, KeyCredit, [Next]_vars, NEW k \in Keys
               PROVE  Credit(keyConsumed[k], RedLine(Allocated[k]), KeyOpen(k), waived[k])'
    BY DEF KeyCredit
  <2>1. /\ LedgerTypeOK /\ SlotsOK /\ FaultTypeOK
        /\ LedgerTypeOK' /\ SlotsOK' /\ FaultTypeOK'
    BY DEF GateInv, TypeOK, SlotsOK
  <2> QED
    BY <2>1, KeysStep, KeyStepCredit DEF KeyCredit
<1>3. GateInv /\ KeyCredit => KeyOverspendBound
  <2> SUFFICES ASSUME GateInv, KeyCredit, NEW k \in Keys
               PROVE  KeyMeter(k)!OverspendBound
    BY DEF KeyOverspendBound
  <2>1. /\ KeyOpen(k) \in SUBSET (Slots \X {"in", "out"})
        /\ keyConsumed[k] \in Nat /\ waived[k] \in Nat
    BY DEF GateInv, TypeOK, LedgerTypeOK, FaultTypeOK, Scopes, SlotTypeOK, KeyOpen,
           OpenItems, KeyPassed
  <2>2. keyConsumed[k] < RedLine(Allocated[k])
          + 2 * MaxCost * (Cardinality(Slots) + waived[k])
    BY <2>1, KeyLine, CreditKept DEF KeyCredit
  <2>3. KeyMeter(k)!Cardinality(Slots) = Cardinality(Slots)
    BY DEF KeyMeter!Cardinality, Cardinality
  <2> QED
    BY <2>2, <2>3 DEF KeyMeter!OverspendBound, KeyMeter!Excess
<1> QED
  BY <1>1, <1>2, <1>3, GateInvariant, Authenticated, PTL DEF Spec

----------------------------------------------------------------------------
(* The budgets of the organizations and of the sessions.                   *)

\* What the items of a budget are: the slots that serve a client of M, from
\* a phase of F on, hold their output open; those not yet answered, or with
\* a goroutine that has not booked it, their input.
Served(M, F) == {r \in Slots : cred[r] \in M /\ pc[r] \in Answered \cup F}

Due(M, F) ==
  {r \in Served(M, F) : pc[r] \notin Answered} \cup {r \in inputDue : cred[r] \in M}

Held(M, F) == (Served(M, F) \X {"out"}) \cup (Due(M, F) \X {"in"})

OrgKeys(o) == {k \in Keys : KeyOrg[k] = o}

\* The phases of a key past the check of its organization.
OrgPhases == {"key", "keyzone", "keyalert", "forward"}

\* A deleted organization is charged nothing more.
OrgHeld(o) == IF o \in orgsDeleted THEN {} ELSE Held(OrgKeys(o), OrgPhases)

\* An organization without a row, unless it was deleted, has consumed nothing.
OrgRowsInv ==
  /\ orgRows \cap orgsDeleted = {}
  /\ \A o \in Orgs : o \notin orgRows \cup orgsDeleted => orgConsumed[o] = 0

OrgCredit ==
  \A o \in Orgs : Credit(orgConsumed[o], OrgLimit[o], OrgHeld(o), waived[o])

SessionPhases == {"forward"}

\* The sessions that no key books under.
OwnSessions == Sessions \ {KeyName[k] : k \in Keys}

SessionCredit ==
  \A s \in OwnSessions :
    Credit(sessionSpent[s], RedLine(EffectiveSessionLimit), Held({s}, SessionPhases),
           waived[s])

Shrinks(M, F) == Served(M, F)' \subseteq Served(M, F) /\ Due(M, F)' \subseteq Due(M, F)

\* Only slot r, serving a client of M, may open items.
GrowsBy(r, M, F) ==
  /\ cred[r] \in M
  /\ Served(M, F)' \subseteq Served(M, F) \cup {r}
  /\ Due(M, F)' \subseteq Due(M, F) \cup {r}

\* An amount is charged for a slot that stops serving, or whose input is
\* booked, or that dies with the process.
Booked ==
  \E r \in Slots, cost \in 0 .. MaxCost, done \in SUBSET Statements :
    /\ RecordTransaction(cred[r], cost, done)
    /\ waived' = waived
    /\ \/ pc[r] = "bill" /\ Leave(r)
       \/ r \in inputDue /\ InputBooked(r)
       \/ (pc[r] = "bill" \/ r \in inputDue) /\ Forget

\* What the ledger has been told of: no amount changes.
Unbooked == UNCHANGED <<spent, sessionSpent, keyConsumed, orgConsumed>>

(* What the moves of a slot do to the items of a budget.                   *)
LEMMA ServedMoves ==
  ASSUME SlotsOK, NEW M, NEW F, Anonymous \notin M, "idle" \notin F, NEW r \in Slots
  PROVE  /\ Leave(r) => Shrinks(M, F) /\ r \notin Served(M, F)'
         /\ \A phase, z :
              /\ \/ cred[r] \notin M
                 \/ phase \notin Answered \cup F
                 \/ r \in Served(M, F) /\ (pc[r] \in Answered => phase \in Answered)
              /\ Proceed(r, phase) \/ ProceedIn(r, phase, z)
              => Shrinks(M, F)
         /\ \A phase, z :
              /\ cred[r] \in M
              /\ Proceed(r, phase) \/ ProceedIn(r, phase, z)
              => GrowsBy(r, M, F)
         /\ r \in inputDue /\ InputBooked(r)
              => /\ Shrinks(M, F)
                 /\ cred[r] \in M => r \in Due(M, F) /\ r \notin Due(M, F)'
         /\ UNCHANGED slotVars => Shrinks(M, F)
         /\ Forget => Served(M, F)' = {} /\ Due(M, F)' = {}
<1> USE DEF SlotsOK, SlotTypeOK, Shrinks, GrowsBy, Served, Due, Goto
<1>1. ASSUME Leave(r) PROVE Shrinks(M, F) /\ r \notin Served(M, F)'
  BY <1>1 DEF Leave, Answered
<1>2. ASSUME NEW phase, NEW z,
             \/ cred[r] \notin M
             \/ phase \notin Answered \cup F
             \/ r \in Served(M, F) /\ (pc[r] \in Answered => phase \in Answered),
             Proceed(r, phase) \/ ProceedIn(r, phase, z)
      PROVE  Shrinks(M, F)
  BY <1>2 DEF Proceed, ProceedIn
<1>3. ASSUME NEW phase, NEW z, cred[r] \in M,
             Proceed(r, phase) \/ ProceedIn(r, phase, z)
      PROVE  GrowsBy(r, M, F)
  BY <1>3 DEF Proceed, ProceedIn
<1>4. ASSUME r \in inputDue, InputBooked(r)
      PROVE  /\ Shrinks(M, F)
             /\ cred[r] \in M => r \in Due(M, F) /\ r \notin Due(M, F)'
  BY <1>4 DEF InputBooked, SlotInv, Answered
<1>5. ASSUME UNCHANGED slotVars PROVE Shrinks(M, F)
  BY <1>5 DEF slotVars
<1>6. ASSUME Forget PROVE Served(M, F)' = {} /\ Due(M, F)' = {}
  BY <1>6 DEF Forget, Answered
<1> QED
  BY <1>1, <1>2, <1>3, <1>4, <1>5, <1>6

(* A booking closes items, and one at least if it is for a client of M.    *)
LEMMA BookingCloses ==
  ASSUME SlotsOK, NEW M, NEW F, Anonymous \notin M, "idle" \notin F,
         NEW r \in Slots,
         \/ pc[r] = "bill" /\ Leave(r)
         \/ r \in inputDue /\ InputBooked(r)
         \/ (pc[r] = "bill" \/ r \in inputDue) /\ Forget
  PROVE  /\ Shrinks(M, F)
         /\ cred[r] \in M => \/ Served(M, F)' # Served(M, F)
                             \/ Due(M, F)' # Due(M, F)
<1>1. pc[r] = "bill" /\ cred[r] \in M => r \in Served(M, F)
  BY DEF Served, Answered
<1>2. r \in inputDue /\ cred[r] \in M => r \in Due(M, F)
  BY DEF Due
<1> QED
  BY <1>1, <1>2, ServedMoves DEF Shrinks

(* No decision of a request changes an amount.                             *)
LEMMA ChecksChargeNothing ==
  ASSUME NEW r \in Slots, Check(r)
  PROVE  Unbooked
  BY DEF Unbooked, ledgerVars, spendVars, sessionVars, keyVars, orgVars, EnsureSession,
         UpdateVirtualKeyZone, Check, Arrive, ArriveUnchecked, GuardDecides, GuardAlert,
         GlobalVerdict,
         AuthAnonymous, AuthSession, AuthKey, AuthRejects, OrgDecides, OrgUnchecked,
         KeyDecides, KeyVanished, KeyUnchecked, KeyZoneShift, KeyAlert, StoreKeyZone,
         AnnounceKeyZone,
         SessionDecides, SessionUnchecked

(* What else a step does to the amounts: nothing, unless it is a reset.    *)
LEMMA OnlyBookingsCharge ==
  ASSUME SlotsOK, FaultTypeOK, [Next]_vars
  PROVE  Booked \/ ResetBudget \/ Unbooked
<1> USE DEF Unbooked
<1>a. /\ UNCHANGED ledgerVars => Unbooked
      /\ \A s : EnsureSession(s) => Unbooked
      /\ \A k, z : UpdateVirtualKeyZone(k, z) => Unbooked
  BY DEF ledgerVars, spendVars, sessionVars, keyVars, orgVars, EnsureSession,
         UpdateVirtualKeyZone
<1>b. \A r \in Slots : bill[r] \in 0 .. MaxCost
  BY DEF SlotsOK, SlotTypeOK
<1>1. ASSUME NEW r \in Slots, Check(r) PROVE Unbooked
  BY <1>1, ChecksChargeNothing
<1>2. ASSUME NEW r \in Slots, Serve(r) PROVE Booked \/ Unbooked
  <2>1. ASSUME NEW tokens \in {0, 1}, StreamChunk(r, tokens) PROVE Unbooked
    BY <2>1 DEF StreamChunk, spendVars, keyVars, orgVars, sessionVars
  <2>2. ASSUME NEW done \in SUBSET Statements, Book(r) \/ BookTorn(r, done)
        PROVE  Booked
    <3>1. \E d \in SUBSET Statements : RecordTransaction(cred[r], bill[r], d)
      BY <2>2 DEF Book, BookTorn
    <3>2. pc[r] = "bill" /\ Leave(r) /\ waived' = waived
      BY <2>2 DEF Book, BookTorn, NoFault, faultVars
    <3> QED
      BY <1>b, <3>1, <3>2 DEF Booked
  <2>3. ASSUME NEW cost \in 0 .. MaxCost, NEW done \in SUBSET Statements,
               BookInput(r, cost) \/ BookInputTorn(r, cost, done)
        PROVE  Booked
    <3>1. \E d \in SUBSET Statements : RecordTransaction(cred[r], cost, d)
      BY <2>3 DEF BookInput, BookInputTorn
    <3>2. r \in inputDue /\ InputBooked(r) /\ waived' = waived
      BY <2>3 DEF BookInput, BookInputTorn, NoFault, faultVars
    <3> QED
      BY <3>1, <3>2 DEF Booked
  <2>4. CASE Book(r) \/ \E cost \in 0 .. MaxCost : BookInput(r, cost)
    BY <2>2, <2>3, <2>4, Statements \in SUBSET Statements
  <2> QED
    BY <1>2, <1>a, <2>1, <2>2, <2>3, <2>4
       DEF Serve, EndUnbilled, AnswerBuffered, AnswerStream, StreamChunkUnchecked,
           StreamZoneShift, StreamAlert, StoreKeyZone, AnnounceKeyZone, StreamEnd,
           StreamClosed, BookLost,
           BookInputLost
<1>3. CASE Die
  <2>1. ASSUME NEW r \in Slots, NEW cost \in 0 .. MaxCost,
               NEW done \in StatementPrefixes, CrashInBook(r, cost, done)
        PROVE  Booked
    <3>1. /\ done \in SUBSET Statements /\ waived' = waived /\ Forget
          /\ pc[r] = "bill" \/ r \in inputDue
          /\ RecordTransaction(cred[r], cost, done)
      BY <2>1 DEF CrashInBook, Forget, StatementPrefixes, Statements
    <3> QED
      BY <3>1 DEF Booked
  <2> QED
    BY <1>3, <1>a, <2>1 DEF Die, Crash
<1>4. CASE Administer
  BY <1>4 DEF Administer, RegisterVirtualKey, RevokeVirtualKey, CreateOrganization,
              DeleteOrganization, spendVars, keyVars, orgVars
<1>5. CASE UNCHANGED vars
  BY <1>5, <1>a DEF vars
<1> QED
  BY <1>1, <1>2, <1>3, <1>4, <1>5 DEF Next

(* Only the decisions of a request open items.                             *)
LEMMA OnlyChecksOpen ==
  ASSUME SlotsOK, [Next]_vars, NEW M, NEW F, Anonymous \notin M, "idle" \notin F,
         "forward" \in F
  PROVE  Shrinks(M, F) \/ \E r \in Slots : Check(r)
<1>a. \A r \in Slots :
        /\ Leave(r) => Shrinks(M, F)
        /\ \A phase \in Answered :
             pc[r] \in Answered /\ Proceed(r, phase) => Shrinks(M, F)
        /\ r \in inputDue /\ InputBooked(r) => Shrinks(M, F)
        /\ UNCHANGED slotVars => Shrinks(M, F)
        /\ Forget => Shrinks(M, F)
  <2> TAKE r \in Slots
  <2>1. \A phase \in Answered :
          pc[r] \in Answered /\ Proceed(r, phase) => Shrinks(M, F)
    <3>1. pc[r] \in Answered /\ cred[r] \in M => r \in Served(M, F)
      BY DEF Served
    <3> QED
      BY <3>1, ServedMoves
  <2> QED
    BY <2>1, ServedMoves DEF Shrinks
<1> USE DEF SlotsOK, SlotTypeOK, Goto
<1>1. ASSUME NEW r \in Slots, Serve(r) PROVE Shrinks(M, F)
  <2>1. ASSUME NEW cost \in 0 .. MaxCost, AnswerBuffered(r, cost) PROVE Shrinks(M, F)
    BY <2>1 DEF AnswerBuffered, Shrinks, Served, Due, Answered
  <2>2. CASE AnswerStream(r)
    BY <2>2 DEF AnswerStream, Shrinks, Served, Due, Answered
  <2>3. ASSUME NEW tokens \in {0, 1}, StreamChunk(r, tokens) PROVE Shrinks(M, F)
    <3>1. /\ pc[r] = "stream" /\ pc'[r] \in Answered /\ UNCHANGED <<cred, inputDue>>
          /\ \A q \in Slots \ {r} : pc'[q] = pc[q]
      BY <2>3 DEF StreamChunk, Answered
    <3> QED
      BY <3>1 DEF Shrinks, Served, Due, Answered
  <2>4. ASSUME NEW tokens \in {0, 1}, StreamChunkUnchecked(r, tokens)
        PROVE  Shrinks(M, F)
    BY <2>4 DEF StreamChunkUnchecked, Shrinks, Served, Due
  <2>5. CASE StreamZoneShift(r) \/ StreamAlert(r) \/ StreamEnd(r)
    BY <2>5, <1>a DEF StreamZoneShift, StreamAlert, StreamEnd, Answered
  <2>6. CASE Leave(r) \/ (r \in inputDue /\ InputBooked(r))
    BY <2>6, <1>a
  <2> QED
    BY <1>1, <2>1, <2>2, <2>3, <2>4, <2>5, <2>6
       DEF Serve, EndUnbilled, StreamClosed, Book, BookTorn, BookLost, BookInput,
           BookInputTorn, BookInputLost
<1>2. CASE Die
  <2>1. Forget
    BY <1>2 DEF Die, Crash, CrashInBook
  <2> QED
    BY <2>1 DEF Forget, Shrinks, Served, Due, Answered
<1>3. CASE Administer \/ ResetBudget \/ UNCHANGED vars
  BY <1>3 DEF Administer, ResetBudget, vars, slotVars, Shrinks, Served, Due
<1> QED
  BY <1>1, <1>2, <1>3 DEF Next

(* A waived check stays counted.                                           *)
LEMMA WaivedGrows ==
  ASSUME FaultTypeOK, [Next]_vars, NEW s \in Scopes
  PROVE  waived[s] <= waived'[s]
<1>1. NoFault \/ UNCHANGED waived => waived[s] <= waived'[s]
  BY DEF NoFault, faultVars, FaultTypeOK
<1>2. \A t : FailOpen(t) => waived[s] <= waived'[s]
  BY DEF FailOpen, FaultTypeOK
<1>3. ASSUME NEW r \in Slots, Check(r) PROVE waived[s] <= waived'[s]
  BY <1>3, <1>1, <1>2
     DEF Check, Arrive, ArriveUnchecked, GuardDecides, GuardAlert, GlobalVerdict,
        AuthAnonymous, AuthSession,
         AuthKey, AuthRejects, OrgDecides, OrgUnchecked, KeyDecides, KeyVanished,
         KeyUnchecked, KeyZoneShift, KeyAlert, StoreKeyZone, AnnounceKeyZone,
         SessionDecides, SessionUnchecked
<1>4. ASSUME NEW r \in Slots, Serve(r) PROVE waived[s] <= waived'[s]
  BY <1>4, <1>1
     DEF Serve, EndUnbilled, AnswerBuffered, AnswerStream, StreamChunk,
         StreamChunkUnchecked, StreamZoneShift, StreamAlert, StoreKeyZone,
         AnnounceKeyZone, StreamEnd, StreamClosed,
         Book, BookTorn, BookLost, BookInput, BookInputTorn, BookInputLost
<1>5. CASE Die \/ Administer \/ ResetBudget \/ UNCHANGED vars
  BY <1>5, <1>1 DEF Die, Crash, CrashInBook, Forget, Administer,
                    ResetBudget, vars, faultVars
<1> QED
  BY <1>3, <1>4, <1>5 DEF Next

(* The line of a session is above zero.                                    *)
LEMMA SessionLine == RedLine(EffectiveSessionLimit) \in Nat \ {0}
<1>1. EffectiveSessionLimit \in Nat \ {0}
  BY GateAssumption DEF EffectiveSessionLimit
<1> QED
  BY <1>1, GateAssumption, SMT DEF RedLine, Threshold

(* A session's items are opened below its line, or unchecked.              *)
LEMMA SessionOpens ==
  ASSUME LedgerTypeOK, SlotsOK, FaultTypeOK, AuthInv, [Next]_vars, NEW s \in Sessions
  PROVE  \/ Shrinks({s}, SessionPhases)
         \/ \E r \in Slots :
              /\ GrowsBy(r, {s}, SessionPhases)
              /\ \/ sessionSpent[s] < RedLine(EffectiveSessionLimit) /\ Unbooked
                 \/ waived'[s] = waived[s] + 1 /\ Unbooked
<1> DEFINE M == {s}
           F == SessionPhases
           Opens == \E r \in Slots :
             /\ GrowsBy(r, M, F)
             /\ \/ sessionSpent[s] < RedLine(EffectiveSessionLimit) /\ Unbooked
                \/ waived'[s] = waived[s] + 1 /\ Unbooked
<1>a. Anonymous \notin M /\ "idle" \notin F /\ "forward" \in F /\ M \cap Keys = {}
  BY LedgerAssumption DEF SessionPhases
<1> SUFFICES ASSUME NEW r \in Slots, Check(r) PROVE Shrinks(M, F) \/ Opens
  BY <1>a, OnlyChecksOpen
<1>b. Unbooked
  BY ChecksChargeNothing
<1>c. /\ Leave(r) => Shrinks(M, F)
      /\ \A phase, z :
           /\ cred[r] \notin M \/ phase \notin Answered \cup F
           /\ Proceed(r, phase) \/ ProceedIn(r, phase, z)
           => Shrinks(M, F)
      /\ \A phase, z :
           /\ cred[r] \in M
           /\ Proceed(r, phase) \/ ProceedIn(r, phase, z)
           => GrowsBy(r, M, F)
  BY <1>a, ServedMoves
<1>d. /\ pc[r] \in {"org", "key", "keyzone", "keyalert"} => cred[r] \notin M
      /\ pc[r] = "session" => cred[r] \in Sessions
  BY <1>a DEF SlotsOK, SlotInv, AuthInv, Authentic
<1> HIDE DEF M
<1>1. ASSUME NEW c \in Callers, Arrive(r, c) \/ ArriveUnchecked(r, c)
      PROVE  Shrinks(M, F)
  BY <1>1 DEF Arrive, ArriveUnchecked, Shrinks, Served, Due, Goto, Answered,
              SessionPhases, SlotsOK, SlotTypeOK
<1>2. CASE GuardDecides(r) \/ GuardAlert(r)
  BY <1>2, <1>c DEF GuardDecides, GuardAlert, GlobalVerdict, Answered, SessionPhases
<1>3. CASE AuthAnonymous(r) \/ AuthSession(r) \/ AuthRejects(r)
  BY <1>3, <1>a, <1>c DEF AuthAnonymous, AuthSession, AuthRejects, Answered, SessionPhases
<1>4. CASE AuthKey(r)
  <2>1. \E phase \in {"key", "org"} : ProceedIn(r, phase, RowZone(cred[r]))
    BY <1>4 DEF AuthKey
  <2> QED
    BY <1>c, <2>1 DEF Answered, SessionPhases
<1>5. CASE OrgDecides(r) \/ OrgUnchecked(r) \/ KeyDecides(r) \/ KeyVanished(r)
             \/ KeyUnchecked(r) \/ KeyZoneShift(r) \/ KeyAlert(r)
  BY <1>5, <1>c, <1>d DEF OrgDecides, OrgUnchecked, KeyDecides, KeyVanished,
                          KeyUnchecked, KeyZoneShift, KeyAlert
<1>6. CASE SessionDecides(r)
  <2>1. CASE Leave(r) \/ cred[r] # s
    BY <1>6, <1>c, <2>1 DEF SessionDecides, M
  <2>2. CASE ~Leave(r) /\ cred[r] = s
    <3>1. SessionZone(s) # "RED" /\ ProceedIn(r, "forward", SessionZone(s))
      BY <1>6, <2>2 DEF SessionDecides
    <3>2. ~(sessionSpent[s] >= RedLine(EffectiveSessionLimit))
      BY <3>1 DEF SessionZone, ZoneOf, RedLine
    <3>3. sessionSpent[s] < RedLine(EffectiveSessionLimit)
      BY <3>2, SessionLine DEF LedgerTypeOK
    <3> QED
      BY <1>b, <1>c, <2>2, <3>1, <3>3 DEF M
  <2> QED
    BY <2>1, <2>2
<1>7. CASE SessionUnchecked(r)
  <2>1. CASE cred[r] # s
    BY <1>7, <1>c, <2>1 DEF SessionUnchecked, M
  <2>2. CASE cred[r] = s
    <3>1. waived'[s] = waived[s] + 1
      BY <1>7, <2>2 DEF SessionUnchecked, FailOpen, FaultTypeOK, Scopes
    <3>2. GrowsBy(r, M, F)
      BY <1>7, <1>c, <2>2 DEF SessionUnchecked, M
    <3> QED
      BY <1>b, <3>1, <3>2
  <2> QED
    BY <2>1, <2>2
<1> QED
  BY <1>1, <1>2, <1>3, <1>4, <1>5, <1>6, <1>7 DEF Check

(* What a step does to the slots that serve a budget it does to the items. *)
LEMMA HeldMoves ==
  ASSUME SlotsOK, SlotsOK', NEW M, NEW F
  PROVE  /\ Held(M, F) \in SUBSET (Slots \X {"in", "out"})
         /\ Held(M, F)' \in SUBSET (Slots \X {"in", "out"})
         /\ Shrinks(M, F) => Held(M, F)' \subseteq Held(M, F)
         /\ Served(M, F)' # Served(M, F) \/ Due(M, F)' # Due(M, F)
              => Held(M, F)' # Held(M, F)
         /\ \A r : GrowsBy(r, M, F)
              => Held(M, F)' \subseteq Held(M, F) \cup ({r} \X {"in", "out"})
<1>1. /\ Held(M, F) = (Served(M, F) \X {"out"}) \cup (Due(M, F) \X {"in"})
      /\ Held(M, F)' = (Served(M, F)' \X {"out"}) \cup (Due(M, F)' \X {"in"})
  BY DEF Held
<1>2. /\ Served(M, F) \subseteq Slots /\ Due(M, F) \subseteq Slots
      /\ Served(M, F)' \subseteq Slots /\ Due(M, F)' \subseteq Slots
  BY DEF Served, Due, SlotsOK, SlotTypeOK
<1>3. ASSUME NEW A, NEW B, NEW C, NEW D, NEW r,
             A \subseteq C \cup {r}, B \subseteq D \cup {r}
      PROVE  (A \X {"out"}) \cup (B \X {"in"})
               \subseteq ((C \X {"out"}) \cup (D \X {"in"})) \cup ({r} \X {"in", "out"})
  BY <1>3
<1>4. /\ Shrinks(M, F) => Held(M, F)' \subseteq Held(M, F)
      /\ Served(M, F)' # Served(M, F) \/ Due(M, F)' # Due(M, F)
           => Held(M, F)' # Held(M, F)
  BY <1>1, ItemsOfTwo DEF Shrinks
<1>5. ASSUME NEW r, GrowsBy(r, M, F)
      PROVE  Held(M, F)' \subseteq Held(M, F) \cup ({r} \X {"in", "out"})
  BY <1>1, <1>3, <1>5 DEF GrowsBy
<1> QED
  BY <1>1, <1>2, <1>4, <1>5

(* The credit of a session is kept by every step.                          *)
LEMMA SessionCreditStep ==
  ASSUME LedgerTypeOK, LedgerTypeOK', SlotsOK, SlotsOK', FaultTypeOK, FaultTypeOK',
         AuthInv, [Next]_vars, NEW s \in OwnSessions,
         Credit(sessionSpent[s], RedLine(EffectiveSessionLimit),
                Held({s}, SessionPhases), waived[s])
  PROVE  Credit(sessionSpent[s], RedLine(EffectiveSessionLimit),
                Held({s}, SessionPhases), waived[s])'
<1> DEFINE F == SessionPhases
           X == Held({s}, F)
           Y == Held({s}, F)'
           a == sessionSpent[s]
           b == sessionSpent'[s]
           w == waived[s]
           v == waived'[s]
           line == RedLine(EffectiveSessionLimit)
<1>1. /\ s \in Sessions /\ \A k \in Keys : KeyName[k] # s
      /\ Anonymous \notin {s} /\ "idle" \notin F /\ s \notin Keys
  BY LedgerAssumption DEF OwnSessions, SessionPhases
<1>2. /\ X \in SUBSET (Slots \X {"in", "out"}) /\ Y \in SUBSET (Slots \X {"in", "out"})
      /\ a \in Nat /\ b \in Nat /\ w \in Nat /\ v \in Nat /\ line \in Nat \ {0}
      /\ w <= v
  BY <1>1, HeldMoves, SessionLine, WaivedGrows DEF LedgerTypeOK, FaultTypeOK, Scopes
<1> DEFINE Moves ==
      \/ b < line
      \/ b <= a /\ Y \subseteq X
      \/ b <= a + MaxCost /\ Y \subseteq X /\ Y # X
      \/ \E r \in Slots :
           b <= a /\ Y \subseteq X \cup ({r} \X {"in", "out"}) /\ w + 1 <= v
<1>3. ASSUME Booked PROVE Moves
  <2>1. PICK r \in Slots, cost \in 0 .. MaxCost, done \in SUBSET Statements :
          /\ RecordTransaction(cred[r], cost, done)
          /\ \/ pc[r] = "bill" /\ Leave(r)
             \/ r \in inputDue /\ InputBooked(r)
             \/ (pc[r] = "bill" \/ r \in inputDue) /\ Forget
    BY <1>3 DEF Booked
  <2>2. Shrinks({s}, F) /\ (cred[r] = s => \/ Served({s}, F)' # Served({s}, F)
                                           \/ Due({s}, F)' # Due({s}, F))
    BY <1>1, <2>1, BookingCloses
  <2>3. Y \subseteq X /\ (cred[r] = s => Y # X)
    BY <2>2, HeldMoves
  <2>4. b = a + IF s \in Books(cred[r]) THEN cost ELSE 0
    BY <1>1, <2>1 DEF RecordTransaction
  <2>5. s \in Books(cred[r]) => cred[r] = s
    BY <1>1 DEF Books
  <2>6. b <= a + MaxCost /\ (cred[r] # s => b <= a)
    BY <1>2, <2>4, <2>5, GateAssumption
  <2> QED
    BY <2>3, <2>6
<1>4. ASSUME ResetBudget PROVE Moves
  BY <1>1, <1>2, <1>4 DEF ResetBudget, Reset
<1>5. ASSUME Unbooked PROVE Moves
  <2>1. b <= a
    BY <1>2, <1>5 DEF Unbooked
  <2>2. Shrinks({s}, F) => Y \subseteq X
    BY HeldMoves
  <2>3. \A r : GrowsBy(r, {s}, F) => Y \subseteq X \cup ({r} \X {"in", "out"})
    BY HeldMoves
  <2>4. \/ Shrinks({s}, F)
        \/ \E r \in Slots : GrowsBy(r, {s}, F) /\ (a < line \/ v = w + 1)
    BY <1>1, SessionOpens
  <2> HIDE DEF X, Y, a, b, w, v, line
  <2>5. CASE Shrinks({s}, F)
    BY <2>1, <2>2, <2>5
  <2>6. ASSUME NEW r \in Slots, GrowsBy(r, {s}, F), a < line PROVE Moves
    BY <1>2, <2>1, <2>6
  <2>7. ASSUME NEW r \in Slots, GrowsBy(r, {s}, F), v = w + 1 PROVE Moves
    BY <1>2, <2>1, <2>3, <2>7
  <2> QED
    BY <2>4, <2>5, <2>6, <2>7
<1>6. Moves
  BY <1>3, <1>4, <1>5, OnlyBookingsCharge
<1> HIDE DEF X, Y, a, b, w, v, line
<1>7. Credit(a, line, X, w) => Credit(b, line, Y, v)
  BY <1>2, <1>6, CreditKept
<1> QED
  BY <1>7 DEF X, Y, a, b, w, v, line, F, Credit

(* What a legacy session spends passes its RED line by at most the cost of *)
(* what can be in flight and of the requests whose check failed            *)
(* (CheckSessionBudget).                                                   *)
THEOREM SessionOverspend == Spec => []SessionOverspendBound
<1>1. Init => SessionCredit
  <2> SUFFICES ASSUME Init, NEW s \in OwnSessions
               PROVE  Credit(sessionSpent[s], RedLine(EffectiveSessionLimit),
                             Held({s}, SessionPhases), waived[s])
    BY DEF SessionCredit
  <2>1. Held({s}, SessionPhases) = {} /\ sessionSpent[s] = 0 /\ waived[s] = 0
    BY DEF Init, LedgerInit, Held, Served, Due, SessionPhases, Answered, OwnSessions,
           Scopes
  <2> QED
    BY <2>1, SessionLine, CreditUnused
<1>2. GateInv /\ GateInv' /\ AuthInv /\ SessionCredit /\ [Next]_vars => SessionCredit'
  <2> SUFFICES ASSUME GateInv, GateInv', AuthInv, SessionCredit, [Next]_vars,
                      NEW s \in OwnSessions
               PROVE  Credit(sessionSpent[s], RedLine(EffectiveSessionLimit),
                             Held({s}, SessionPhases), waived[s])'
    BY DEF SessionCredit, OwnSessions
  <2>1. /\ LedgerTypeOK /\ SlotsOK /\ FaultTypeOK
        /\ LedgerTypeOK' /\ SlotsOK' /\ FaultTypeOK'
    BY DEF GateInv, TypeOK, SlotsOK
  <2> QED
    BY <2>1, SessionCreditStep DEF SessionCredit
<1>3. GateInv /\ SessionCredit => SessionOverspendBound
  <2> SUFFICES ASSUME GateInv, SessionCredit, NEW s \in OwnSessions
               PROVE  sessionSpent[s] < RedLine(EffectiveSessionLimit)
                        + 2 * MaxCost * (Cardinality(Slots) + waived[s])
    BY DEF SessionOverspendBound, OwnSessions
  <2>1. /\ Held({s}, SessionPhases) \in SUBSET (Slots \X {"in", "out"})
        /\ sessionSpent[s] \in Nat /\ waived[s] \in Nat
    BY DEF GateInv, TypeOK, LedgerTypeOK, FaultTypeOK, Scopes, SlotTypeOK, Held, Served,
           Due, OwnSessions
  <2>2. Credit(sessionSpent[s], RedLine(EffectiveSessionLimit), Held({s}, SessionPhases),
               waived[s])
    BY DEF SessionCredit
  <2> QED
    BY <2>1, <2>2, SessionLine, CreditBounds
<1> QED
  BY <1>1, <1>2, <1>3, GateInvariant, Authenticated, PTL DEF Spec

(* An organization is charged while it has a row; a deleted one stays so.  *)
LEMMA OrgRowsStep ==
  ASSUME LedgerTypeOK, SlotsOK, FaultTypeOK, OrgRowsInv, [Next]_vars
  PROVE  /\ OrgRowsInv'
         /\ orgsDeleted \subseteq orgsDeleted'
         /\ Booked \/ ResetBudget => orgsDeleted' = orgsDeleted
<1>1. Booked \/ ResetBudget => UNCHANGED <<orgRows, orgsDeleted>>
  BY DEF Booked, RecordTransaction, ResetBudget, Reset, orgVars
<1>2. Unbooked \/ ResetBudget => orgConsumed' = orgConsumed
  BY DEF Unbooked, ResetBudget, Reset, orgVars
<1>3. \/ UNCHANGED <<orgRows, orgsDeleted>>
      \/ \E o \in Orgs : CreateOrganization(o) \/ DeleteOrganization(o)
  <2>a. /\ UNCHANGED ledgerVars => UNCHANGED <<orgRows, orgsDeleted>>
        /\ \A s : EnsureSession(s) => UNCHANGED <<orgRows, orgsDeleted>>
        /\ \A k, z : UpdateVirtualKeyZone(k, z) => UNCHANGED <<orgRows, orgsDeleted>>
        /\ \A c, cost, done :
             RecordTransaction(c, cost, done) => UNCHANGED <<orgRows, orgsDeleted>>
    BY DEF ledgerVars, orgVars, EnsureSession, UpdateVirtualKeyZone, RecordTransaction
  <2>1. ASSUME NEW r \in Slots, Check(r) PROVE UNCHANGED <<orgRows, orgsDeleted>>
    BY <2>1, <2>a
       DEF Check, Arrive, ArriveUnchecked, GuardDecides, GuardAlert, GlobalVerdict,
          AuthAnonymous, AuthSession,
           AuthKey, AuthRejects, OrgDecides, OrgUnchecked, KeyDecides, KeyVanished,
           KeyUnchecked, KeyZoneShift, KeyAlert, StoreKeyZone, AnnounceKeyZone,
           SessionDecides, SessionUnchecked
  <2>2. ASSUME NEW r \in Slots, Serve(r) PROVE UNCHANGED <<orgRows, orgsDeleted>>
    <3>1. ASSUME NEW tokens \in {0, 1}, StreamChunk(r, tokens)
          PROVE  UNCHANGED <<orgRows, orgsDeleted>>
      BY <3>1 DEF StreamChunk, orgVars
    <3> QED
      BY <2>2, <2>a, <3>1
         DEF Serve, EndUnbilled, AnswerBuffered, AnswerStream, StreamChunkUnchecked,
             StreamZoneShift, StreamAlert, StoreKeyZone, AnnounceKeyZone, StreamEnd,
             StreamClosed, Book, BookTorn,
             BookLost, BookInput, BookInputTorn, BookInputLost
  <2>3. CASE Die \/ ResetBudget \/ UNCHANGED vars
    BY <2>3, <2>a DEF Die, Crash, CrashInBook, ResetBudget, Reset,
                      vars, orgVars
  <2>4. CASE Administer
    BY <2>4 DEF Administer, RegisterVirtualKey, RevokeVirtualKey, orgVars
  <2> QED
    BY <2>1, <2>2, <2>3, <2>4 DEF Next
<1>4. orgRows' \cap orgsDeleted' = {} /\ orgsDeleted \subseteq orgsDeleted'
  BY <1>3 DEF OrgRowsInv, CreateOrganization, DeleteOrganization
<1>5. ASSUME NEW o \in Orgs, o \notin orgRows' \cup orgsDeleted' PROVE orgConsumed'[o] = 0
  <2>1. o \notin orgRows \cup orgsDeleted
    BY <1>3, <1>5 DEF CreateOrganization, DeleteOrganization
  <2>2. orgConsumed[o] = 0
    BY <2>1 DEF OrgRowsInv
  <2>3. Booked => orgConsumed'[o] = orgConsumed[o]
    BY <2>1 DEF Booked, RecordTransaction, LedgerTypeOK
  <2> QED
    BY <1>2, <2>2, <2>3, OnlyBookingsCharge
<1> QED
  BY <1>1, <1>4, <1>5 DEF OrgRowsInv

(* An organization's items are opened below its limit, or unchecked, or    *)
(* for one that is deleted.                                                *)
LEMMA OrgOpens ==
  ASSUME LedgerTypeOK, SlotsOK, FaultTypeOK, AuthInv, OrgRowsInv, [Next]_vars,
         NEW o \in Orgs
  PROVE  \/ Shrinks(OrgKeys(o), OrgPhases)
         \/ o \in orgsDeleted
         \/ \E r \in Slots :
              /\ GrowsBy(r, OrgKeys(o), OrgPhases)
              /\ orgConsumed[o] < OrgLimit[o] \/ waived'[o] = waived[o] + 1
<1> DEFINE M == OrgKeys(o)
           F == OrgPhases
           Opens == \E r \in Slots :
             /\ GrowsBy(r, M, F)
             /\ orgConsumed[o] < OrgLimit[o] \/ waived'[o] = waived[o] + 1
<1>a. /\ Anonymous \notin M /\ "idle" \notin F /\ "forward" \in F
      /\ M \subseteq Keys /\ M \cap Sessions = {}
      /\ \A k \in Keys : k \in M <=> KeyOrg[k] = o
  BY LedgerAssumption DEF OrgKeys, OrgPhases
<1> SUFFICES ASSUME NEW r \in Slots, Check(r), o \notin orgsDeleted
             PROVE  Shrinks(M, F) \/ Opens
  BY <1>a, OnlyChecksOpen
<1>b. /\ Leave(r) => Shrinks(M, F)
      /\ \A phase, z :
           /\ \/ cred[r] \notin M
              \/ phase \notin Answered \cup F
              \/ pc[r] \in F /\ phase \in F
           /\ Proceed(r, phase) \/ ProceedIn(r, phase, z)
           => Shrinks(M, F)
      /\ \A phase, z :
           /\ cred[r] \in M
           /\ Proceed(r, phase) \/ ProceedIn(r, phase, z)
           => GrowsBy(r, M, F)
  <2>1. pc[r] \in F /\ cred[r] \in M => r \in Served(M, F) /\ pc[r] \notin Answered
    BY DEF Served, OrgPhases, Answered
  <2> QED
    BY <1>a, <2>1, ServedMoves
<1>c. pc[r] = "session" => cred[r] \in Sessions
  BY DEF AuthInv, Authentic
<1> HIDE DEF M
<1>1. ASSUME NEW c \in Callers, Arrive(r, c) \/ ArriveUnchecked(r, c)
      PROVE  Shrinks(M, F)
  BY <1>1 DEF Arrive, ArriveUnchecked, Shrinks, Served, Due, Goto, Answered, OrgPhases,
              SlotsOK, SlotTypeOK
<1>2. CASE GuardDecides(r) \/ GuardAlert(r)
  BY <1>2, <1>b DEF GuardDecides, GuardAlert, GlobalVerdict, Answered, OrgPhases
<1>3. CASE AuthAnonymous(r) \/ AuthSession(r) \/ AuthRejects(r)
  BY <1>3, <1>a, <1>b DEF AuthAnonymous, AuthSession, AuthRejects, Answered, OrgPhases
<1>4. CASE AuthKey(r)
  <2>1. ProceedIn(r, "org", RowZone(cred[r])) \/ KeyOrg[cred[r]] = NoOrg
    BY <1>4 DEF AuthKey
  <2>2. ProceedIn(r, "org", RowZone(cred[r])) \/ ProceedIn(r, "key", RowZone(cred[r]))
    BY <1>4 DEF AuthKey
  <2>3. KeyOrg[cred[r]] = NoOrg => cred[r] \notin M
    BY <1>a, LedgerAssumption
  <2> QED
    BY <1>b, <2>1, <2>2, <2>3 DEF Answered, OrgPhases
<1>5. CASE OrgDecides(r)
  <2>1. CASE Leave(r) \/ cred[r] \notin M
    BY <1>5, <1>b, <2>1 DEF OrgDecides
  <2>2. CASE ~Leave(r) /\ cred[r] \in M
    <3>1. /\ Proceed(r, "key")
          /\ ~(o \in orgRows /\ orgConsumed[o] >= OrgLimit[o])
      BY <1>5, <1>a, <2>2 DEF OrgDecides
    <3>2. orgConsumed[o] \in Nat /\ OrgLimit[o] \in Nat \ {0}
      BY GateAssumption DEF LedgerTypeOK
    <3>3. orgConsumed[o] < OrgLimit[o]
      BY <3>1, <3>2 DEF OrgRowsInv
    <3> QED
      BY <1>b, <2>2, <3>1, <3>3
  <2> QED
    BY <2>1, <2>2
<1>6. CASE OrgUnchecked(r)
  <2>1. CASE cred[r] \notin M
    BY <1>6, <1>b, <2>1 DEF OrgUnchecked
  <2>2. CASE cred[r] \in M
    <3>1. waived'[o] = waived[o] + 1
      BY <1>6, <1>a, <2>2 DEF OrgUnchecked, FailOpen, FaultTypeOK, Scopes
    <3> QED
      BY <1>6, <1>b, <2>2, <3>1 DEF OrgUnchecked
  <2> QED
    BY <2>1, <2>2
<1>7. CASE KeyDecides(r)
  <2>1. Leave(r) \/ \E phase \in {"keyzone", "forward"} : ProceedIn(r, phase, KeyZone(cred[r]))
    BY <1>7 DEF KeyDecides
  <2> QED
    BY <1>7, <1>b, <2>1 DEF KeyDecides, OrgPhases
<1>8. CASE KeyVanished(r) \/ KeyUnchecked(r) \/ KeyZoneShift(r) \/ KeyAlert(r)
  BY <1>8, <1>b DEF KeyVanished, KeyUnchecked, KeyZoneShift, KeyAlert, OrgPhases
<1>9. CASE SessionDecides(r) \/ SessionUnchecked(r)
  <2>1. cred[r] \notin M
    BY <1>9, <1>a, <1>c DEF SessionDecides, SessionUnchecked
  <2> QED
    BY <1>9, <1>b, <2>1 DEF SessionDecides, SessionUnchecked
<1> QED
  BY <1>1, <1>2, <1>3, <1>4, <1>5, <1>6, <1>7, <1>8, <1>9 DEF Check

(* The credit of an organization is kept by every step.                    *)
LEMMA OrgCreditStep ==
  ASSUME LedgerTypeOK, LedgerTypeOK', SlotsOK, SlotsOK', FaultTypeOK, FaultTypeOK',
         AuthInv, OrgRowsInv, [Next]_vars, NEW o \in Orgs,
         Credit(orgConsumed[o], OrgLimit[o], OrgHeld(o), waived[o])
  PROVE  Credit(orgConsumed[o], OrgLimit[o], OrgHeld(o), waived[o])'
<1> DEFINE M == OrgKeys(o)
           F == OrgPhases
           X == OrgHeld(o)
           Y == OrgHeld(o)'
           a == orgConsumed[o]
           b == orgConsumed'[o]
           w == waived[o]
           v == waived'[o]
           line == OrgLimit[o]
<1>1. /\ Anonymous \notin M /\ "idle" \notin F
      /\ \A k \in Keys : k \in M <=> KeyOrg[k] = o
  BY LedgerAssumption DEF OrgKeys, OrgPhases
<1>2. /\ Held(M, F) \in SUBSET (Slots \X {"in", "out"})
      /\ Held(M, F)' \in SUBSET (Slots \X {"in", "out"})
  BY HeldMoves
<1>3. /\ X \in SUBSET (Slots \X {"in", "out"}) /\ Y \in SUBSET (Slots \X {"in", "out"})
      /\ a \in Nat /\ b \in Nat /\ w \in Nat /\ v \in Nat /\ line \in Nat
      /\ w <= v
  BY <1>2, GateAssumption, WaivedGrows DEF OrgHeld, LedgerTypeOK, FaultTypeOK, Scopes
<1>4. /\ orgsDeleted \subseteq orgsDeleted'
      /\ Booked \/ ResetBudget => orgsDeleted' = orgsDeleted
  BY OrgRowsStep
<1> DEFINE Moves ==
      \/ b < line
      \/ b <= a /\ Y \subseteq X
      \/ b <= a + MaxCost /\ Y \subseteq X /\ Y # X
      \/ \E r \in Slots :
           b <= a /\ Y \subseteq X \cup ({r} \X {"in", "out"}) /\ w + 1 <= v
<1>5. ASSUME Booked PROVE Moves
  <2>1. PICK r \in Slots, cost \in 0 .. MaxCost, done \in SUBSET Statements :
          /\ RecordTransaction(cred[r], cost, done)
          /\ \/ pc[r] = "bill" /\ Leave(r)
             \/ r \in inputDue /\ InputBooked(r)
             \/ (pc[r] = "bill" \/ r \in inputDue) /\ Forget
    BY <1>5 DEF Booked
  <2>2. /\ Shrinks(M, F)
        /\ cred[r] \in M => \/ Served(M, F)' # Served(M, F)
                            \/ Due(M, F)' # Due(M, F)
    BY <1>1, <2>1, BookingCloses
  <2>3. /\ Held(M, F)' \subseteq Held(M, F)
        /\ cred[r] \in M => Held(M, F)' # Held(M, F)
    BY <2>2, HeldMoves
  <2>4. CASE cred[r] \in issued /\ o \in orgRows /\ KeyOrg[cred[r]] = o
    <3>1. cred[r] \in M /\ o \notin orgsDeleted /\ o \notin orgsDeleted'
      BY <1>1, <1>4, <1>5, <2>4 DEF LedgerTypeOK, OrgRowsInv
    <3>2. Y \subseteq X /\ Y # X
      BY <2>3, <3>1 DEF OrgHeld
    <3>3. b = a + cost \/ b = a
      BY <1>3, <2>1, <2>4 DEF RecordTransaction
    <3>4. b <= a + MaxCost
      BY <1>3, <3>3, GateAssumption
    <3> QED
      BY <3>2, <3>4
  <2>5. CASE ~(cred[r] \in issued /\ o \in orgRows /\ KeyOrg[cred[r]] = o)
    <3>1. b = a
      BY <1>3, <2>1, <2>5 DEF RecordTransaction
    <3>2. Y \subseteq X
      BY <1>4, <1>5, <2>3 DEF OrgHeld
    <3> QED
      BY <1>3, <3>1, <3>2
  <2> QED
    BY <2>4, <2>5
<1>6. ASSUME ResetBudget \/ Unbooked PROVE Moves
  <2>1. b <= a
    BY <1>3, <1>6 DEF Unbooked, ResetBudget, Reset, orgVars
  <2>2. Shrinks(M, F) => Y \subseteq X
    <3>1. Shrinks(M, F) => Held(M, F)' \subseteq Held(M, F)
      BY HeldMoves
    <3> QED
      BY <1>4, <3>1 DEF OrgHeld
  <2>3. o \in orgsDeleted => Y \subseteq X
    BY <1>4 DEF OrgHeld
  <2>4. ASSUME NEW r, GrowsBy(r, M, F), o \notin orgsDeleted
        PROVE  Y \subseteq X \cup ({r} \X {"in", "out"})
    <3>1. Held(M, F)' \subseteq Held(M, F) \cup ({r} \X {"in", "out"})
      BY <2>4, HeldMoves
    <3> QED
      BY <2>4, <3>1 DEF OrgHeld
  <2>5. \/ Shrinks(M, F)
        \/ o \in orgsDeleted
        \/ \E r \in Slots : GrowsBy(r, M, F) /\ (a < line \/ v = w + 1)
    BY OrgOpens
  <2> HIDE DEF X, Y, a, b, w, v, line, M, F
  <2>6. CASE Shrinks(M, F) \/ o \in orgsDeleted
    BY <2>1, <2>2, <2>3, <2>6
  <2>7. ASSUME NEW r \in Slots, GrowsBy(r, M, F), a < line PROVE Moves
    BY <1>3, <2>1, <2>7
  <2>8. ASSUME NEW r \in Slots, GrowsBy(r, M, F), v = w + 1, o \notin orgsDeleted
        PROVE  Moves
    BY <1>3, <2>1, <2>4, <2>8
  <2> QED
    BY <2>5, <2>6, <2>7, <2>8
<1>7. Moves
  BY <1>5, <1>6, OnlyBookingsCharge
<1> HIDE DEF X, Y, a, b, w, v, line
<1>8. Credit(a, line, X, w) => Credit(b, line, Y, v)
  BY <1>3, <1>7, CreditKept
<1> QED
  BY <1>8 DEF X, Y, a, b, w, v, line, Credit

(* What the keys of an organization consume together passes its limit by   *)
(* at most the cost of what can be in flight and of the requests whose     *)
(* check failed, whenever the organization is created or deleted.          *)
THEOREM OrgOverspend == Spec => []OrgOverspendBound
<1>1. Init => OrgRowsInv /\ OrgCredit
  <2> SUFFICES ASSUME Init, NEW o \in Orgs
               PROVE  /\ OrgRowsInv
                      /\ Credit(orgConsumed[o], OrgLimit[o], OrgHeld(o), waived[o])
    BY DEF OrgCredit, OrgRowsInv, Init, LedgerInit
  <2>1. OrgHeld(o) = {} /\ orgConsumed[o] = 0 /\ waived[o] = 0
    BY DEF Init, LedgerInit, OrgHeld, Held, Served, Due, OrgPhases, Answered, Scopes
  <2>2. OrgRowsInv
    BY DEF OrgRowsInv, Init, LedgerInit
  <2>3. OrgLimit[o] \in Nat \ {0}
    BY GateAssumption
  <2> QED
    BY <2>1, <2>2, <2>3, CreditUnused
<1>2. GateInv /\ GateInv' /\ AuthInv /\ OrgRowsInv /\ OrgCredit /\ [Next]_vars
        => OrgRowsInv' /\ OrgCredit'
  <2> SUFFICES ASSUME GateInv, GateInv', AuthInv, OrgRowsInv, OrgCredit, [Next]_vars
               PROVE  OrgRowsInv' /\ OrgCredit'
    OBVIOUS
  <2>1. /\ LedgerTypeOK /\ SlotsOK /\ FaultTypeOK
        /\ LedgerTypeOK' /\ SlotsOK' /\ FaultTypeOK'
    BY DEF GateInv, TypeOK, SlotsOK
  <2>2. OrgRowsInv'
    BY <2>1, OrgRowsStep
  <2>3. ASSUME NEW o \in Orgs
        PROVE  Credit(orgConsumed[o], OrgLimit[o], OrgHeld(o), waived[o])'
    BY <2>1, OrgCreditStep DEF OrgCredit
  <2> QED
    BY <2>2, <2>3 DEF OrgCredit
<1>3. GateInv /\ OrgCredit => OrgOverspendBound
  <2> SUFFICES ASSUME GateInv, OrgCredit, NEW o \in Orgs
               PROVE  orgConsumed[o] < OrgLimit[o]
                        + 2 * MaxCost * (Cardinality(Slots) + waived[o])
    BY DEF OrgOverspendBound
  <2>1. /\ OrgHeld(o) \in SUBSET (Slots \X {"in", "out"})
        /\ orgConsumed[o] \in Nat /\ waived[o] \in Nat /\ OrgLimit[o] \in Nat \ {0}
    BY GateAssumption DEF GateInv, TypeOK, LedgerTypeOK, FaultTypeOK, Scopes,
                          SlotTypeOK, OrgHeld, Held, Served, Due
  <2>2. Credit(orgConsumed[o], OrgLimit[o], OrgHeld(o), waived[o])
    BY DEF OrgCredit
  <2> QED
    BY <2>1, <2>2, CreditBounds
<1> QED
  BY <1>1, <1>2, <1>3, GateInvariant, Authenticated, PTL DEF Spec

----------------------------------------------------------------------------
(* Alerts.                                                                 *)

\* What the package variable of guard.go remembers was announced, or is about
\* to be.
GlobalAlertInv ==
  lastGlobalZone = "RED" => <<Global, "RED">> \in dispatched \/ GlobalAlertDue

\* So was what the row of a key says.
KeyAlertInv ==
  \A k \in Keys : keyState[k] = "RED" => <<k, "RED">> \in dispatched \/ KeyAlertDue(k)

\* No crash takes the alert of a key with it.
AlertsSurvive == Die => \A k \in Keys : ~KeyAlertDue(k)

BlocksGlobally(r) ==
  /\ pc[r] \in {"guard", "alert"} /\ zone[r] = "RED" /\ GlobalZone = "RED"
  /\ pc'[r] = "idle" /\ faults' = faults

BlocksKey(r, k) ==
  /\ pc[r] \in {"key", "keyalert"} /\ cred[r] = k
  /\ pc'[r] = "idle" /\ faults' = faults

AlertPhases == {"alert", "keyalert", "streamalert"}

\* Slot r sends the alert it owes.
Alerts(r) == GuardAlert(r) \/ KeyAlert(r) \/ StreamAlert(r)

(* A slot is moved by its own steps, and by faults.                        *)
LEMMA OnlyOwnSteps ==
  ASSUME SlotsOK, FaultTypeOK, [Next]_vars, NEW r \in Slots,
         pc[r] \in {"guard", "alert", "key", "keyalert"}, pc'[r] = "idle",
         faults' = faults
  PROVE  Check(r)
<1> USE DEF SlotsOK, SlotTypeOK, Goto
<1>1. ~Fault
  BY DEF Fault, FaultTypeOK
<1>2. ASSUME NEW q \in Slots, Check(q), q # r PROVE FALSE
  BY <1>2, <1>1
     DEF Check, Arrive, ArriveUnchecked, GuardDecides, GuardAlert, GlobalVerdict,
        AuthAnonymous, AuthSession,
         AuthKey, AuthRejects, OrgDecides, OrgUnchecked, KeyDecides, KeyVanished,
         KeyUnchecked, KeyZoneShift, KeyAlert, SessionDecides, SessionUnchecked,
         FailOpen, Leave,
         Proceed, ProceedIn
<1>3. ASSUME NEW q \in Slots, Serve(q) PROVE FALSE
  <2>1. pc'[r] # pc[r]
    OBVIOUS
  <2>2. ASSUME NEW tokens \in {0, 1}, StreamChunk(q, tokens) PROVE FALSE
    BY <2>2 DEF StreamChunk
  <2> QED
    BY <1>1, <1>3, <2>2
       DEF Serve, EndUnbilled, AnswerBuffered, AnswerStream, StreamChunkUnchecked,
           StreamZoneShift, StreamAlert, AnnounceKeyZone, StreamEnd, StreamClosed,
           Book, BookTorn, BookLost, BookInput,
           BookInputTorn, BookInputLost, InputBooked, Leave, Proceed
<1>4. ~Die /\ ~Administer /\ ~ResetBudget /\ ~UNCHANGED vars
  BY <1>1 DEF Die, Crash, CrashInBook, Administer, ResetBudget, vars,
              slotVars
<1> QED
  BY <1>2, <1>3, <1>4 DEF Next

(* Who owes an alert keeps it until it is sent, or the process dies.       *)
LEMMA AlertersStay ==
  ASSUME SlotsOK, [Next]_vars, ~Die, NEW q \in Slots, pc[q] \in AlertPhases
  PROVE  \/ Alerts(q)
         \/ pc'[q] = pc[q] /\ cred'[q] = cred[q] /\ zone'[q] = zone[q]
<1> DEFINE Stays == pc'[q] = pc[q] /\ cred'[q] = cred[q] /\ zone'[q] = zone[q]
<1> USE DEF SlotsOK, SlotTypeOK, Goto, AlertPhases
<1>0. \A r \in Slots : InputBooked(r) => Stays
  BY DEF InputBooked
<1>1. ASSUME NEW r \in Slots, Check(r) PROVE Alerts(q) \/ Stays
  <2>1. CASE r = q
    BY <1>1, <2>1
       DEF Alerts, Check, Arrive, ArriveUnchecked, GuardDecides, AuthAnonymous,
           AuthSession, AuthKey, AuthRejects, OrgDecides, OrgUnchecked, KeyDecides,
           KeyVanished, KeyUnchecked, KeyZoneShift, SessionDecides, SessionUnchecked
  <2>2. CASE r # q
    BY <1>1, <2>2
       DEF Check, Arrive, ArriveUnchecked, GuardDecides, GuardAlert, GlobalVerdict,
           AuthAnonymous, AuthSession, AuthKey, AuthRejects, OrgDecides, OrgUnchecked,
           KeyDecides, KeyVanished, KeyUnchecked, KeyZoneShift, KeyAlert,
           SessionDecides, SessionUnchecked, Leave, Proceed, ProceedIn
  <2> QED
    BY <2>1, <2>2
<1>2. ASSUME NEW r \in Slots, Serve(r) PROVE Alerts(q) \/ Stays
  <2>1. CASE r = q
    <3>1. ASSUME NEW tokens \in {0, 1}, StreamChunk(r, tokens) PROVE FALSE
      BY <2>1, <3>1 DEF StreamChunk
    <3> QED
      BY <1>0, <1>2, <2>1, <3>1
         DEF Alerts, Serve, EndUnbilled, AnswerBuffered, AnswerStream,
             StreamChunkUnchecked, StreamZoneShift, StreamEnd, StreamClosed, Book,
             BookTorn, BookLost, BookInput, BookInputTorn, BookInputLost
  <2>2. CASE r # q
    <3>1. ASSUME NEW tokens \in {0, 1}, StreamChunk(r, tokens) PROVE Stays
      BY <2>2, <3>1 DEF StreamChunk
    <3> QED
      BY <1>0, <1>2, <2>2, <3>1
         DEF Serve, EndUnbilled, AnswerBuffered, AnswerStream, StreamChunkUnchecked,
             StreamZoneShift, StreamAlert, StreamEnd, StreamClosed, Book, BookTorn,
             BookLost, BookInput, BookInputTorn, BookInputLost, Leave, Proceed
  <2> QED
    BY <2>1, <2>2
<1>3. Administer \/ ResetBudget \/ UNCHANGED vars => Stays
  BY DEF Administer, ResetBudget, vars, slotVars
<1> QED
  BY <1>1, <1>2, <1>3 DEF Next

(* An alert is never taken back, but by a reset of the global budget.      *)
LEMMA AlertsKept ==
  ASSUME [Next]_vars
  PROVE  /\ dispatched \ ({Global} \X Zones) \subseteq dispatched'
         /\ ~ResetBudget => dispatched \subseteq dispatched'
<1> USE DEF Dispatch, guardVars
<1>1. ASSUME NEW r \in Slots, Check(r) PROVE dispatched \subseteq dispatched'
  BY <1>1
     DEF Check, Arrive, ArriveUnchecked, GuardDecides, GuardAlert, GlobalVerdict,
        AuthAnonymous, AuthSession,
         AuthKey, AuthRejects, OrgDecides, OrgUnchecked, KeyDecides, KeyVanished,
         KeyUnchecked, KeyZoneShift, KeyAlert, StoreKeyZone, AnnounceKeyZone,
         SessionDecides, SessionUnchecked
<1>2. ASSUME NEW r \in Slots, Serve(r) PROVE dispatched \subseteq dispatched'
  BY <1>2
     DEF Serve, EndUnbilled, AnswerBuffered, AnswerStream, StreamChunk,
         StreamChunkUnchecked, StreamZoneShift, StreamAlert, StoreKeyZone,
         AnnounceKeyZone, StreamEnd, StreamClosed,
         Book, BookTorn, BookLost, BookInput, BookInputTorn, BookInputLost
<1>3. CASE Die \/ Administer \/ UNCHANGED vars
  BY <1>3 DEF Die, Crash, CrashInBook, Forget, Administer, vars
<1>4. CASE ResetBudget
  BY <1>4 DEF ResetBudget
<1> QED
  BY <1>1, <1>2, <1>3, <1>4 DEF Next

(* The guard remembers RED only if it was announced or is about to be.     *)
LEMMA GlobalAlertStep ==
  ASSUME SlotsOK, GlobalAlertInv, [Next]_vars, ~ResetBudget
  PROVE  GlobalAlertInv'
<1>a. dispatched \subseteq dispatched'
  BY AlertsKept
<1>b. CASE Die
  BY <1>b DEF Die, Crash, CrashInBook, Forget, GlobalAlertInv
<1>c. ASSUME ~Die, lastGlobalZone' = lastGlobalZone PROVE GlobalAlertInv'
  <2>1. ASSUME NEW q \in Slots, pc[q] = "alert", zone[q] = "RED"
        PROVE  <<Global, "RED">> \in dispatched' \/ GlobalAlertDue'
    <3>1. GuardAlert(q) \/ (pc'[q] = pc[q] /\ zone'[q] = zone[q])
      BY <1>c, <2>1, AlertersStay DEF AlertPhases, Alerts, KeyAlert, StreamAlert
    <3> QED
      BY <2>1, <3>1 DEF GuardAlert, Dispatch, GlobalAlertDue
  <2> QED
    BY <1>a, <1>c, <2>1 DEF GlobalAlertInv, GlobalAlertDue
<1> USE DEF guardVars
<1>1. ASSUME NEW r \in Slots, GuardDecides(r), ~Die PROVE GlobalAlertInv'
  <2>1. CASE lastGlobalZone' = lastGlobalZone
    BY <1>1, <1>c, <2>1
  <2>2. CASE lastGlobalZone' = zone[r] /\ Proceed(r, "alert")
    BY <2>2 DEF GlobalAlertInv, GlobalAlertDue, Proceed, Goto, SlotsOK, SlotTypeOK
  <2> QED
    BY <1>1, <2>1, <2>2 DEF GuardDecides
<1>2. ASSUME NEW r \in Slots, Check(r), ~GuardDecides(r), ~Die PROVE GlobalAlertInv'
  BY <1>2, <1>c
     DEF Check, Arrive, ArriveUnchecked, GuardAlert, AuthAnonymous, AuthSession,
         AuthKey, AuthRejects, OrgDecides, OrgUnchecked, KeyDecides, KeyVanished,
         KeyUnchecked, KeyZoneShift, KeyAlert, StoreKeyZone, AnnounceKeyZone,
         SessionDecides, SessionUnchecked
<1>3. ASSUME NEW r \in Slots, Serve(r), ~Die PROVE GlobalAlertInv'
  BY <1>3, <1>c
     DEF Serve, EndUnbilled, AnswerBuffered, AnswerStream, StreamChunk,
         StreamChunkUnchecked, StreamZoneShift, StreamAlert, StoreKeyZone,
         AnnounceKeyZone, StreamEnd, StreamClosed, Book, BookTorn, BookLost, BookInput,
         BookInputTorn, BookInputLost
<1>4. CASE (Administer \/ UNCHANGED vars) /\ ~Die
  BY <1>4, <1>c DEF Administer, vars
<1> QED
  BY <1>b, <1>1, <1>2, <1>3, <1>4 DEF Next

(* When the global breaker blocks a request while the spend is RED, the    *)
(* RED alert of the period is out or another request is past the unlock of *)
(* guard.go and about to send it, as long as nobody resets the budget: a   *)
(* reset leaves lastGlobalZone as it was (run gate_second_period).         *)
THEOREM GlobalTrip == Spec /\ [][~ResetBudget]_vars => GlobalTripAnnounced
<1>1. Init => GlobalAlertInv
  BY DEF Init, GlobalAlertInv
<1>2. GateInv /\ GlobalAlertInv /\ [Next]_vars /\ [~ResetBudget]_vars => GlobalAlertInv'
  <2>1. GlobalAlertInv /\ UNCHANGED vars => GlobalAlertInv'
    BY DEF GlobalAlertInv, GlobalAlertDue, vars, slotVars, guardVars
  <2> QED
    BY <2>1, InvParts, GlobalAlertStep
<1>3. GateInv /\ GlobalAlertInv' /\ [Next]_vars
        => \A r \in Slots :
             BlocksGlobally(r) => <<Global, "RED">> \in dispatched' \/ GlobalAlertDue'
  <2> SUFFICES ASSUME GateInv, GlobalAlertInv', [Next]_vars, NEW r \in Slots,
                      BlocksGlobally(r)
               PROVE  <<Global, "RED">> \in dispatched' \/ GlobalAlertDue'
    OBVIOUS
  <2>0. SlotsOK /\ FaultTypeOK
    BY InvParts
  <2>1. Check(r)
    BY <2>0, OnlyOwnSteps DEF BlocksGlobally
  <2>2. GuardDecides(r) \/ GuardAlert(r)
    BY <2>1 DEF BlocksGlobally, Check, Arrive, ArriveUnchecked, AuthAnonymous,
                AuthSession, AuthKey, AuthRejects, OrgDecides, OrgUnchecked, KeyDecides,
                KeyVanished, KeyUnchecked, KeyZoneShift, KeyAlert, SessionDecides,
                SessionUnchecked
  <2>3. CASE GuardDecides(r)
    <3>1. ~Proceed(r, "alert")
      BY <2>0 DEF BlocksGlobally, Proceed, Goto, SlotsOK, SlotTypeOK
    <3>2. lastGlobalZone' = "RED"
      BY <2>3, <3>1 DEF GuardDecides, BlocksGlobally
    <3> QED
      BY <3>2 DEF GlobalAlertInv
  <2>4. CASE GuardAlert(r)
    BY <2>4 DEF GuardAlert, Dispatch, BlocksGlobally
  <2> QED
    BY <2>2, <2>3, <2>4
<1> QED
  BY <1>1, <1>2, <1>3, GateInvariant, PTL
     DEF Spec, GlobalTripAnnounced, BlocksGlobally

(* A key's row says RED only if that was announced or is about to be: only *)
(* the death of the process in between loses the alert.                    *)
LEMMA KeyAlertStep ==
  ASSUME LedgerTypeOK, SlotsOK, KeyAlertInv, [Next]_vars, AlertsSurvive
  PROVE  KeyAlertInv'
<1>a. \A k \in Keys : <<k, "RED">> \in dispatched => <<k, "RED">> \in dispatched'
  <2>1. \A k \in Keys : k # Global
    BY GateAssumption DEF Clients
  <2> QED
    BY <2>1, AlertsKept
<1>b. ASSUME NEW k \in Keys, keyState[k] = "RED"
      PROVE  <<k, "RED">> \in dispatched' \/ KeyAlertDue(k)'
  <2>1. CASE <<k, "RED">> \in dispatched
    BY <1>a, <2>1
  <2>2. ASSUME NEW q \in Slots, pc[q] \in {"keyalert", "streamalert"}, cred[q] = k,
               zone[q] = "RED"
        PROVE  <<k, "RED">> \in dispatched' \/ KeyAlertDue(k)'
    <3>1. ~Die
      BY <2>2 DEF AlertsSurvive, KeyAlertDue
    <3>2. \/ KeyAlert(q) \/ StreamAlert(q)
          \/ pc'[q] = pc[q] /\ cred'[q] = cred[q] /\ zone'[q] = zone[q]
      BY <2>2, <3>1, AlertersStay DEF AlertPhases, Alerts, GuardAlert
    <3> QED
      BY <2>2, <3>2 DEF KeyAlert, StreamAlert, AnnounceKeyZone, Dispatch, KeyAlertDue
  <2> QED
    BY <1>b, <2>1, <2>2 DEF KeyAlertInv, KeyAlertDue
<1>c. keyState' = keyState => KeyAlertInv'
  BY <1>b DEF KeyAlertInv
<1>d. /\ UNCHANGED ledgerVars => keyState' = keyState
      /\ \A s : EnsureSession(s) => keyState' = keyState
      /\ \A c, cost, done : RecordTransaction(c, cost, done) => keyState' = keyState
  BY DEF ledgerVars, keyVars, EnsureSession, RecordTransaction
<1>e. ASSUME NEW r \in Slots, StoreKeyZone(r),
             Proceed(r, "keyalert") \/ Proceed(r, "streamalert")
      PROVE  KeyAlertInv'
  <2>1. CASE UpdateVirtualKeyZone(cred[r], zone[r])
    <3>1. ASSUME NEW k \in Keys, keyState'[k] = "RED", keyState[k] # "RED"
          PROVE  KeyAlertDue(k)'
      <4>1. cred[r] = k /\ zone[r] = "RED"
        BY <2>1, <3>1 DEF UpdateVirtualKeyZone, LedgerTypeOK
      <4> QED
        BY <1>e, <4>1 DEF Proceed, Goto, KeyAlertDue, SlotsOK, SlotTypeOK
    <3> QED
      BY <1>b, <3>1 DEF KeyAlertInv
  <2> QED
    BY <1>c, <1>d, <1>e, <2>1 DEF StoreKeyZone
<1>1. ASSUME NEW r \in Slots, Check(r) PROVE KeyAlertInv'
  BY <1>1, <1>c, <1>d, <1>e
     DEF Check, Arrive, ArriveUnchecked, GuardDecides, GuardAlert, AuthAnonymous,
         AuthSession, AuthKey, AuthRejects, OrgDecides, OrgUnchecked, KeyDecides,
         KeyVanished, KeyUnchecked, KeyZoneShift, KeyAlert, AnnounceKeyZone,
         SessionDecides, SessionUnchecked
<1>2. ASSUME NEW r \in Slots, Serve(r) PROVE KeyAlertInv'
  <2>1. ASSUME NEW tokens \in {0, 1}, StreamChunk(r, tokens) PROVE keyState' = keyState
    BY <2>1 DEF StreamChunk, keyVars
  <2> QED
    BY <1>2, <1>c, <1>d, <1>e, <2>1
       DEF Serve, EndUnbilled, AnswerBuffered, AnswerStream, StreamChunkUnchecked,
           StreamZoneShift, StreamAlert, AnnounceKeyZone, StreamEnd, StreamClosed, Book,
           BookTorn, BookLost, BookInput, BookInputTorn, BookInputLost
<1>3. CASE Die
  BY <1>3, <1>c, <1>d DEF Die, Crash, CrashInBook
<1>4. CASE Administer \/ ResetBudget \/ UNCHANGED vars
  BY <1>4, <1>c, <1>d DEF Administer, ResetBudget, Reset, RegisterVirtualKey,
     RevokeVirtualKey, CreateOrganization, DeleteOrganization, keyVars, vars
<1> QED
  BY <1>1, <1>2, <1>3, <1>4 DEF Next

(* When the breaker of its key blocks a request, the RED alert of that key *)
(* is out or a request or stream of the key has stored RED and is about to *)
(* send it, unless the process once died right there: the restarted one    *)
(* finds the zone stored and never sends the alert (guard.go 157-165).     *)
THEOREM KeyTrip == Spec /\ [][AlertsSurvive]_vars => KeyTripAnnounced
<1>1. Init => KeyAlertInv
  BY DEF Init, LedgerInit, KeyAlertInv
<1>2. GateInv /\ KeyAlertInv /\ [Next]_vars /\ [AlertsSurvive]_vars => KeyAlertInv'
  <2>1. KeyAlertInv /\ UNCHANGED vars => KeyAlertInv'
    BY DEF KeyAlertInv, KeyAlertDue, vars, ledgerVars, keyVars, slotVars, guardVars
  <2> QED
    BY <2>1, InvParts, KeyAlertStep
<1>3. GateInv /\ KeyAlertInv' /\ [Next]_vars
        => \A r \in Slots, k \in Keys :
             BlocksKey(r, k) => <<k, "RED">> \in dispatched' \/ KeyAlertDue(k)'
  <2> SUFFICES ASSUME GateInv, KeyAlertInv', [Next]_vars, NEW r \in Slots,
                      NEW k \in Keys, BlocksKey(r, k)
               PROVE  <<k, "RED">> \in dispatched' \/ KeyAlertDue(k)'
    OBVIOUS
  <2>0. LedgerTypeOK /\ SlotsOK /\ FaultTypeOK
    BY InvParts
  <2>1. Check(r)
    BY <2>0, OnlyOwnSteps DEF BlocksKey
  <2>2. KeyDecides(r) \/ KeyAlert(r)
    BY <2>0, <2>1
       DEF BlocksKey, Check, Arrive, ArriveUnchecked, GuardDecides, GuardAlert,
           AuthAnonymous, AuthSession, AuthKey, AuthRejects, OrgDecides, OrgUnchecked,
           KeyVanished, KeyUnchecked, KeyZoneShift, SessionDecides, SessionUnchecked,
           Proceed, Goto, SlotsOK, SlotTypeOK
  <2>3. CASE KeyDecides(r)
    <3>1. keyState[k] = "RED" /\ keyState' = keyState
      BY <2>0, <2>3 DEF BlocksKey, KeyDecides, ProceedIn, Goto, SlotsOK, SlotTypeOK,
                        ledgerVars, keyVars
    <3> QED
      BY <3>1 DEF KeyAlertInv
  <2>4. CASE KeyAlert(r)
    <3>1. zone[r] = "RED"
      BY <2>0, <2>4 DEF BlocksKey, KeyAlert, Proceed, Goto, SlotsOK, SlotTypeOK
    <3> QED
      BY <2>4, <3>1 DEF KeyAlert, AnnounceKeyZone, Dispatch, BlocksKey
  <2> QED
    BY <2>2, <2>3, <2>4
<1> QED
  BY <1>1, <1>2, <1>3, GateInvariant, PTL DEF Spec, KeyTripAnnounced, BlocksKey
=============================================================================
