-------------------------- MODULE SpendMeterProofs --------------------------
(* What the abstract breaker guarantees, for every number of slots, every  *)
(* cost bound and every line.                                              *)
EXTENDS SpendMeter, FiniteSetTheorems, TLAPS

----------------------------------------------------------------------------
(* Arithmetic and cardinalities.                                           *)

(* A product grows with its second factor, and distributes.                *)
LEMMA Products ==
  ASSUME NEW m \in Nat, NEW a \in Nat, NEW b \in Nat
  PROVE  /\ m * a \in Nat
         /\ a <= b => m * a <= m * b
         /\ m * (a + b) = m * a + m * b
<1>1. m * a \in Nat
  BY SMT
<1>2. m * (a + b) = m * a + m * b
  BY SMT
<1>3. ASSUME a <= b PROVE m * a <= m * b
  <2>1. PICK d \in Nat : b = a + d
    BY <1>3, b - a \in Nat, SMT
  <2>2. m * b = m * a + m * d
    BY <2>1, SMT
  <2>3. m * d \in Nat
    BY SMT
  <2> QED
    BY <1>1, <2>2, <2>3, SMT
<1> QED
  BY <1>1, <1>2, <1>3

(* The excess in terms of one item per part of a slot.                     *)
LEMMA ExcessIsItems ==
  ASSUME NEW w \in Nat
  PROVE  /\ Cardinality(Slots) \in Nat
         /\ 2 * MaxCost * (Cardinality(Slots) + w)
              = MaxCost * (2 * Cardinality(Slots) + 2 * w)
         /\ 2 * MaxCost * (Cardinality(Slots) + w) \in Nat
<1>1. Cardinality(Slots) \in Nat
  BY MeterAssumption, FS_CardinalityType
<1> QED
  BY <1>1, MeterAssumption, SMT

(* There are two items per slot.                                           *)
LEMMA ItemsAreFinite ==
  /\ IsFiniteSet(Slots \X Parts)
  /\ Cardinality(Slots \X Parts) = 2 * Cardinality(Slots)
<1>1. IsFiniteSet(Parts) /\ Cardinality(Parts) = 2
  <2>1. Parts = {"in"} \cup {"out"}
    BY DEF Parts
  <2>2. IsFiniteSet({"in"}) /\ Cardinality({"in"}) = 1
    BY FS_Singleton
  <2> QED
    BY <2>1, <2>2, FS_AddElement, "out" \notin {"in"}
<1>2. Cardinality(Slots) \in Nat
  BY MeterAssumption, FS_CardinalityType
<1>3. /\ IsFiniteSet(Slots \X Parts)
      /\ Cardinality(Slots \X Parts) = Cardinality(Slots) * Cardinality(Parts)
  BY <1>1, MeterAssumption, FS_Product
<1> QED
  BY <1>1, <1>2, <1>3, SMT

(* A set of open items is finite and holds at most two items per slot.     *)
LEMMA OpenIsBounded ==
  ASSUME NEW S \in SUBSET (Slots \X Parts)
  PROVE  /\ IsFiniteSet(S)
         /\ Cardinality(S) \in Nat
         /\ Cardinality(S) <= 2 * Cardinality(Slots)
  BY ItemsAreFinite, FS_Subset, FS_CardinalityType

(* Opening the items of one slot adds at most two.                         *)
LEMMA OpeningAddsTwo ==
  ASSUME NEW S \in SUBSET (Slots \X Parts), NEW r \in Slots
  PROVE  Cardinality(S \cup ItemsOf(r)) <= Cardinality(S) + 2
<1>1. IsFiniteSet(S) /\ Cardinality(S) \in Nat
  BY OpenIsBounded
<1>2. S \cup ItemsOf(r) = (S \cup {<<r, "in">>}) \cup {<<r, "out">>}
  BY DEF ItemsOf, Parts
<1>3. /\ IsFiniteSet(S \cup {<<r, "in">>})
      /\ Cardinality(S \cup {<<r, "in">>}) \in Nat
      /\ Cardinality(S \cup {<<r, "in">>}) <= Cardinality(S) + 1
  <2>1. /\ IsFiniteSet(S \cup {<<r, "in">>})
        /\ Cardinality(S \cup {<<r, "in">>}) =
             IF <<r, "in">> \in S THEN Cardinality(S) ELSE Cardinality(S) + 1
    BY <1>1, FS_AddElement
  <2> QED
    BY <1>1, <2>1
<1>4. Cardinality((S \cup {<<r, "in">>}) \cup {<<r, "out">>})
        <= Cardinality(S \cup {<<r, "in">>}) + 1
  <2> DEFINE T == S \cup {<<r, "in">>}
  <2>1. IsFiniteSet(T) /\ Cardinality(T) \in Nat
    BY <1>3
  <2>2. Cardinality(T \cup {<<r, "out">>}) =
          IF <<r, "out">> \in T THEN Cardinality(T) ELSE Cardinality(T) + 1
    BY <2>1, FS_AddElement
  <2> HIDE DEF T
  <2>3. Cardinality(T \cup {<<r, "out">>}) <= Cardinality(T) + 1
    BY <2>1, <2>2
  <2> QED
    BY <2>3 DEF T
<1>5. Cardinality(S \cup ItemsOf(r)) \in Nat
  BY <1>1, OpenIsBounded DEF ItemsOf
<1> QED
  BY <1>1, <1>2, <1>3, <1>4, <1>5

(* Closing some open items leaves fewer.                                   *)
LEMMA ClosingRemovesOne ==
  ASSUME NEW S \in SUBSET (Slots \X Parts), NEW T \in SUBSET S, T # {}
  PROVE  /\ Cardinality(S \ T) \in Nat
         /\ Cardinality(S \ T) + 1 <= Cardinality(S)
<1>1. IsFiniteSet(S) /\ Cardinality(S) \in Nat
  BY OpenIsBounded
<1>2. S \ T \in SUBSET S /\ S \ T # S
  OBVIOUS
<1>3. /\ Cardinality(S \ T) <= Cardinality(S)
      /\ Cardinality(S) # Cardinality(S \ T)
  BY <1>1, <1>2, FS_Subset
<1>4. Cardinality(S \ T) \in Nat
  BY OpenIsBounded
<1> QED
  BY <1>1, <1>3, <1>4

----------------------------------------------------------------------------
(* The type invariant of the meter.                                        *)

(* The meter is a natural number and the open items are items of slots.    *)
THEOREM MeterType == MeterSpec => []MeterTypeOK
<1>1. MeterInit => MeterTypeOK
  BY DEF MeterInit, MeterTypeOK
<1>2. MeterTypeOK /\ [MeterNext]_meterVars => MeterTypeOK'
  <2> SUFFICES ASSUME MeterTypeOK, [MeterNext]_meterVars
               PROVE  MeterTypeOK'
    OBVIOUS
  <2> USE DEF MeterTypeOK
  <2>1. ASSUME NEW r \in Slots, Admit(r) PROVE MeterTypeOK'
    BY <2>1 DEF Admit, ItemsOf
  <2>2. ASSUME NEW r \in Slots, Waive(r) PROVE MeterTypeOK'
    BY <2>2 DEF Waive, ItemsOf
  <2>3. ASSUME NEW items \in SUBSET open, NEW c \in 0 .. MaxCost, Close(items, c)
        PROVE  MeterTypeOK'
    BY <2>3, MeterAssumption DEF Close
  <2>4. CASE Erase
    BY <2>4 DEF Erase
  <2>5. CASE UNCHANGED meterVars
    BY <2>5 DEF meterVars
  <2> QED
    BY <2>1, <2>2, <2>3, <2>4, <2>5 DEF MeterNext
<1> QED
  BY <1>1, <1>2, PTL DEF MeterSpec

----------------------------------------------------------------------------
(* The excess above the line.                                              *)

(* Every step keeps the spend, with all that is still open, below the line *)
(* plus the excess: an admission found the meter below the line and opens  *)
(* what the excess allows for; a waived one pays for itself; a booking     *)
(* moves at most MaxCost from the open items to the meter.                 *)
LEMMA CreditStep ==
  ASSUME MeterTypeOK, MeterTypeOK', CreditBound, [MeterNext]_meterVars
  PROVE  CreditBound'
<1> DEFINE n == Cardinality(Slots)
           k == Cardinality(open)
           l == Cardinality(open')
<1>1. /\ meter \in Nat /\ waived \in Nat /\ meter' \in Nat /\ waived' \in Nat
      /\ open \in SUBSET (Slots \X Parts) /\ open' \in SUBSET (Slots \X Parts)
  BY DEF MeterTypeOK
<1>2. n \in Nat /\ k \in Nat /\ l \in Nat /\ k <= 2 * n /\ l <= 2 * n
  BY <1>1, OpenIsBounded, MeterAssumption, FS_CardinalityType
<1>3. MaxCost \in Nat /\ Line \in Nat
  BY MeterAssumption
<1>4. /\ meter + MaxCost * k < Line + MaxCost * (2 * n + 2 * waived)
      /\ (meter' + MaxCost * l < Line + MaxCost * (2 * n + 2 * waived'))
           => CreditBound'
  BY <1>1, ExcessIsItems DEF CreditBound, Excess
<1> SUFFICES meter' + MaxCost * l < Line + MaxCost * (2 * n + 2 * waived')
  BY <1>4
<1>5. CASE meter' < Line
  <2>1. MaxCost * l <= MaxCost * (2 * n + 2 * waived')
    BY <1>1, <1>2, <1>3, Products, l <= 2 * n + 2 * waived'
  <2>2. MaxCost * l \in Nat /\ MaxCost * (2 * n + 2 * waived') \in Nat
    BY <1>1, <1>2, <1>3, Products
  <2> HIDE DEF n, l
  <2> QED
    BY <1>1, <1>3, <1>5, <2>1, <2>2
<1>6. ASSUME NEW r \in Slots, Admit(r)
      PROVE  meter' < Line
  BY <1>6 DEF Admit
<1>7. CASE Erase
  BY <1>5, <1>7, MeterAssumption DEF Erase
<1>8. ASSUME NEW r \in Slots, Waive(r)
      PROVE  meter' + MaxCost * l < Line + MaxCost * (2 * n + 2 * waived')
  <2>1. meter' = meter /\ waived' = waived + 1 /\ l <= k + 2
    BY <1>1, <1>8, OpeningAddsTwo DEF Waive
  <2>2. MaxCost * l <= MaxCost * (k + 2)
    BY <1>2, <1>3, <2>1, Products
  <2>3. MaxCost * (k + 2) = MaxCost * k + MaxCost * 2
    BY <1>2, <1>3, Products
  <2>4. MaxCost * (2 * n + 2 * waived') = MaxCost * (2 * n + 2 * waived) + MaxCost * 2
    <3>1. 2 * n + 2 * waived' = (2 * n + 2 * waived) + 2
      BY <1>1, <1>2, <2>1
    <3> QED
      BY <1>1, <1>2, <1>3, <3>1, Products
  <2>5. /\ MaxCost * l \in Nat /\ MaxCost * k \in Nat /\ MaxCost * 2 \in Nat
        /\ MaxCost * (2 * n + 2 * waived) \in Nat
    BY <1>1, <1>2, <1>3, Products
  <2> HIDE DEF n, k, l
  <2> QED
    BY <1>1, <1>3, <1>4, <2>1, <2>2, <2>3, <2>4, <2>5
<1>9. ASSUME NEW items \in SUBSET open, NEW c \in 0 .. MaxCost, Close(items, c)
      PROVE  meter' + MaxCost * l < Line + MaxCost * (2 * n + 2 * waived')
  <2>1. meter' = meter + c /\ waived' = waived /\ l + 1 <= k
    BY <1>1, <1>9, ClosingRemovesOne DEF Close
  <2>2. MaxCost * (l + 1) <= MaxCost * k
    BY <1>2, <1>3, <2>1, Products
  <2>3. MaxCost * (l + 1) = MaxCost * l + MaxCost * 1
    BY <1>2, <1>3, Products
  <2>4. MaxCost * 1 = MaxCost /\ c <= MaxCost /\ c \in Nat
    BY <1>3
  <2>5. /\ MaxCost * l \in Nat /\ MaxCost * k \in Nat
        /\ MaxCost * (2 * n + 2 * waived) \in Nat
    BY <1>1, <1>2, <1>3, Products
  <2> HIDE DEF n, k, l
  <2> QED
    BY <1>1, <1>3, <1>4, <2>1, <2>2, <2>3, <2>4, <2>5
<1>10. CASE UNCHANGED meterVars
  BY <1>4, <1>10 DEF meterVars
<1> QED
  BY <1>5, <1>6, <1>7, <1>8, <1>9, <1>10 DEF MeterNext

(* Even with everything open booked at full cost, the spend stays within   *)
(* the excess.                                                             *)
THEOREM MeterCredit == MeterSpec => []CreditBound
<1>1. MeterInit => CreditBound
  <2> SUFFICES ASSUME MeterInit PROVE CreditBound
    OBVIOUS
  <2>1. meter = 0 /\ Cardinality(open) = 0 /\ waived = 0
    BY FS_EmptySet DEF MeterInit
  <2>2. 2 * MaxCost * (Cardinality(Slots) + waived) \in Nat
    BY <2>1, ExcessIsItems, MeterAssumption, Products
  <2>3. MaxCost * Cardinality(open) = 0
    BY <2>1, MeterAssumption
  <2> QED
    BY <2>1, <2>2, <2>3, MeterAssumption DEF CreditBound, Excess
<1>2. MeterTypeOK /\ MeterTypeOK' /\ CreditBound /\ [MeterNext]_meterVars
        => CreditBound'
  BY CreditStep
<1> QED
  BY <1>1, <1>2, MeterType, PTL DEF MeterSpec

(* No budget is overspent by more than two items for every request in      *)
(* flight and every check that failed.                                     *)
THEOREM MeterOverspend == MeterSpec => []OverspendBound
<1>1. MeterTypeOK /\ CreditBound => OverspendBound
  <2> SUFFICES ASSUME MeterTypeOK, CreditBound PROVE OverspendBound
    OBVIOUS
  <2>1. meter \in Nat /\ waived \in Nat /\ Cardinality(open) \in Nat
    BY OpenIsBounded DEF MeterTypeOK
  <2>2. /\ MaxCost * Cardinality(open) \in Nat
        /\ 2 * MaxCost * (Cardinality(Slots) + waived) \in Nat
    BY <2>1, ExcessIsItems, MeterAssumption, Products
  <2> QED
    BY <2>1, <2>2, MeterAssumption DEF CreditBound, OverspendBound, Excess
<1> QED
  BY <1>1, MeterType, MeterCredit, PTL
=============================================================================
