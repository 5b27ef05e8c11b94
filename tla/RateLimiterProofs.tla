------------------------- MODULE RateLimiterProofs -------------------------
(* The rate limiter refuses nothing that a bucket which is never evicted   *)
(* would admit, and admits more than it only by one request for each that  *)
(* can be in Allow at once and by what every evicted bucket lacked, for    *)
(* any rate, burst, idle limit and number of requests.                     *)
EXTENDS RateLimiter, FiniteSetTheorems, TLAPS

LimiterTypes ==
  /\ current \in Buckets \cup {None}
  /\ bucket \in [Buckets -> [tokens : 0 .. Burst, idle : 0 .. IdleLimit + 1]]
  /\ slot \in [Hits -> [at : {"idle", "touch", "create", "take"},
                        holds : Buckets \cup {None}, stay : 0 .. MaxStay]]
  /\ ideal \in Int /\ ideal <= Burst
  /\ evictions \in Nat

\* Who is about to touch or to take from a bucket has one.
HoldersHold == \A s \in Hits : slot[s].at \in {"touch", "take"} => slot[s].holds \in Buckets

\* Every bucket that can still admit, the one in the map too, has at least
\* the tokens of the ideal one.
Generous ==
  \A b \in Buckets : Referred(b, current, slot) => bucket[b].tokens >= ideal

LimiterInv == LimiterTypes /\ HoldersHold /\ Generous

LEMMA NoneIsNoBucket == None \notin Buckets /\ Buckets \subseteq Nat
BY FS_CardinalityType, LimiterAssumption DEF None, Buckets

\* There is one bucket more than requests that can hold one.
LEMMA FreeBucket ==
  ASSUME slot \in [Hits -> [at : {"idle", "touch", "create", "take"},
                            holds : Buckets \cup {None}, stay : 0 .. MaxStay]]
  PROVE  \E b \in Buckets : b \notin {slot[r].holds : r \in Hits}
<1> DEFINE held == {slot[r].holds : r \in Hits}
           h == [r \in Hits |-> slot[r].holds]
<1>1. Cardinality(Hits) \in Nat
  BY FS_CardinalityType, LimiterAssumption
<1>2. IsFiniteSet(held) /\ Cardinality(held) <= Cardinality(Hits)
  <2>1. h \in Surjection(Hits, held)
    BY DEF Surjection
  <2> QED
    BY <2>1, FS_Surjection, LimiterAssumption DEF ExistsSurjection
<1>3. SUFFICES ASSUME Buckets \subseteq held PROVE FALSE
  OBVIOUS
<1>4. Cardinality(Buckets) <= Cardinality(held)
  BY <1>2, <1>3, FS_Subset
<1>5. Cardinality(Buckets) = Cardinality(Hits) + 1
  BY <1>1, FS_Interval DEF Buckets
<1>6. Cardinality(held) \in Nat
  BY <1>2, FS_CardinalityType
<1> QED
  BY <1>1, <1>2, <1>4, <1>5, <1>6

LEMMA LimiterStart == LimiterInit => LimiterInv
BY NoneIsNoBucket, LimiterAssumption
  DEF LimiterInit, LimiterInv, LimiterTypes, HoldersHold, Generous, Referred, Unused,
     Outside

LEMMA LookUpStep ==
  ASSUME LimiterInv, NEW s \in Hits, LookUp(s) PROVE LimiterInv'
<1> USE DEF LimiterInv
<1>1. LimiterTypes' /\ HoldersHold'
  BY LimiterAssumption DEF LookUp, LimiterTypes, HoldersHold
<1>2. Generous'
  BY NoneIsNoBucket DEF LookUp, LimiterTypes, Generous, Referred
<1> QED
  BY <1>1, <1>2

LEMMA TouchStep ==
  ASSUME LimiterInv, NEW s \in Hits, Touch(s) PROVE LimiterInv'
<1> USE DEF LimiterInv
<1>1. LimiterTypes' /\ HoldersHold'
  BY LimiterAssumption DEF Touch, UsedNow, LimiterTypes, HoldersHold
<1>2. \A b \in Buckets : bucket'[b].tokens = bucket[b].tokens
  BY DEF Touch, LimiterTypes
<1>3. Generous'
  BY <1>2 DEF Touch, LimiterTypes, Generous, Referred
<1> QED
  BY <1>1, <1>3

\* A new bucket is full, and none that somebody still holds.
LEMMA CreateStep ==
  ASSUME LimiterInv, NEW s \in Hits, Create(s) PROVE LimiterInv'
<1> USE DEF LimiterInv
<1>1. CASE current # None
  <2>1. LimiterTypes' /\ HoldersHold'
    BY <1>1 DEF Create, LimiterTypes, HoldersHold
  <2>2. Generous'
    BY <1>1 DEF Create, LimiterTypes, Generous, Referred
  <2> QED
    BY <2>1, <2>2
<1>2. CASE current = None
  <2>1. PICK b \in Buckets :
          /\ b \notin {slot[r].holds : r \in Hits}
          /\ current' = b
          /\ bucket' = [bucket EXCEPT ![b] = NewBucket]
          /\ slot' = [slot EXCEPT ![s].at = "take", ![s].holds = b]
    BY <1>2, FreeBucket DEF Create, LimiterTypes
  <2>2. LimiterTypes' /\ HoldersHold'
    BY <2>1, LimiterAssumption DEF Create, NewBucket, LimiterTypes, HoldersHold
  <2>3. Generous'
    BY <1>2, <2>1, LimiterAssumption DEF Create, NewBucket, LimiterTypes, Generous,
       Referred
  <2> QED
    BY <2>2, <2>3
<1> QED
  BY <1>1, <1>2

\* What a bucket gives, the ideal one gives too.
LEMMA TakeStep ==
  ASSUME LimiterInv, NEW s \in Hits, Take(s) PROVE LimiterInv'
<1> USE DEF LimiterInv
<1> DEFINE b == slot[s].holds
           admit == bucket[b].tokens >= 1
           drawn == IF admit THEN [bucket EXCEPT ![b].tokens = @ - 1] ELSE bucket
<1>1. b \in Buckets
  BY DEF Take, HoldersHold
<1>2. /\ slot' = [slot EXCEPT ![s] = Outside]
      /\ bucket' = Keep(drawn, current, slot')
      /\ ideal' = IF admit THEN ideal - 1 ELSE ideal
      /\ current' = current
  BY DEF Take
<1>3. drawn \in [Buckets -> [tokens : 0 .. Burst, idle : 0 .. IdleLimit + 1]]
  BY <1>1, LimiterAssumption DEF LimiterTypes
<1>4. LimiterTypes'
  <2>1. bucket' \in [Buckets -> [tokens : 0 .. Burst, idle : 0 .. IdleLimit + 1]]
    BY <1>2, <1>3, LimiterAssumption DEF Keep, Unused
  <2>2. slot' \in [Hits -> [at : {"idle", "touch", "create", "take"},
                            holds : Buckets \cup {None}, stay : 0 .. MaxStay]]
    BY <1>2, LimiterAssumption DEF LimiterTypes, Outside
  <2>3. evictions' = evictions
    BY DEF Take
  <2>4. ideal' \in Int /\ ideal' <= Burst
    BY <1>2, LimiterAssumption DEF LimiterTypes
  <2> QED
    BY <1>2, <2>1, <2>2, <2>3, <2>4 DEF LimiterTypes
<1>5. HoldersHold'
  BY <1>2 DEF LimiterTypes, HoldersHold, Outside
<1>6. ASSUME NEW c \in Buckets, Referred(c, current, slot)' PROVE bucket'[c].tokens >= ideal'
  <2>1. Referred(c, current, slot)
    BY <1>2, <1>6, NoneIsNoBucket DEF Referred, Outside, LimiterTypes
  <2>2. bucket'[c] = drawn[c]
    BY <1>2, <1>6 DEF Keep, Referred
  <2>3. bucket[c].tokens >= ideal
    BY <2>1 DEF Generous
  <2> QED
    BY <1>1, <1>2, <2>2, <2>3, LimiterAssumption DEF LimiterTypes
<1> QED
  BY <1>4, <1>5, <1>6 DEF Generous

\* What flows into the ideal bucket flows into every other, unless it is full.
LEMMA LimiterTicks == LimiterInv /\ LimiterTick => LimiterInv'
<1> SUFFICES ASSUME LimiterInv, LimiterTick PROVE LimiterInv'
  OBVIOUS
<1> USE DEF LimiterInv
<1>1. \A t \in 0 .. Burst : Flow(t) \in 0 .. Burst
  BY LimiterAssumption DEF Flow, Least
<1>2. \A i \in 0 .. IdleLimit + 1 : Least(IdleLimit + 1, i + 1) \in 0 .. IdleLimit + 1
  BY LimiterAssumption DEF Least
<1>3. \A r \in Hits : /\ slot'[r].at = slot[r].at
                      /\ slot'[r].holds = slot[r].holds
  BY DEF LimiterTick, LimiterTypes
<1>4. bucket' \in [Buckets -> [tokens : 0 .. Burst, idle : 0 .. IdleLimit + 1]]
  BY <1>1, <1>2, LimiterAssumption DEF LimiterTick, LimiterTypes, Unused
<1>5. slot' \in [Hits -> [at : {"idle", "touch", "create", "take"},
                          holds : Buckets \cup {None}, stay : 0 .. MaxStay]]
  BY LimiterAssumption DEF LimiterTick, LimiterTypes
<1>6. ideal' \in Int /\ ideal' <= Burst
  BY LimiterAssumption DEF LimiterTick, LimiterTypes, Flow, Least
<1>7. LimiterTypes'
  BY <1>4, <1>5, <1>6 DEF LimiterTypes, LimiterTick
<1>8. HoldersHold'
  BY <1>3 DEF HoldersHold
<1>9. ASSUME NEW c \in Buckets, Referred(c, current, slot)' PROVE bucket'[c].tokens >= ideal'
  <2>1. Referred(c, current, slot)
    BY <1>3, <1>9 DEF Referred, LimiterTick
  <2>2. bucket'[c].tokens = Flow(bucket[c].tokens) /\ ideal' = Flow(ideal)
    BY <2>1 DEF LimiterTick
  <2>3. bucket[c].tokens >= ideal
    BY <2>1 DEF Generous
  <2>4. bucket[c].tokens \in Int
    BY LimiterAssumption DEF LimiterTypes
  <2> QED
    BY <2>2, <2>3, <2>4, LimiterAssumption DEF LimiterTypes, Flow, Least
<1> QED
  BY <1>7, <1>8, <1>9 DEF Generous

LEMMA CleanupStep == LimiterInv /\ Cleanup => LimiterInv'
<1> SUFFICES ASSUME LimiterInv, Cleanup PROVE LimiterInv'
  OBVIOUS
<1> USE DEF LimiterInv
<1>1. LimiterTypes' /\ HoldersHold'
  BY LimiterAssumption DEF Cleanup, Keep, Unused, LimiterTypes, HoldersHold
<1>2. ASSUME NEW c \in Buckets, Referred(c, current, slot)' PROVE bucket'[c].tokens >= ideal'
  <2>1. Referred(c, current, slot) /\ Referred(c, None, slot)
    BY <1>2, NoneIsNoBucket DEF Cleanup, Referred
  <2> QED
    BY <2>1 DEF Cleanup, Keep, Generous
<1> QED
  BY <1>1, <1>2 DEF Generous

LEMMA LimiterStep == LimiterInv /\ [LimiterNext]_limiterVars => LimiterInv'
<1> SUFFICES ASSUME LimiterInv, [LimiterNext]_limiterVars PROVE LimiterInv'
  OBVIOUS
<1>1. ASSUME NEW s \in Hits, LookUp(s) \/ Touch(s) \/ Create(s) \/ Take(s) PROVE LimiterInv'
  BY <1>1, LookUpStep, TouchStep, CreateStep, TakeStep
<1>2. CASE LimiterTick
  BY <1>2, LimiterTicks
<1>3. CASE Cleanup
  BY <1>3, CleanupStep
<1>4. CASE UNCHANGED limiterVars
  BY <1>4 DEF limiterVars, LimiterInv, LimiterTypes, HoldersHold, Generous, Referred
<1> QED
  BY <1>1, <1>2, <1>3, <1>4 DEF LimiterNext

\* Every bucket keeps within its burst, and every clock within its limit.
THEOREM LimiterType == LimiterSpec => []LimiterTypeOK
<1>1. LimiterInv => LimiterTypeOK
  BY DEF LimiterInv, LimiterTypes, LimiterTypeOK
<1> QED
  BY LimiterStart, LimiterStep, <1>1, PTL DEF LimiterSpec

\* Evictions, stale buckets and fresh ones never make the limiter refuse what
\* a bucket that is never evicted would admit (limiter.go:53-86).
THEOREM LimiterNeverStricter == LimiterSpec => []NeverStricter
<1>1. LimiterInv => NeverStricter
  BY DEF LimiterInv, HoldersHold, Generous, Referred, NeverStricter
<1> QED
  BY LimiterStart, LimiterStep, <1>1, PTL DEF LimiterSpec
----------------------------------------------------------------------------
(* How much more than the ideal bucket the limiter admits.                 *)

\* Who holds a bucket.
Placed ==
  \A s \in Hits :
    /\ slot[s].at \in {"idle", "create"} => slot[s].holds = None
    /\ slot[s].at \in {"touch", "take"} => slot[s].holds # None

\* The requests that hold a bucket that was evicted.
Orphans == {s \in Hits : slot[s].holds \notin {None, current}}

Level == IF current = None THEN Burst ELSE bucket[current].tokens

\* What the fresh buckets gave.
Extra == evictions * Shortfall

\* The ideal bucket is behind the one in the map by at most what fresh buckets
\* gave, and one token for every request that holds no evicted one.
Allowance == ideal >= Level - Cardinality(Hits \ Orphans) - Extra

\* A request that will take a token, and not touch the bucket in the map
\* before, entered no longer ago than that bucket was last used.
Pending(s) ==
  \/ slot[s].at \in {"create", "take"}
  \/ slot[s].at = "touch" /\ slot[s].holds # current

RecentUse ==
  current # None =>
    \A s \in Hits : Pending(s) => bucket[current].idle <= slot[s].stay

\* While the bucket in the map is not used the ideal one fills up, from as
\* far below zero as it may be.
Recovered ==
  current # None /\ bucket[current].idle > MaxStay =>
    \/ ideal >= Burst
    \/ ideal >= Rate * (bucket[current].idle - MaxStay) - Cardinality(Hits) - Extra

RateInv == Placed /\ Allowance /\ RecentUse /\ Recovered

(* Sets of requests are finite, and one more counts one more at most.      *)
LEMMA RequestsCounted ==
  ASSUME NEW S \in SUBSET Hits
  PROVE  /\ Cardinality(Hits) \in Nat /\ Cardinality(S) \in Nat
         /\ Cardinality(S) <= Cardinality(Hits)
         /\ \A s \in Hits \ S : Cardinality(S \cup {s}) = Cardinality(S) + 1
<1>1. IsFiniteSet(S) /\ Cardinality(S) <= Cardinality(Hits)
  BY LimiterAssumption, FS_Subset
<1> QED
  BY <1>1, LimiterAssumption, FS_CardinalityType, FS_AddElement

(* The fields of the limiter's records.                                    *)
LEMMA FieldTypes ==
  ASSUME LimiterTypes
  PROVE  /\ Burst \in Nat \ {0} /\ Rate \in Nat \ {0} /\ MaxStay \in Nat
         /\ IdleLimit \in Nat /\ MaxStay < IdleLimit
         /\ \A b \in Buckets : bucket[b].tokens \in 0 .. Burst
                               /\ bucket[b].idle \in 0 .. IdleLimit + 1
         /\ \A s \in Hits : slot[s].stay \in 0 .. MaxStay
         /\ current # None => current \in Buckets
         /\ Level \in 0 .. Burst /\ ideal \in Int /\ ideal <= Burst
  BY LimiterAssumption DEF LimiterTypes, Level

(* Fresh buckets give tokens and never take any, each as many.             *)
LEMMA ExtraCounts ==
  ASSUME LimiterTypes
  PROVE  /\ Shortfall \in Nat /\ Extra \in Nat
         /\ Shortfall >= Burst + Cardinality(Hits) - Rate * (IdleLimit + 1 - MaxStay)
         /\ evictions' = evictions => Extra' = Extra
         /\ evictions' = evictions + 1 => Extra' = Extra + Shortfall
<1> DEFINE gap == Burst + Cardinality(Hits) - Rate * (IdleLimit + 1 - MaxStay)
<1>1. gap \in Int
  <2>1. Rate * (IdleLimit + 1 - MaxStay) \in Int
    BY LimiterAssumption
  <2> QED
    BY <2>1, LimiterAssumption, FS_CardinalityType
<1>2. Shortfall = IF gap > 0 THEN gap ELSE 0
  BY DEF Shortfall
<1>3. Shortfall \in Nat /\ Shortfall >= gap
  <2> HIDE DEF gap
  <2> QED
    BY <1>1, <1>2
<1>4. evictions \in Nat
  BY DEF LimiterTypes
<1>5. Shortfall' = Shortfall
  BY DEF Shortfall
<1>6. \A e, m \in Nat : e * m \in Nat /\ (e + 1) * m = e * m + m
  OBVIOUS
<1> QED
  BY <1>3, <1>4, <1>5, <1>6 DEF Extra

(* The ideal bucket is overdrawn by at most one token a request, and what  *)
(* fresh buckets gave.                                                     *)
LEMMA AllowanceBounds ==
  ASSUME LimiterTypes, Allowance
  PROVE  RateBound
<1>1. /\ Cardinality(Hits \ Orphans) \in Nat /\ Cardinality(Hits) \in Nat
      /\ Cardinality(Hits \ Orphans) <= Cardinality(Hits)
  BY RequestsCounted
<1>2. RateBound <=> ideal >= -(Cardinality(Hits) + Extra)
  BY DEF RateBound, Extra
<1> QED
  BY <1>1, <1>2, FieldTypes, ExtraCounts DEF Allowance

(* Looking up, touching and creating take no token.                        *)
LEMMA LookUpRate ==
  ASSUME LimiterTypes, RateInv, NEW s \in Hits, LookUp(s)
  PROVE  RateInv'
<1> USE DEF RateInv
<1>1. /\ slot'[s].holds = current
      /\ slot'[s].at = IF current = None THEN "create" ELSE "touch"
      /\ \A r \in Hits \ {s} : slot'[r] = slot[r]
      /\ slot[s].holds = None
      /\ UNCHANGED <<current, bucket, ideal, evictions>>
  BY DEF LookUp, LimiterTypes, Placed
<1>2. Placed' /\ RecentUse'
  BY <1>1 DEF Placed, RecentUse, Pending
<1>3. Orphans' = Orphans
  BY <1>1 DEF Orphans
<1>4. Extra' = Extra
  BY <1>1, ExtraCounts
<1>5. Allowance'
  BY <1>1, <1>3, <1>4 DEF Allowance, Level
<1> QED
  BY <1>1, <1>2, <1>4, <1>5 DEF Recovered

\* A touched bucket has just been used.
LEMMA TouchRate ==
  ASSUME LimiterTypes, HoldersHold, RateInv, NEW s \in Hits, Touch(s)
  PROVE  RateInv'
<1> USE DEF RateInv
<1>1. /\ slot[s].at = "touch" /\ slot'[s].at = "take"
      /\ slot'[s].holds = slot[s].holds /\ slot'[s].stay = slot[s].stay
      /\ \A r \in Hits \ {s} : slot'[r] = slot[r]
      /\ slot[s].holds \in Buckets
      /\ UNCHANGED <<current, ideal, evictions>>
  BY DEF Touch, LimiterTypes, HoldersHold
<1>2. /\ \A b \in Buckets : bucket'[b].tokens = bucket[b].tokens
      /\ \A b \in Buckets \ {slot[s].holds} : bucket'[b].idle = bucket[b].idle
      /\ bucket'[slot[s].holds].idle = 0
  BY <1>1 DEF Touch, UsedNow, LimiterTypes
<1>3. Placed'
  BY <1>1 DEF Placed
<1>4. Orphans' = Orphans
  BY <1>1 DEF Orphans
<1>0. Extra' = Extra
  BY <1>1, ExtraCounts
<1>5. Allowance'
  <2>1. Level' = Level
    BY <1>1, <1>2, FieldTypes DEF Level
  <2> QED
    BY <1>0, <1>1, <1>4, <2>1 DEF Allowance
<1>6. CASE slot[s].holds = current
  <2>1. bucket'[current'].idle = 0
    BY <1>1, <1>2, <1>6
  <2>2. \A r \in Hits : 0 <= slot'[r].stay
    BY <1>1, FieldTypes
  <2> QED
    BY <1>3, <1>5, <2>1, <2>2, FieldTypes DEF RecentUse, Recovered
<1>7. CASE slot[s].holds # current
  <2>1. current # None => bucket'[current'].idle = bucket[current].idle
    BY <1>1, <1>2, <1>7, FieldTypes
  <2>2. \A r \in Hits : Pending(r)' => Pending(r) /\ slot'[r].stay = slot[r].stay
    BY <1>1, <1>7 DEF Pending
  <2> QED
    BY <1>0, <1>1, <1>3, <1>5, <2>1, <2>2 DEF RecentUse, Recovered
<1> QED
  BY <1>6, <1>7

\* The bucket it creates is full, as an empty map counts.
LEMMA CreateRate ==
  ASSUME LimiterTypes, RateInv, NEW s \in Hits, Create(s)
  PROVE  RateInv'
<1> USE DEF RateInv
<1>0. /\ slot[s].at = "create" /\ slot[s].holds = None /\ ideal' = ideal
      /\ Extra' = Extra
  BY ExtraCounts DEF Create, Placed
<1>1. CASE current # None
  <2>1. /\ slot'[s].at = "take" /\ slot'[s].holds = current
        /\ slot'[s].stay = slot[s].stay
        /\ \A r \in Hits \ {s} : slot'[r] = slot[r]
        /\ UNCHANGED <<current, bucket>>
    BY <1>1 DEF Create, LimiterTypes
  <2>2. Placed'
    BY <1>1, <2>1 DEF Placed
  <2>3. Orphans' = Orphans
    BY <1>0, <2>1 DEF Orphans
  <2>4. Allowance'
    BY <1>0, <2>1, <2>3 DEF Allowance, Level
  <2>5. RecentUse'
    BY <1>0, <2>1 DEF RecentUse, Pending
  <2> QED
    BY <1>0, <2>1, <2>2, <2>4, <2>5 DEF Recovered
<1>2. CASE current = None
  <2>1. PICK b \in Buckets :
          /\ b \notin {slot[r].holds : r \in Hits}
          /\ current' = b
          /\ bucket' = [bucket EXCEPT ![b] = NewBucket]
          /\ slot' = [slot EXCEPT ![s].at = "take", ![s].holds = b]
    BY <1>2, FreeBucket DEF Create, LimiterTypes
  <2>2. /\ slot'[s].at = "take" /\ slot'[s].holds = b
        /\ slot'[s].stay = slot[s].stay
        /\ \A r \in Hits \ {s} : slot'[r] = slot[r]
        /\ bucket'[b].tokens = Burst /\ bucket'[b].idle = 0
    BY <2>1 DEF LimiterTypes, NewBucket
  <2>3. b # None
    BY NoneIsNoBucket
  <2>4. Placed'
    BY <2>2, <2>3 DEF Placed
  <2>5. Orphans' = Orphans
    BY <1>0, <1>2, <2>1, <2>2, <2>3 DEF Orphans
  <2>6. Allowance'
    BY <1>0, <1>2, <2>1, <2>2, <2>3, <2>5 DEF Allowance, Level
  <2>7. \A r \in Hits : 0 <= slot'[r].stay
    BY <2>2, FieldTypes
  <2>8. bucket'[current'].idle = 0 /\ MaxStay >= 0
    BY <2>1, <2>2, FieldTypes
  <2>9. RecentUse'
    BY <2>7, <2>8 DEF RecentUse
  <2>10. Recovered'
    BY <2>8, FieldTypes DEF Recovered
  <2> QED
    BY <2>4, <2>6, <2>9, <2>10
<1> QED
  BY <1>1, <1>2

\* A token of the bucket in the map is one of the ideal one as well; a token
\* of an evicted one ends the hold of its request.
LEMMA TakeRate ==
  ASSUME LimiterTypes, HoldersHold, RateInv, NEW s \in Hits, Take(s)
  PROVE  RateInv'
<1> USE DEF RateInv
<1> DEFINE b == slot[s].holds
           admit == bucket[b].tokens >= 1
           drawn == IF admit THEN [bucket EXCEPT ![b].tokens = @ - 1] ELSE bucket
<1>1. /\ slot[s].at = "take" /\ b \in Buckets /\ b # None
      /\ slot' = [slot EXCEPT ![s] = Outside]
      /\ bucket' = Keep(drawn, current, slot')
      /\ ideal' = IF admit THEN ideal - 1 ELSE ideal
      /\ current' = current /\ Extra' = Extra
  BY NoneIsNoBucket, ExtraCounts DEF Take, HoldersHold
<1>2. /\ slot'[s].at = "idle" /\ slot'[s].holds = None
      /\ \A r \in Hits \ {s} : slot'[r] = slot[r]
  BY <1>1 DEF LimiterTypes, Outside
<1>3. Placed'
  BY <1>2 DEF Placed
<1>4. current # None => bucket'[current] = drawn[current]
  BY <1>1, FieldTypes DEF Keep, Referred
<1>5. current # None => drawn[current].idle = bucket[current].idle
  BY <1>1, FieldTypes DEF LimiterTypes
<1>6. current # None => bucket[current].idle <= slot[s].stay
  BY <1>1 DEF RecentUse, Pending
<1>7. RecentUse'
  BY <1>1, <1>2, <1>4, <1>5 DEF RecentUse, Pending
<1>8. Recovered'
  <2> HIDE DEF b, admit, drawn
  <2>1. current # None => bucket'[current].idle = bucket[current].idle
    BY <1>4, <1>5
  <2>2. current # None => bucket[current].idle \in Nat
    BY FieldTypes
  <2>3. slot[s].stay \in Nat /\ slot[s].stay <= MaxStay /\ MaxStay \in Nat
    BY FieldTypes
  <2>4. current # None => ~(bucket'[current].idle > MaxStay)
    BY <1>6, <2>1, <2>2, <2>3
  <2> QED
    BY <1>1, <2>4 DEF Recovered
<1>9. Hits \ Orphans \in SUBSET Hits /\ Cardinality(Hits \ Orphans) \in Nat
  BY RequestsCounted
<1>10. Allowance'
  <2>1. CASE b = current
    <3>1. Orphans' = Orphans
      BY <1>1, <1>2, <2>1 DEF Orphans
    <3>2. /\ Level = bucket[current].tokens /\ Level' = drawn[current].tokens
          /\ drawn[current].tokens =
               IF admit THEN bucket[current].tokens - 1 ELSE bucket[current].tokens
      BY <1>1, <1>4, <2>1 DEF Level, LimiterTypes
    <3> HIDE DEF admit
    <3> QED
      BY <1>1, <1>9, <3>1, <3>2, FieldTypes, ExtraCounts DEF Allowance
  <2>2. CASE b # current
    <3>1. s \in Orphans /\ Hits \ Orphans' = (Hits \ Orphans) \cup {s}
      BY <1>1, <1>2, <2>2 DEF Orphans
    <3>2. Cardinality(Hits \ Orphans') = Cardinality(Hits \ Orphans) + 1
      BY <3>1, RequestsCounted
    <3>3. Level' = Level
      BY <1>1, <1>4, <2>2, FieldTypes DEF Level, LimiterTypes
    <3> HIDE DEF admit
    <3> QED
      BY <1>1, <1>9, <3>2, <3>3, FieldTypes, ExtraCounts DEF Allowance
  <2> QED
    BY <2>1, <2>2
<1> QED
  BY <1>3, <1>7, <1>8, <1>10

\* What flows in keeps the distance, and fills the ideal bucket up while the
\* one in the map idles.
LEMMA TickRate ==
  ASSUME LimiterTypes, RateInv, LimiterTick
  PROVE  RateInv'
<1> USE DEF RateInv
<1> DEFINE idle == bucket[current].idle
           n == Cardinality(Hits) + Extra
<1>1. /\ current' = current /\ ideal' = Flow(ideal) /\ Extra' = Extra
      /\ \A r \in Hits : /\ slot'[r].at = slot[r].at /\ slot'[r].holds = slot[r].holds
                         /\ slot[r].at # "idle" => slot'[r].stay = slot[r].stay + 1
      /\ current # None =>
           /\ bucket'[current].tokens = Flow(bucket[current].tokens)
           /\ bucket'[current].idle = Least(IdleLimit + 1, idle + 1)
  BY FieldTypes, ExtraCounts DEF LimiterTick, LimiterTypes, Referred
<1>2. Placed' /\ Orphans' = Orphans
  BY <1>1 DEF Placed, Orphans
<1>3. Level' = Flow(Level)
  BY <1>1, FieldTypes DEF Level, Flow, Least
<1>4. n \in Nat /\ Cardinality(Hits \ Orphans) \in Nat
  BY RequestsCounted, ExtraCounts
<1>5. Allowance'
  <2>1. Cardinality(Hits \ Orphans)' = Cardinality(Hits \ Orphans)
    BY <1>2
  <2> QED
    BY <1>1, <1>3, <1>4, <2>1, FieldTypes, ExtraCounts DEF Allowance, Flow, Least
<1>6. current # None =>
        /\ idle \in 0 .. IdleLimit + 1
        /\ bucket'[current].idle \in Nat /\ bucket'[current].idle <= idle + 1
  BY <1>1, FieldTypes DEF Least
<1>7. RecentUse'
  <2>1. ASSUME current # None, NEW r \in Hits, Pending(r)'
        PROVE  bucket'[current].idle <= slot'[r].stay
    <3>1. Pending(r) /\ slot'[r].stay = slot[r].stay + 1
      BY <1>1, <2>1 DEF Pending
    <3>2. idle <= slot[r].stay
      BY <2>1, <3>1 DEF RecentUse
    <3> QED
      BY <1>6, <2>1, <3>1, <3>2, FieldTypes
  <2> QED
    BY <1>1, <2>1 DEF RecentUse
<1>8. Recovered'
  <2> DEFINE later == bucket'[current].idle
  <2> SUFFICES ASSUME current # None, later > MaxStay
               PROVE  \/ ideal' >= Burst
                      \/ ideal' >= Rate * (later - MaxStay) - n
    <3>1. current # None => Rate * (later - MaxStay) \in Int
      BY <1>6, FieldTypes
    <3>2. Recovered' <=>
            (current # None /\ later > MaxStay =>
               \/ ideal' >= Burst
               \/ ideal' >= Rate * (later - MaxStay) - Cardinality(Hits) - Extra)
      BY <1>1 DEF Recovered
    <3>3. \A x \in Int : x - Cardinality(Hits) - Extra = x - n
      BY RequestsCounted, ExtraCounts
    <3> QED
      BY <3>1, <3>2, <3>3
  <2>1. later \in Nat /\ later <= idle + 1 /\ idle \in Nat
    BY <1>6
  <2>2. ideal' = Burst \/ ideal' = ideal + Rate
    BY <1>1 DEF Flow, Least
  <2>3. ideal >= -n
    BY AllowanceBounds DEF RateBound, Extra
  <2>4. CASE idle <= MaxStay
    <3>1. later - MaxStay = 1
      BY <2>1, <2>4, FieldTypes
    <3>2. Rate * (later - MaxStay) = Rate
      BY <3>1, FieldTypes
    <3> HIDE DEF later, idle, n
    <3> QED
      BY <1>4, <2>2, <2>3, <3>2, FieldTypes
  <2>5. CASE idle > MaxStay /\ ideal >= Burst
    BY <1>1, <2>5, FieldTypes DEF Flow, Least
  <2>6. CASE idle > MaxStay /\ ideal >= Rate * (idle - MaxStay) - n
    <3>1. Rate * (later - MaxStay) <= Rate * (idle - MaxStay) + Rate
      <4>1. ASSUME NEW x \in Nat, NEW y \in Nat, x <= y + 1
            PROVE  Rate * x <= Rate * y + Rate
        BY <4>1, FieldTypes
      <4>2. /\ later - MaxStay \in Nat /\ idle - MaxStay \in Nat
            /\ later - MaxStay <= (idle - MaxStay) + 1
        BY <2>1, <2>6, FieldTypes
      <4> HIDE DEF later, idle
      <4> QED
        BY <4>1, <4>2
    <3>2. Rate * (later - MaxStay) \in Int /\ Rate * (idle - MaxStay) \in Int
      BY <2>1, FieldTypes
    <3> HIDE DEF later, idle, n
    <3> QED
      BY <1>4, <2>2, <2>6, <3>1, <3>2, FieldTypes
  <2>7. idle <= MaxStay \/ idle > MaxStay
    BY <2>1, FieldTypes
  <2>8. idle > MaxStay =>
          ideal >= Burst \/ ideal >= Rate * (idle - MaxStay) - n
    <3>1. Rate * (idle - MaxStay) \in Int
      BY <2>1, FieldTypes
    <3>2. \A x \in Int : x - Cardinality(Hits) - Extra = x - n
      BY RequestsCounted, ExtraCounts
    <3> QED
      BY <3>1, <3>2 DEF Recovered
  <2> QED
    BY <2>4, <2>5, <2>6, <2>7, <2>8
<1> QED
  BY <1>2, <1>5, <1>7, <1>8

\* When a bucket is evicted the ideal one lacks no more than the shortfall.
LEMMA CleanupRate ==
  ASSUME LimiterTypes, RateInv, Cleanup
  PROVE  RateInv'
<1> USE DEF RateInv
<1> DEFINE idle == bucket[current].idle
           n == Cardinality(Hits)
<1>1. /\ current # None /\ idle > IdleLimit /\ current' = None
      /\ UNCHANGED <<slot, ideal>> /\ Extra' = Extra + Shortfall
  BY ExtraCounts DEF Cleanup
<1>2. Placed' /\ RecentUse' /\ Recovered'
  BY <1>1 DEF Placed, RecentUse, Recovered
<1>3. idle \in Nat /\ n \in Nat
  BY <1>1, RequestsCounted, FieldTypes
<1>4. ideal >= Burst - Extra'
  <2>1. ideal >= Burst \/ ideal >= Rate * (idle - MaxStay) - n - Extra
    BY <1>1, <1>3, FieldTypes DEF Recovered
  <2>2. Rate * (IdleLimit + 1 - MaxStay) <= Rate * (idle - MaxStay)
    <3>1. ASSUME NEW x \in Nat, NEW y \in Nat, x <= y
          PROVE  Rate * x <= Rate * y
      BY <3>1, FieldTypes
    <3>2. /\ IdleLimit + 1 - MaxStay \in Nat /\ idle - MaxStay \in Nat
          /\ IdleLimit + 1 - MaxStay <= idle - MaxStay
      BY <1>1, <1>3, FieldTypes
    <3> HIDE DEF idle
    <3> QED
      BY <3>1, <3>2
  <2>3. /\ Rate * (IdleLimit + 1 - MaxStay) \in Int
        /\ Rate * (idle - MaxStay) \in Int
    BY <1>3, FieldTypes
  <2>4. /\ Shortfall \in Nat /\ Extra \in Nat
        /\ Shortfall >= Burst + n - Rate * (IdleLimit + 1 - MaxStay)
    BY ExtraCounts
  <2> HIDE DEF idle, n
  <2> QED
    BY <1>1, <1>3, <2>1, <2>2, <2>3, <2>4, FieldTypes
<1>5. Cardinality(Hits \ Orphans') \in Nat
  BY RequestsCounted DEF Orphans
<1>6. Level' = Burst
  BY <1>1 DEF Level
<1>7. Allowance'
  <2>1. Extra' \in Nat
    BY <1>1, ExtraCounts
  <2> QED
    BY <1>1, <1>4, <1>5, <1>6, <2>1, FieldTypes DEF Allowance
<1> QED
  BY <1>2, <1>7

\* Every step keeps the ideal bucket within reach.
LEMMA StepRate ==
  LimiterInv /\ RateInv /\ [LimiterNext]_limiterVars => RateInv'
<1> SUFFICES ASSUME LimiterInv, RateInv, [LimiterNext]_limiterVars PROVE RateInv'
  OBVIOUS
<1>0. LimiterTypes /\ HoldersHold
  BY DEF LimiterInv
<1>1. ASSUME NEW s \in Hits, LookUp(s) \/ Touch(s) \/ Create(s) \/ Take(s) PROVE RateInv'
  BY <1>0, <1>1, LookUpRate, TouchRate, CreateRate, TakeRate
<1>2. CASE LimiterTick
  BY <1>0, <1>2, TickRate
<1>3. CASE Cleanup
  BY <1>0, <1>3, CleanupRate
<1>4. CASE UNCHANGED limiterVars
  BY <1>4 DEF limiterVars, RateInv, Placed, Allowance, Orphans, Level, Extra,
              RecentUse, Pending, Recovered
<1> QED
  BY <1>1, <1>2, <1>3, <1>4 DEF LimiterNext

\* Whatever buckets are evicted and created meanwhile, the limiter admits more
\* than a bucket that is never evicted would, but at most one request for each
\* that can be in Allow at once, and the shortfall with every eviction
\* (limiter.go:53-86, StartCleanup).
THEOREM LimiterRate == LimiterSpec => []RateBound
<1>1. LimiterInit => RateInv
  <2> SUFFICES ASSUME LimiterInit PROVE RateInv
    OBVIOUS
  <2>1. Cardinality(Hits \ Orphans) \in Nat
    BY RequestsCounted
  <2>2. Placed /\ RecentUse /\ Recovered
    BY DEF LimiterInit, Placed, RecentUse, Recovered, Outside
  <2>3. Level = Burst /\ ideal = Burst
    BY DEF LimiterInit, Level
  <2>5. Extra = 0
    <3>1. LimiterTypes
      BY LimiterStart DEF LimiterInv
    <3>2. Shortfall \in Nat /\ evictions = 0
      BY <3>1, ExtraCounts DEF LimiterInit
    <3> QED
      BY <3>2 DEF Extra
  <2>4. Allowance
    BY <2>1, <2>3, <2>5, LimiterAssumption DEF Allowance
  <2> QED
    BY <2>2, <2>4 DEF RateInv
<1>2. LimiterInv /\ RateInv => RateBound
  BY AllowanceBounds DEF LimiterInv, RateInv
<1> QED
  BY LimiterStart, LimiterStep, StepRate, <1>1, <1>2, PTL DEF LimiterSpec
=============================================================================
