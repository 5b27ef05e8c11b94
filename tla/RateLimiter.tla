---------------------------- MODULE RateLimiter ----------------------------
(***************************************************************************)
(* The rate limiter (internal/limiter/limiter.go), for one identifier: the *)
(* limiters of two identifiers share nothing but the lock.  Requests look  *)
(* the token bucket up, touch or create it and take a token from it, each  *)
(* in a step of its own, while a cleanup evicts buckets that were not used *)
(* for a while.                                                            *)
(***************************************************************************)
EXTENDS Integers, FiniteSets

CONSTANTS
  Hits,       \* requests of the identifier that can be in Allow at once
  Burst,      \* rate_limit.burst_size
  Rate,       \* tokens that flow back in one tick of the clock
  MaxStay,    \* ticks that a request may spend in Allow
  IdleLimit   \* ticks without use after which a bucket is evicted (30 min)

\* No request stays in Allow for nearly as long as a bucket lives unused.
\* Whether the bucket is full again by then is up to the configuration.
ASSUME LimiterAssumption ==
  /\ IsFiniteSet(Hits)
  /\ Burst \in Nat \ {0} /\ Rate \in Nat \ {0} /\ IdleLimit \in Nat
  /\ MaxStay \in Nat /\ MaxStay < IdleLimit

VARIABLES
  current,   \* the bucket in the map, None when there is none
  bucket,    \* every bucket that is in the map or held by a request
  slot,      \* where each request is and the bucket it holds
  ideal,     \* tokens left in a bucket that was never evicted; it may be
             \* overdrawn, and says by how much the limiter was too generous
  evictions  \* how often the bucket of the identifier was evicted

limiterVars == <<current, bucket, slot, ideal, evictions>>

None == 0
Buckets == 1 .. Cardinality(Hits) + 1

Unused == [tokens |-> 0, idle |-> 0]
Outside == [at |-> "idle", holds |-> None, stay |-> 0]

LimiterInit ==
  /\ current = None
  /\ bucket = [b \in Buckets |-> Unused]
  /\ slot = [s \in Hits |-> Outside]
  /\ ideal = Burst
  /\ evictions = 0

Least(m, n) == IF m <= n THEN m ELSE n

\* A bucket nobody refers to any more is garbage.
Referred(b, cur, ss) == b = cur \/ \E s \in Hits : ss[s].holds = b
Keep(bs, cur, ss) ==
  [b \in Buckets |-> IF Referred(b, cur, ss) THEN bs[b] ELSE Unused]

\* Allow reads the map under the read lock.
LookUp(s) ==
  /\ slot[s].at = "idle"
  /\ slot' = [slot EXCEPT ![s] =
       [at |-> IF current = None THEN "create" ELSE "touch",
        holds |-> current, stay |-> 0]]
  /\ UNCHANGED <<current, bucket, ideal, evictions>>

\* Mutant: the time of the last use is the time of the creation.
UsedBefore(b) == bucket[b].idle
UsedNow(b) == 0

\* It sets lastSeen, of the bucket it found, which may be evicted by now.
Touch(s) ==
  /\ slot[s].at = "touch"
  /\ bucket' = [bucket EXCEPT ![slot[s].holds].idle = UsedNow(slot[s].holds)]
  /\ slot' = [slot EXCEPT ![s].at = "take"]
  /\ UNCHANGED <<current, ideal, evictions>>

\* Mutant: the bucket starts with what one tick gives.
NewBucketAtRate == [tokens |-> Least(Rate, Burst - 1), idle |-> 0]
NewBucket == [tokens |-> Burst, idle |-> 0]

\* It looks again under the write lock and creates a bucket if there is none.
Create(s) ==
  /\ slot[s].at = "create"
  /\ IF current # None
       THEN /\ slot' = [slot EXCEPT ![s].at = "take", ![s].holds = current]
            /\ UNCHANGED <<current, bucket>>
       ELSE LET held == {slot[r].holds : r \in Hits}
                b == CHOOSE x \in Buckets : x \notin held IN
            /\ current' = b
            /\ bucket' = [bucket EXCEPT ![b] = NewBucket]
            /\ slot' = [slot EXCEPT ![s].at = "take", ![s].holds = b]
  /\ UNCHANGED <<ideal, evictions>>

\* rate.Limiter.Allow of the bucket it holds: admitted when a token is left.
Take(s) ==
  /\ slot[s].at = "take"
  /\ LET b == slot[s].holds
         admit == bucket[b].tokens >= 1
         left == [slot EXCEPT ![s] = Outside] IN
     /\ slot' = left
     /\ bucket' = Keep(IF admit THEN [bucket EXCEPT ![b].tokens = @ - 1]
                                ELSE bucket, current, left)
     /\ ideal' = IF admit THEN ideal - 1 ELSE ideal
  /\ UNCHANGED <<current, evictions>>

\* Time passes.
Flow(tokens) == Least(Burst, tokens + Rate)

LimiterTick ==
  /\ \A s \in Hits : slot[s].at = "idle" \/ slot[s].stay < MaxStay
  /\ bucket' = [b \in Buckets |->
       IF Referred(b, current, slot)
         THEN [tokens |-> Flow(bucket[b].tokens),
               idle |-> Least(IdleLimit + 1, bucket[b].idle + 1)]
         ELSE Unused]
  /\ slot' = [s \in Hits |->
       IF slot[s].at = "idle" THEN slot[s] ELSE [slot[s] EXCEPT !.stay = @ + 1]]
  /\ ideal' = Flow(ideal)
  /\ UNCHANGED <<current, evictions>>

\* StartCleanup, every five minutes.
Cleanup ==
  /\ current # None
  /\ bucket[current].idle > IdleLimit
  /\ current' = None
  /\ bucket' = Keep(bucket, None, slot)
  /\ evictions' = evictions + 1
  /\ UNCHANGED <<slot, ideal>>

LimiterNext ==
  \/ \E s \in Hits : LookUp(s) \/ Touch(s) \/ Create(s) \/ Take(s)
  \/ LimiterTick
  \/ Cleanup

LimiterSpec == LimiterInit /\ [][LimiterNext]_limiterVars

----------------------------------------------------------------------------
(* Properties.                                                             *)

LimiterTypeOK ==
  /\ current \in Buckets \cup {None}
  /\ \A b \in Buckets :
       bucket[b].tokens \in 0 .. Burst /\ bucket[b].idle \in 0 .. IdleLimit + 1
  /\ \A s \in Hits :
       /\ slot[s].at \in {"idle", "touch", "create", "take"}
       /\ slot[s].holds \in Buckets \cup {None}
       /\ slot[s].stay \in 0 .. MaxStay
  /\ evictions \in Nat

\* What an evicted bucket can lack to the full one that follows it, when every
\* request overdrew it and it then idled until it was evicted.
Shortfall ==
  LET gap == Burst + Cardinality(Hits) - Rate * (IdleLimit + 1 - MaxStay)
  IN IF gap > 0 THEN gap ELSE 0

\* Evictions while a request holds the bucket (limiter.go:60, :66) and the
\* fresh bucket that follows admit more than a bucket that is never evicted
\* would, but over any stretch of time at most one request for each that can
\* be in Allow at once, and with every eviction what the evicted bucket could
\* not have regained while it idled: nothing, when the rate fills the burst
\* before the idle limit.
RateBound == ideal >= -(Cardinality(Hits) + evictions * Shortfall)

\* Nor does the limiter ever refuse what that bucket would admit: whatever
\* bucket a request holds has at least as many tokens.
NeverStricter ==
  \A s \in Hits : slot[s].at \in {"touch", "take"} =>
    bucket[slot[s].holds].tokens >= ideal
=============================================================================
