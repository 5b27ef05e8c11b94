--------------------------- MODULE ClusterProofs ---------------------------
(* Two nodes lead only while the call of one is as late as the lease is    *)
(* long, and the nodes together overspend by no more than each of them     *)
(* would alone, for any number of nodes, any lease, period and limit, and  *)
(* whatever is lost, late or restarted.                                    *)
EXTENDS Cluster, FiniteSetTheorems, TLAPS

Steps == {"wait", "sent", "granted", "refused"}

Ages == 0 .. TTL
ElectionRecord == [leader : BOOLEAN, since : 0 .. Period - 1, due : BOOLEAN,
              at : Steps, age : Ages, late : BOOLEAN, granted : Ages]

ElectionTypeOK ==
  /\ lease \in [holder : Nodes \cup {NoNode}, left : Nat]
  /\ node \in [Nodes -> ElectionRecord]

\* What n was granted less than a lease ago is the lease, for as long as t ticks
\* before leave of it.
Renewed(n, t) == t < TTL => lease.holder = n /\ lease.left >= TTL - t

\* A leader was granted the lease; a node that was granted it and has not heard
\* of it has asked for it no later than it was set.
LeaseKept(n) ==
  /\ node[n].leader => Renewed(n, node[n].granted)
  /\ node[n].at = "granted" => Renewed(n, node[n].age)

ClusterInv == ElectionTypeOK /\ \A n \in Nodes : LeaseKept(n)

LEMMA ElectionInit == ClusterInit => ClusterInv
<1> SUFFICES ASSUME ClusterInit PROVE ClusterInv
  OBVIOUS
<1>1. \A n \in Nodes : /\ node[n].at = "wait" /\ ~node[n].leader
                       /\ node[n].since \in 0 .. Period - 1
                       /\ node[n] = [Started EXCEPT !.since = node[n].since]
  <2> TAKE n \in Nodes
  <2>1. PICK t \in 0 .. Period - 1 : node[n] = [Started EXCEPT !.since = t]
    BY DEF ClusterInit
  <2> QED
    BY <2>1 DEF Started
<1>2. node = [n \in Nodes |-> node[n]]
  BY DEF ClusterInit
<1>3. ElectionTypeOK
  <2>1. 0 \in Ages /\ TTL \in Ages
    BY ClusterAssumption DEF Ages
  <2>2. \A n \in Nodes : node[n] \in ElectionRecord
    BY <1>1, <2>1 DEF Started, Steps, ElectionRecord
  <2>3. lease \in [holder : Nodes \cup {NoNode}, left : Nat]
    BY DEF ClusterInit, Free
  <2> QED
    BY <1>2, <2>2, <2>3 DEF ElectionTypeOK
<1>4. \A n \in Nodes : LeaseKept(n)
  BY <1>1 DEF LeaseKept
<1> QED
  BY <1>3, <1>4 DEF ClusterInv

\* Who holds the lease keeps it while less than its time has passed.
LEMMA ElectionTick == ClusterInv /\ ClusterTick => ClusterInv'
<1> SUFFICES ASSUME ClusterInv, ClusterTick PROVE ClusterInv'
  OBVIOUS
<1> USE DEF ClusterInv, ElectionTypeOK, ElectionRecord
<1>1. \A t \in Ages : Older(t) \in Ages /\ (Older(t) < TTL => Older(t) = t + 1)
  BY ClusterAssumption DEF Older, Ages
<1>2. \A t \in 0 .. Period - 1 : (t + 1) % Period \in 0 .. Period - 1
  BY ClusterAssumption
<1>3. \A n \in Nodes : /\ node'[n].at = node[n].at
                       /\ node'[n].leader = node[n].leader
                       /\ node'[n].granted = Older(node[n].granted)
                       /\ node[n].at # "wait" => node'[n].age = Older(node[n].age)
  BY DEF ClusterTick
<1>4. ElectionTypeOK'
  <2>1. lease' \in [holder : Nodes \cup {NoNode}, left : Nat]
    <3>1. CASE lease.left <= 1
      BY <3>1 DEF ClusterTick, Free
    <3>2. CASE ~(lease.left <= 1)
      <4>1. lease.left - 1 \in Nat
        BY <3>2
      <4> QED
        BY <3>2, <4>1 DEF ClusterTick
    <3> QED
      BY <3>1, <3>2
  <2>2. ASSUME NEW n \in Nodes PROVE node'[n] \in ElectionRecord
    <3> DEFINE a == IF node[n].at = "wait" THEN 0 ELSE Older(node[n].age)
               d == node[n].due \/ node[n].since = Period - 1
    <3>1. node'[n] = [node[n] EXCEPT !.since = (node[n].since + 1) % Period, !.due = d,
                                     !.age = a, !.granted = Older(node[n].granted)]
      BY DEF ClusterTick
    <3>2. /\ node[n] \in ElectionRecord
          /\ node[n].since \in 0 .. Period - 1
          /\ node[n].age \in Ages /\ node[n].granted \in Ages
      OBVIOUS
    <3>3. a \in Ages
      BY <1>1, <3>2, ClusterAssumption DEF Ages
    <3>4. d \in BOOLEAN
      BY <3>2, Zenon
    <3>5. (node[n].since + 1) % Period \in 0 .. Period - 1
      BY <1>2, <3>2
    <3>6. Older(node[n].granted) \in Ages
      BY <1>1, <3>2
    <3> HIDE DEF a, d
    <3> QED
      BY <3>1, <3>2, <3>3, <3>4, <3>5, <3>6
  <2>3. node' = [n \in Nodes |-> node'[n]]
    BY DEF ClusterTick
  <2> QED
    BY <2>1, <2>2, <2>3
<1>5. ASSUME NEW n \in Nodes, NEW t \in Ages, Renewed(n, t)
      PROVE  Older(t) < TTL => lease'.holder = n /\ lease'.left >= TTL - Older(t)
  <2> SUFFICES ASSUME Older(t) < TTL
               PROVE  lease'.holder = n /\ lease'.left >= TTL - Older(t)
    OBVIOUS
  <2>1. Older(t) = t + 1 /\ t \in Nat /\ TTL \in Nat
    BY <1>1, ClusterAssumption DEF Ages
  <2>2. t + 1 < TTL
    BY <2>1
  <2>3. lease.holder = n /\ lease.left >= TTL - t /\ lease.left \in Nat
    BY <1>5, <2>1, <2>2 DEF Renewed
  <2>4. ~(lease.left <= 1)
    BY <2>1, <2>2, <2>3
  <2>5. lease' = [lease EXCEPT !.left = lease.left - 1]
    BY <2>4 DEF ClusterTick
  <2>6. lease'.holder = n /\ lease'.left = lease.left - 1
    BY <2>3, <2>5
  <2> QED
    BY <2>1, <2>3, <2>6
<1>6. ASSUME NEW n \in Nodes PROVE LeaseKept(n)'
  <2>1. node[n].granted \in Ages /\ node[n].age \in Ages
    OBVIOUS
  <2> QED
    BY <1>3, <1>5, <2>1 DEF LeaseKept, Renewed
<1> QED
  BY <1>4, <1>6

\* A lease that is somebody's is set by nobody else.
LEMMA ScriptStep ==
  ASSUME NEW n \in Nodes PROVE ClusterInv /\ RunScript(n) => ClusterInv'
<1> SUFFICES ASSUME ClusterInv, RunScript(n) PROVE ClusterInv'
  OBVIOUS
<1> USE DEF ClusterInv, ElectionTypeOK, ElectionRecord
<1>1. ElectionTypeOK'
  BY ClusterAssumption DEF RunScript, LeaseFor, Steps
<1>2. ASSUME NEW m \in Nodes, m # n PROVE LeaseKept(m)'
  <2>1. node'[m] = node[m]
    BY <1>2 DEF RunScript
  <2>2. lease.holder = m => lease' = lease
    BY <1>2, ClusterAssumption DEF RunScript, MayHold
  <2> QED
    BY <1>2, <2>1, <2>2 DEF LeaseKept, Renewed
<1>3. LeaseKept(n)'
  <2>1. CASE MayHold(n)
    <3>1. lease'.holder = n /\ lease'.left = TTL
      BY <2>1 DEF RunScript, LeaseFor
    <3>2. node'[n].granted \in Nat /\ node'[n].age \in Nat /\ TTL \in Nat
      BY <1>1, ClusterAssumption DEF Ages
    <3> QED
      BY <3>1, <3>2 DEF LeaseKept, Renewed
  <2>2. CASE ~MayHold(n)
    BY <2>2 DEF RunScript, MayHold, LeaseKept, Renewed
  <2> QED
    BY <2>1, <2>2
<1> QED
  BY <1>1, <1>2, <1>3

\* The steps of one node that leave the lease alone.
LEMMA NodeStep ==
  ASSUME NEW n \in Nodes, ClusterInv,
         \/ Attempt(n) \/ Hears(n) \/ IsLate(n) \/ SentAgain(n)
         \/ AttemptFails(n) \/ NodeRestart(n)
  PROVE  ClusterInv'
<1> USE DEF ClusterInv, ElectionTypeOK, ElectionRecord
<1>1. UNCHANGED lease /\ \A m \in Nodes \ {n} : node'[m] = node[m]
  BY DEF Attempt, Hears, IsLate, SentAgain, AttemptFails, NodeRestart, Ended
<1>2. \A m \in Nodes \ {n} : LeaseKept(m)'
  BY <1>1 DEF LeaseKept, Renewed
<1>3. TTL \in Ages /\ 0 \in Ages /\ 0 \in 0 .. Period - 1
  BY ClusterAssumption DEF Ages
<1>4. CASE Attempt(n) \/ IsLate(n) \/ SentAgain(n)
  <2>1. /\ node'[n].leader = node[n].leader /\ node'[n].granted = node[n].granted
        /\ node'[n].at = "granted" => node[n].at = "granted" /\ node'[n].age = node[n].age
    BY <1>4 DEF Attempt, IsLate, SentAgain
  <2>2. ElectionTypeOK'
    <3>1. CASE Attempt(n)
      BY <1>1, <3>1 DEF Attempt, Steps
    <3>2. CASE IsLate(n)
      BY <1>1, <3>2 DEF IsLate
    <3>3. CASE SentAgain(n)
      BY <1>1, <3>3 DEF SentAgain, Steps
    <3> QED
      BY <1>4, <3>1, <3>2, <3>3
  <2>3. LeaseKept(n)'
    BY <1>1, <2>1 DEF LeaseKept, Renewed
  <2> QED
    BY <1>2, <2>2, <2>3
<1>5. ASSUME NEW leads \in BOOLEAN, NEW granted \in Ages, Ended(n, leads, granted),
             leads => Renewed(n, granted)
      PROVE  ClusterInv'
  <2>1. ElectionTypeOK'
    BY <1>1, <1>3, <1>5 DEF Ended, Steps
  <2>2. LeaseKept(n)'
    BY <1>1, <1>5 DEF Ended, LeaseKept, Renewed
  <2> QED
    BY <1>2, <2>1, <2>2
<1>6. CASE Hears(n)
  <2>1. node[n].age \in Ages /\ TRUE \in BOOLEAN /\ FALSE \in BOOLEAN
    OBVIOUS
  <2>2. CASE node[n].at = "granted" /\ Ended(n, TRUE, node[n].age)
    BY <1>5, <2>1, <2>2 DEF LeaseKept
  <2>3. CASE node[n].at = "refused" /\ Ended(n, FALSE, TTL)
    BY <1>3, <1>5, <2>1, <2>3
  <2> QED
    BY <1>6, <2>2, <2>3 DEF Hears
<1>7. CASE AttemptFails(n)
  BY <1>3, <1>5, <1>7 DEF AttemptFails
<1>8. CASE NodeRestart(n)
  <2>1. node'[n] = Started
    BY <1>8 DEF NodeRestart
  <2>2. ElectionTypeOK'
    BY <1>1, <1>3, <1>8 DEF NodeRestart, Started, Steps
  <2>3. LeaseKept(n)'
    BY <2>1 DEF LeaseKept, Started
  <2> QED
    BY <1>2, <2>2, <2>3
<1> QED
  BY <1>4, <1>6, <1>7, <1>8

LEMMA ElectionStep == ClusterInv /\ [ClusterNext]_clusterVars => ClusterInv'
<1> SUFFICES ASSUME ClusterInv, [ClusterNext]_clusterVars PROVE ClusterInv'
  OBVIOUS
<1>1. CASE ClusterTick
  BY <1>1, ElectionTick
<1>2. ASSUME NEW n \in Nodes, Election(n) PROVE ClusterInv'
  BY <1>2, ScriptStep, NodeStep DEF Election, AttemptGoesOn
<1>3. ASSUME NEW n \in Nodes, NodeRestart(n) PROVE ClusterInv'
  BY <1>3, NodeStep
<1>4. CASE UNCHANGED electionVars
  BY <1>4 DEF electionVars, ClusterInv, ElectionTypeOK, LeaseKept, Renewed
<1>5. ASSUME NEW n \in Nodes, Spending(n) PROVE UNCHANGED electionVars
  BY <1>5 DEF Spending, AdmitShared, AdmitLocal, Start, Serve, Forget
<1>6. CASE UNCHANGED clusterVars
  BY <1>4, <1>6 DEF clusterVars, electionVars
<1> QED
  BY <1>1, <1>2, <1>3, <1>4, <1>5, <1>6 DEF ClusterNext

\* A node that says it leads holds the lease, unless it asked for what it was
\* granted as long ago as a lease lasts; whatever calls are late, lost, sent
\* again or fail (leader.go:43-90).
THEOREM OneLeader == ClusterSpec => []LeaderHoldsLease
<1>1. ClusterInv => LeaderHoldsLease
  <2> SUFFICES ASSUME ClusterInv, NEW n \in Nodes, node[n].leader, ~(node[n].granted >= TTL)
               PROVE  lease.holder = n
    BY DEF LeaderHoldsLease, Status
  <2>1. node[n].granted < TTL
    BY ClusterAssumption DEF ClusterInv, ElectionTypeOK, ElectionRecord, Ages
  <2> QED
    BY <2>1 DEF ClusterInv, LeaseKept, Renewed
<1> QED
  BY ElectionInit, ElectionStep, <1>1, PTL DEF ClusterSpec
----------------------------------------------------------------------------
(* The spend the nodes share.                                              *)

\* What a count of each node counts, for counts of at most m.
Items(count, m) == {p \in Nodes \X (1 .. m) : p[2] <= count[p[1]]}

SpendTypes ==
  /\ shared \in Nat \cup {NoSpend} /\ faults \in Nat
  /\ spent \in [Nodes -> 0 .. MaxSpend]
  /\ missed \in [Nodes -> 0 .. MaxSpend]
  /\ unbooked \in [Nodes -> Nat]
  /\ \A n \in Nodes : missed[n] <= spent[n] /\ unbooked[n] <= missed[n]
  /\ serving \in [Nodes -> 0 .. PerNode]

\* Redis has every request but those that somebody missed.
SharedCounts == (IF shared = NoSpend THEN 0 ELSE shared) >= Total - Sum(missed)

\* A node reads no less than what nobody missed of its own, so it runs over the
\* limit only by the requests that it serves at the same time, and what was
\* missed.
NodeCredit ==
  \A n \in Nodes : (spent[n] - missed[n]) + serving[n] <= Limit - 1 + PerNode

\* While no call has failed the requests in service are those that were
\* admitted below the one limit.
OneBudget ==
  faults = 0 =>
    /\ Sum(missed) = 0
    /\ Total + Cardinality(Items(serving, PerNode))
         <= Limit - 1 + PerNode * Cardinality(Nodes)

SpendInv == SpendTypes /\ SharedCounts /\ NodeCredit /\ OneBudget

(* Finitely many items, and no more than the bound allows.                   *)
LEMMA ItemsCounted ==
  ASSUME NEW m \in Nat, NEW f
  PROVE  /\ IsFiniteSet(Items(f, m)) /\ Cardinality(Items(f, m)) \in Nat
         /\ Cardinality(Nodes) \in Nat
         /\ Cardinality(Items(f, m)) <= m * Cardinality(Nodes)
<1>1. IsFiniteSet(1 .. m) /\ Cardinality(1 .. m) = m
  BY FS_Interval
<1>2. /\ IsFiniteSet(Nodes \X (1 .. m)) /\ Cardinality(Nodes) \in Nat
      /\ Cardinality(Nodes \X (1 .. m)) = Cardinality(Nodes) * m
  BY <1>1, FS_Product, FS_CardinalityType, ClusterAssumption
<1>3. Items(f, m) \in SUBSET (Nodes \X (1 .. m))
  BY DEF Items
<1>4. /\ IsFiniteSet(Items(f, m)) /\ Cardinality(Items(f, m)) \in Nat
      /\ Cardinality(Items(f, m)) <= Cardinality(Nodes \X (1 .. m))
  BY <1>2, <1>3, FS_Subset, FS_CardinalityType
<1> QED
  BY <1>2, <1>4

(* One more of a node is one more in all.                                  *)
LEMMA OneMore ==
  ASSUME NEW m \in Nat, NEW f \in [Nodes -> 0 .. m], NEW n \in Nodes, f[n] < m,
         NEW g, g = [f EXCEPT ![n] = f[n] + 1]
  PROVE  /\ g \in [Nodes -> 0 .. m]
         /\ Items(g, m) = Items(f, m) \cup {<<n, f[n] + 1>>}
         /\ Cardinality(Items(g, m)) = Cardinality(Items(f, m)) + 1
<1>1. g \in [Nodes -> 0 .. m] /\ g[n] = f[n] + 1
      /\ \A k \in Nodes \ {n} : g[k] = f[k]
  OBVIOUS
<1>2. Items(g, m) = Items(f, m) \cup {<<n, f[n] + 1>>}
  <2>1. ASSUME NEW k \in Nodes, NEW i \in 1 .. m
        PROVE  i <= g[k] <=> i <= f[k] \/ (k = n /\ i = f[n] + 1)
    BY <1>1
  <2>2. f[n] + 1 \in 1 .. m
    OBVIOUS
  <2> QED
    BY <2>1, <2>2 DEF Items
<1>3. <<n, f[n] + 1>> \notin Items(f, m)
  BY DEF Items
<1> QED
  BY <1>1, <1>2, <1>3, ItemsCounted, FS_AddElement

(* The same of every count the ledger keeps.                               *)
LEMMA OneMoreOf ==
  \A f \in [Nodes -> 0 .. MaxSpend] : \A n \in Nodes : f[n] < MaxSpend =>
    LET g == [f EXCEPT ![n] = f[n] + 1] IN
    /\ g \in [Nodes -> 0 .. MaxSpend]
    /\ Cardinality(Items(g, MaxSpend)) = Cardinality(Items(f, MaxSpend)) + 1
<1> TAKE f \in [Nodes -> 0 .. MaxSpend]
<1> TAKE n \in Nodes
<1> HAVE f[n] < MaxSpend
<1>1. MaxSpend \in Nat
  BY ClusterAssumption
<1> QED
  BY <1>1, OneMore

(* The count of one node is no more than that of all.                      *)
LEMMA OneOfAll ==
  ASSUME NEW m \in Nat, NEW S \in SUBSET (Nodes \X (1 .. m)),
         NEW n \in Nodes, NEW i \in Nat, NEW j \in Nat, i <= j,
         \A k \in i + 1 .. j : <<n, k>> \in S
  PROVE  j - i <= Cardinality(S)
<1> DEFINE T == {n} \X (i + 1 .. j)
<1>1. IsFiniteSet({n}) /\ Cardinality({n}) = 1
  BY FS_Singleton
<1>2. IsFiniteSet(i + 1 .. j) /\ Cardinality(i + 1 .. j) = j - i
  <2>1. /\ IsFiniteSet(i + 1 .. j)
        /\ Cardinality(i + 1 .. j) = IF i + 1 > j THEN 0 ELSE j - (i + 1) + 1
    BY FS_Interval
  <2> QED
    BY <2>1
<1>3. Cardinality(T) = j - i
  <2>1. Cardinality(T) = Cardinality({n}) * Cardinality(i + 1 .. j)
    BY <1>1, <1>2, FS_Product
  <2> QED
    BY <1>1, <1>2, <2>1
<1>4. IsFiniteSet(S)
  <2>1. IsFiniteSet(1 .. m)
    BY FS_Interval
  <2> QED
    BY <2>1, FS_Product, FS_Subset, ClusterAssumption
<1>5. T \in SUBSET S
  OBVIOUS
<1> QED
  BY <1>3, <1>4, <1>5, FS_Subset

(* When no node has more than k above the other count, all have no more    *)
(* than k for each node above the other sum.                               *)
LEMMA Overrun ==
  ASSUME NEW m \in Nat, NEW k \in Nat,
         NEW f \in [Nodes -> 0 .. m], NEW g \in [Nodes -> 0 .. m],
         \A n \in Nodes : g[n] <= f[n]
  PROVE  /\ IsFiniteSet(Items(f, m) \ Items(g, m))
         /\ Cardinality(Items(f, m) \ Items(g, m)) =
              Cardinality(Items(f, m)) - Cardinality(Items(g, m))
         /\ \A n \in Nodes :
              f[n] - g[n] <= Cardinality(Items(f, m)) - Cardinality(Items(g, m))
         /\ (\A n \in Nodes : f[n] - g[n] <= k) =>
              Cardinality(Items(f, m))
                <= k * Cardinality(Nodes) + Cardinality(Items(g, m))
<1> DEFINE D == Items(f, m) \ Items(g, m)
<1>1. /\ D = {p \in Nodes \X (1 .. m) : p[2] <= f[p[1]] /\ p[2] > g[p[1]]}
      /\ Items(g, m) \subseteq Items(f, m)
  BY DEF Items
<1>2. /\ IsFiniteSet(D) /\ Cardinality(D) \in Nat
      /\ Cardinality(D) = Cardinality(Items(f, m)) - Cardinality(Items(g, m))
  <2>1. Items(f, m) \cap Items(g, m) = Items(g, m)
    BY <1>1
  <2> QED
    BY <2>1, ItemsCounted, FS_Difference, FS_CardinalityType
<1>3. ASSUME NEW n \in Nodes PROVE f[n] - g[n] <= Cardinality(D)
  <2>1. \A i \in g[n] + 1 .. f[n] : <<n, i>> \in D
    BY <1>1
  <2>2. D \in SUBSET (Nodes \X (1 .. m))
    BY <1>1
  <2>3. g[n] \in Nat /\ f[n] \in Nat /\ g[n] <= f[n]
    OBVIOUS
  <2> HIDE DEF D
  <2> QED
    BY <2>1, <2>2, <2>3, OneOfAll
<1>4. ASSUME \A n \in Nodes : f[n] - g[n] <= k
      PROVE  Cardinality(D) <= k * Cardinality(Nodes)
  <2> DEFINE T == Nodes \X (1 .. k)
             h == [p \in D |-> <<p[1], p[2] - g[p[1]]>>]
  <2>1. ASSUME NEW p \in D
        PROVE  /\ p[1] \in Nodes /\ p[2] \in Nat /\ g[p[1]] \in Nat
               /\ p[2] - g[p[1]] \in 1 .. k
               /\ p = <<p[1], p[2]>>
    BY <1>1, <1>4
  <2>2. h \in [D -> T]
    BY <2>1
  <2>3. ASSUME NEW p \in D, NEW q \in D, h[p] = h[q]
        PROVE  p = q
    <3>1. p[1] = q[1] /\ p[2] - g[p[1]] = q[2] - g[q[1]]
      BY <2>3
    <3>2. p[2] = q[2]
      BY <2>1, <3>1
    <3> QED
      BY <2>1, <3>1, <3>2
  <2>4. h \in Injection(D, T)
    BY <2>2, <2>3 DEF Injection, IsInjective
  <2>5. IsFiniteSet(1 .. k) /\ Cardinality(1 .. k) = k
    BY FS_Interval
  <2>6. IsFiniteSet(T) /\ Cardinality(T) = Cardinality(Nodes) * k
    BY <2>5, FS_Product, ClusterAssumption
  <2>7. Cardinality(Nodes) \in Nat
    BY ItemsCounted
  <2> HIDE DEF D, T, h
  <2> QED
    BY <2>4, <2>6, <2>7, FS_Injection
<1>5. /\ Cardinality(Items(f, m)) \in Nat /\ Cardinality(Items(g, m)) \in Nat
      /\ Cardinality(Nodes) \in Nat
  BY ItemsCounted
<1> HIDE DEF D
<1>6. (\A n \in Nodes : f[n] - g[n] <= k) =>
         Cardinality(Items(f, m)) <= k * Cardinality(Nodes) + Cardinality(Items(g, m))
  BY <1>2, <1>4, <1>5
<1> QED
  BY <1>2, <1>3, <1>6 DEF D

\* It starts balanced.
LEMMA SpendStart == ClusterInit => SpendInv
<1> SUFFICES ASSUME ClusterInit PROVE SpendInv
  OBVIOUS
<1>1. /\ shared = NoSpend /\ faults = 0
      /\ spent = [n \in Nodes |-> 0]
      /\ missed = spent /\ unbooked = spent /\ serving = spent
  BY DEF ClusterInit
<1>2. /\ Items(spent, MaxSpend) = {} /\ Items(missed, MaxSpend) = {}
      /\ Items(serving, PerNode) = {}
  BY <1>1 DEF Items
<1>3. Total = 0 /\ Sum(missed) = 0 /\ Cardinality(Items(serving, PerNode)) = 0
  BY <1>2, FS_EmptySet DEF Total, Sum, Items
<1>4. SpendTypes /\ SharedCounts /\ NodeCredit
  BY <1>1, <1>3, ClusterAssumption DEF SpendTypes, SharedCounts, NodeCredit
<1>5. PerNode * Cardinality(Nodes) \in Nat
  BY ItemsCounted, ClusterAssumption
<1>6. OneBudget
  BY <1>3, <1>5, ClusterAssumption DEF OneBudget
<1> QED
  BY <1>4, <1>6 DEF SpendInv

(* The sums count items.                                                   *)
LEMMA SumItems ==
  /\ Total = Cardinality(Items(spent, MaxSpend))
  /\ Sum(missed) = Cardinality(Items(missed, MaxSpend))
  /\ Total' = Cardinality(Items(spent', MaxSpend))
  /\ Sum(missed)' = Cardinality(Items(missed', MaxSpend))
BY DEF Total, Sum, Items

(* What the lemmas above say of the sums.                                  *)
LEMMA SumFacts ==
  ASSUME SpendTypes
  PROVE  /\ Total \in Nat /\ Sum(missed) \in Nat /\ Sum(missed) <= Total
         /\ Cardinality(Items(serving, PerNode)) \in Nat
         /\ Cardinality(Items(serving, PerNode)) <= PerNode * Cardinality(Nodes)
         /\ PerNode * Cardinality(Nodes) \in Nat
         /\ \A n \in Nodes : spent[n] - missed[n] <= Total - Sum(missed)
         /\ \A n \in Nodes : spent[n] <= Total
<1>1. /\ Total = Cardinality(Items(spent, MaxSpend))
      /\ Sum(missed) = Cardinality(Items(missed, MaxSpend))
  BY SumItems
<1>0. /\ MaxSpend \in Nat
      /\ spent \in [Nodes -> 0 .. MaxSpend] /\ missed \in [Nodes -> 0 .. MaxSpend]
      /\ \A n \in Nodes : missed[n] <= spent[n]
  BY ClusterAssumption DEF SpendTypes
<1>2. \A n \in Nodes : spent[n] - missed[n] <= Total - Sum(missed)
  <2>1. \A n \in Nodes : spent[n] - missed[n] <=
          Cardinality(Items(spent, MaxSpend)) - Cardinality(Items(missed, MaxSpend))
    BY <1>0, Overrun
  <2> QED
    BY <1>1, <2>1
<1>3. Sum(missed) <= Total
  <2>1. Items(missed, MaxSpend) \in SUBSET Items(spent, MaxSpend)
    BY ClusterAssumption DEF Items, SpendTypes
  <2> QED
    BY <1>1, <2>1, ItemsCounted, FS_Subset, ClusterAssumption
<1>4. \A n \in Nodes : spent[n] <= Total
  <2> TAKE n \in Nodes
  <2>1. \A i \in 0 + 1 .. spent[n] : <<n, i>> \in Items(spent, MaxSpend)
    BY ClusterAssumption DEF Items, SpendTypes
  <2>2. Items(spent, MaxSpend) \in SUBSET (Nodes \X (1 .. MaxSpend))
    BY DEF Items
  <2>3. 0 \in Nat /\ spent[n] \in Nat /\ 0 <= spent[n]
    BY <1>0
  <2>4. spent[n] - 0 <= Cardinality(Items(spent, MaxSpend))
    BY <1>0, <2>1, <2>2, <2>3, OneOfAll
  <2> QED
    BY <1>1, <2>3, <2>4
<1>5. PerNode * Cardinality(Nodes) \in Nat
  BY ItemsCounted, ClusterAssumption
<1>6. /\ Total \in Nat /\ Sum(missed) \in Nat
      /\ Cardinality(Items(serving, PerNode)) \in Nat
      /\ Cardinality(Items(serving, PerNode)) <= PerNode * Cardinality(Nodes)
  BY <1>1, ItemsCounted, ClusterAssumption
<1> QED
  BY <1>2, <1>3, <1>4, <1>5, <1>6

\* A request is admitted below the limit, as far as the node can see.
LEMMA StartSpend ==
  ASSUME SpendInv, NEW n \in Nodes, AdmitShared(n) \/ AdmitLocal(n)
  PROVE  SpendInv'
<1> USE DEF SpendInv
<1>1. /\ serving[n] < PerNode /\ serving' = [serving EXCEPT ![n] = @ + 1]
      /\ UNCHANGED <<shared, spent, unbooked, missed>>
      /\ faults' \in Nat /\ (faults' = 0 => faults = 0)
      /\ \/ shared # NoSpend /\ shared < Limit
         \/ /\ spent[n] - unbooked[n] < Limit
            /\ faults' = 0 => shared = NoSpend
  BY DEF AdmitShared, AdmitLocal, Start, Fault, LocalSpend, SpendTypes
<1>2. SpendTypes'
  BY <1>1, ClusterAssumption DEF SpendTypes
<1>3. Total' = Total /\ Sum(missed)' = Sum(missed)
  BY <1>1 DEF Total, Sum
<1>4. SharedCounts'
  BY <1>1, <1>3 DEF SharedCounts
<1>5. spent[n] - missed[n] <= Limit - 1
  <2>1. CASE shared # NoSpend /\ shared < Limit
    <3>1. shared \in Nat /\ shared >= Total - Sum(missed)
      BY <2>1 DEF SpendTypes, SharedCounts
    <3>2. /\ spent[n] - missed[n] <= Total - Sum(missed)
          /\ spent[n] \in Nat /\ missed[n] \in Nat
          /\ Total \in Nat /\ Sum(missed) \in Nat
      BY SumFacts DEF SpendTypes
    <3> QED
      BY <2>1, <3>1, <3>2, ClusterAssumption
  <2>2. CASE spent[n] - unbooked[n] < Limit
    BY <2>2, ClusterAssumption DEF SpendTypes
  <2> QED
    BY <1>1, <2>1, <2>2
<1>6. NodeCredit'
  BY <1>1, <1>5, ClusterAssumption DEF NodeCredit, SpendTypes
<1>7. OneBudget'
  <2> SUFFICES ASSUME faults' = 0
               PROVE  /\ Sum(missed)' = 0
                      /\ Total' + Cardinality(Items(serving, PerNode))'
                           <= Limit - 1 + PerNode * Cardinality(Nodes)
    BY DEF OneBudget
  <2>1. Sum(missed) = 0
    BY <1>1 DEF OneBudget
  <2>2. Total <= Limit - 1
    BY <1>1, <2>1, SumFacts, ClusterAssumption DEF SharedCounts, SpendTypes
  <2>3. /\ Cardinality(Items(serving, PerNode))' \in Nat
        /\ Cardinality(Items(serving, PerNode))' <= PerNode * Cardinality(Nodes)
    BY ItemsCounted, ClusterAssumption
  <2> QED
    BY <1>3, <2>1, <2>2, <2>3, SumFacts, ClusterAssumption
<1> QED
  BY <1>2, <1>4, <1>6, <1>7

\* A request leaves its seat and is counted, or is missed by Redis, by the
\* table or by both.
LEMMA ServeSpend ==
  ASSUME SpendInv, NEW n \in Nodes, Serve(n)
  PROVE  SpendInv'
<1> USE DEF SpendInv
<1>0. PICK lost \in {0, 1}, failed \in {0, 1} :
        /\ shared' = IF lost = 1 THEN shared ELSE Incremented
        /\ unbooked' = [unbooked EXCEPT ![n] = @ + failed]
        /\ missed' = [missed EXCEPT ![n] = @ + (IF lost + failed > 0 THEN 1 ELSE 0)]
        /\ faults' = faults + lost + failed
  BY DEF Serve
<1>1. /\ serving[n] > 0 /\ Total < MaxSpend
      /\ serving' = [serving EXCEPT ![n] = @ - 1]
      /\ spent' = [spent EXCEPT ![n] = @ + 1]
  BY DEF Serve
<1>2. spent[n] < MaxSpend /\ missed[n] < MaxSpend
  BY <1>1, SumFacts, ClusterAssumption DEF SpendTypes
<1>3. spent' \in [Nodes -> 0 .. MaxSpend] /\ Total' = Total + 1
  <2>1. spent' = [spent EXCEPT ![n] = spent[n] + 1]
    BY <1>1
  <2>2. /\ spent' \in [Nodes -> 0 .. MaxSpend]
        /\ Cardinality(Items(spent', MaxSpend)) = Cardinality(Items(spent, MaxSpend)) + 1
    BY <1>2, <2>1, OneMoreOf, Zenon DEF SpendTypes
  <2> QED
    BY <2>2, SumItems
<1>4. /\ serving' \in [Nodes -> 0 .. PerNode]
      /\ Cardinality(Items(serving, PerNode)) = Cardinality(Items(serving, PerNode))' + 1
  <2> DEFINE after == [serving EXCEPT ![n] = serving[n] - 1]
  <2>0. /\ PerNode \in Nat /\ serving \in [Nodes -> 0 .. PerNode]
        /\ serving' = after
    BY <1>1, ClusterAssumption DEF SpendTypes
  <2>1. /\ after \in [Nodes -> 0 .. PerNode] /\ after[n] < PerNode
        /\ serving = [after EXCEPT ![n] = after[n] + 1]
    <3>1. serving[n] \in 1 .. PerNode /\ after[n] = serving[n] - 1
      BY <1>1, <2>0
    <3>2. after \in [Nodes -> 0 .. PerNode] /\ after[n] < PerNode
      BY <2>0, <3>1
    <3>3. \A k \in Nodes : serving[k] = [after EXCEPT ![n] = after[n] + 1][k]
      BY <2>0, <3>1
    <3> QED
      BY <2>0, <3>2, <3>3
  <2>2. Cardinality(Items(serving, PerNode)) = Cardinality(Items(after, PerNode)) + 1
    <3> HIDE DEF after
    <3> QED
      BY <2>0, <2>1, OneMore
  <2> QED
    BY <2>0, <2>1, <2>2 DEF Items
<1>5. CASE lost = 0 /\ failed = 0
  <2>1. /\ shared' = Incremented /\ faults' = faults
        /\ missed' = missed /\ unbooked' = unbooked
    BY <1>0, <1>5 DEF SpendTypes
  <2>2. SpendTypes'
    BY <1>3, <1>4, <2>1, <1>1, ClusterAssumption DEF SpendTypes, Incremented, NoSpend
  <2>3. Sum(missed)' = Sum(missed)
    BY <2>1 DEF Sum
  <2>4. SharedCounts'
    BY <1>3, <2>1, <2>3, SumFacts DEF SharedCounts, Incremented, SpendTypes, NoSpend
  <2>5. NodeCredit'
    BY <1>1, <2>1, ClusterAssumption DEF NodeCredit, SpendTypes
  <2>6. OneBudget'
    BY <1>3, <1>4, <2>1, <2>3, SumFacts, ItemsCounted, ClusterAssumption DEF OneBudget
  <2> QED
    BY <2>2, <2>4, <2>5, <2>6
<1>6. CASE lost = 1 \/ failed = 1
  <2>1. faults' \in Nat /\ faults' # 0
    BY <1>0, <1>6 DEF SpendTypes
  <2>2. missed' \in [Nodes -> 0 .. MaxSpend] /\ Sum(missed)' = Sum(missed) + 1
    <3>0. (IF lost + failed > 0 THEN 1 ELSE 0) = 1
      BY <1>6
    <3>1. missed' = [missed EXCEPT ![n] = missed[n] + 1]
      BY <1>0, <3>0
    <3>2. /\ missed' \in [Nodes -> 0 .. MaxSpend]
          /\ Cardinality(Items(missed', MaxSpend)) = Cardinality(Items(missed, MaxSpend)) + 1
      BY <1>2, <3>1, OneMoreOf, Zenon DEF SpendTypes
    <3> QED
      BY <3>2, SumItems
  <2>3. /\ unbooked' \in [Nodes -> Nat]
        /\ \A k \in Nodes : missed'[k] <= spent'[k] /\ unbooked'[k] <= missed'[k]
    BY <1>0, <1>1, <1>6, ClusterAssumption DEF SpendTypes
  <2>4. shared' \in Nat \cup {NoSpend}
    BY <1>0 DEF SpendTypes, Incremented, NoSpend
  <2>5. SpendTypes'
    BY <1>3, <1>4, <2>1, <2>2, <2>3, <2>4 DEF SpendTypes
  <2>6. SharedCounts'
    BY <1>0, <1>3, <2>2, SumFacts DEF SharedCounts, SpendTypes, Incremented, NoSpend
  <2>7. NodeCredit'
    BY <1>0, <1>1, <1>6, ClusterAssumption DEF NodeCredit, SpendTypes
  <2> QED
    BY <2>1, <2>5, <2>6, <2>7 DEF OneBudget
<1> QED
  BY <1>5, <1>6

\* A request that leaves no transaction, or that a restart forgets, frees its
\* seat.
LEMMA LeaveSpend ==
  ASSUME SpendInv, NEW n \in Nodes, Forget(n) \/ NodeRestart(n)
  PROVE  SpendInv'
<1> USE DEF SpendInv
<1>1. /\ UNCHANGED <<shared, spent, unbooked, missed>>
      /\ faults' \in Nat /\ (faults' = 0 => faults = 0)
      /\ serving' \in [Nodes -> 0 .. PerNode]
      /\ \A k \in Nodes : serving'[k] <= serving[k]
  BY ClusterAssumption DEF Forget, NodeRestart, Fault, SpendTypes
<1>2. Total' = Total /\ Sum(missed)' = Sum(missed)
  BY <1>1 DEF Total, Sum
<1>3. SpendTypes' /\ SharedCounts'
  BY <1>1, <1>2 DEF SpendTypes, SharedCounts
<1>4. NodeCredit'
  BY <1>1, ClusterAssumption DEF NodeCredit, SpendTypes
<1>5. OneBudget'
  <2> DEFINE after == Items(serving, PerNode)'
  <2>1. after \in SUBSET Items(serving, PerNode)
    BY <1>1, ClusterAssumption DEF Items, SpendTypes
  <2>2. Cardinality(after) <= Cardinality(Items(serving, PerNode))
    BY <2>1, ItemsCounted, FS_Subset, ClusterAssumption
  <2>3. Cardinality(after) \in Nat
    BY ItemsCounted, ClusterAssumption
  <2> QED
    BY <1>1, <1>2, <2>2, <2>3, SumFacts, ClusterAssumption DEF OneBudget
<1> QED
  BY <1>3, <1>4, <1>5

\* Every step keeps the account.
LEMMA SpendStep == SpendInv /\ [ClusterNext]_clusterVars => SpendInv'
<1> SUFFICES ASSUME SpendInv, [ClusterNext]_clusterVars PROVE SpendInv'
  OBVIOUS
<1>1. ASSUME NEW n \in Nodes, Spending(n) \/ NodeRestart(n) PROVE SpendInv'
  BY <1>1, StartSpend, ServeSpend, LeaveSpend DEF Spending
<1>2. CASE UNCHANGED spendVars /\ (UNCHANGED faults \/ Fault)
  <2>1. /\ UNCHANGED <<shared, spent, unbooked, missed, serving>>
        /\ SpendTypes => faults' \in Nat /\ (faults' = 0 => faults = 0)
    BY <1>2 DEF spendVars, Fault, SpendTypes
  <2> QED
    BY <2>1 DEF SpendInv, SpendTypes, SharedCounts, NodeCredit, OneBudget, Total, Sum,
       Items
<1>3. CASE ClusterTick
  BY <1>2, <1>3 DEF ClusterTick
<1>4. ASSUME NEW n \in Nodes, Election(n) PROVE SpendInv'
  BY <1>2, <1>4 DEF Election, AttemptGoesOn, Attempt, RunScript, Hears, IsLate,
                    SentAgain, AttemptFails
<1>5. CASE UNCHANGED clusterVars
  BY <1>2, <1>5 DEF clusterVars, spendVars
<1> QED
  BY <1>1, <1>3, <1>4, <1>5 DEF ClusterNext

\* However often Redis is out of reach between the read and the increment, and
\* an INSERT fails after it, the nodes together spend no more than each of them
\* would alone, and what Redis or their tables missed; while no call has failed
\* there is one budget (ledger.go:125-143, :162-167).
THEOREM ClusterBudget == ClusterSpec => []ClusterOverspend
<1>1. ASSUME SpendInv PROVE ClusterOverspend
  <2>1. SpendTypes /\ NodeCredit /\ OneBudget
    BY <1>1 DEF SpendInv
  <2> DEFINE k == Limit - 1 + PerNode
  <2>2. k \in Nat /\ \A n \in Nodes : spent[n] - missed[n] <= k
    BY <2>1, ClusterAssumption DEF NodeCredit, SpendTypes
  <2>3. Total <= k * Cardinality(Nodes) + Sum(missed)
    <3> HIDE DEF k
    <3> QED
      <4>1. /\ MaxSpend \in Nat
            /\ spent \in [Nodes -> 0 .. MaxSpend] /\ missed \in [Nodes -> 0 .. MaxSpend]
            /\ \A n \in Nodes : missed[n] <= spent[n]
        BY <2>1, ClusterAssumption DEF SpendTypes
      <4>2. Cardinality(Items(spent, MaxSpend))
              <= k * Cardinality(Nodes) + Cardinality(Items(missed, MaxSpend))
        BY <2>2, <4>1, Overrun
      <4> QED
        BY <4>2, SumItems
  <2>4. faults = 0 => Total <= Limit - 1 + PerNode * Cardinality(Nodes)
    BY <2>1, SumFacts, ClusterAssumption DEF OneBudget
  <2> QED
    BY <2>3, <2>4 DEF ClusterOverspend
<1> QED
  BY SpendStart, SpendStep, <1>1, PTL DEF ClusterSpec
=============================================================================
