------------------------------ MODULE Cluster ------------------------------
(***************************************************************************)
(* Cluster mode: the leader election (internal/cluster/leader.go) and the  *)
(* spend the nodes share through Redis (internal/budget/ledger.go).  Redis *)
(* may be out of reach of a node at any call, and may answer so late that  *)
(* the lease it granted is over.  Time advances in ticks that never pass   *)
(* over something that is due.                                             *)
(***************************************************************************)
EXTENDS Integers, FiniteSets

CONSTANTS
  Nodes,       \* with a node_id each
  NoNode,      \* holder of a free lease
  TTL,         \* ticks a lease lasts (10 s)
  Period,      \* ticks between two attempts (5 s)
  Prompt,      \* ticks that a call of Redis takes at most when it is not late
  MaxFaults,   \* bound on calls that are late or fail, failing INSERTs, restarts
  Limit,       \* the global budget, in requests of cost one
  PerNode,     \* requests a node serves at the same time
  MaxSpend     \* bound on requests

\* A call that is longer on its way than the lease lasts is late; the timeouts
\* and retries of the client allow it, and nothing is assumed of its length.
ASSUME ClusterAssumption ==
  /\ IsFiniteSet(Nodes) /\ NoNode \notin Nodes
  /\ TTL \in Nat /\ Period \in Nat \ {0} /\ Prompt \in Nat /\ Prompt < TTL
  /\ Limit \in Nat \ {0} /\ PerNode \in Nat \ {0} /\ MaxSpend \in Nat

VARIABLES
  lease,    \* tkngate:leader, its holder and what is left of its time
  node,     \* each node's election: IsLeader, ticks since its ticker ticked,
            \* whether a tick waits in its channel, where its attempt is, the
            \* ticks since that was sent and whether it is late; and the ticks
            \* since the last attempt it was told was granted was sent
  shared,   \* tkngate:budget:global_spend, NoSpend when there is no such key
  spent,    \* requests of each node that cost
  unbooked, \* those of them that are not in its transactions
  serving,  \* requests of each node that were admitted
  missed,   \* those that Redis or the transactions did not get
  faults

clusterVars == <<lease, node, shared, spent, unbooked, serving, missed, faults>>
electionVars == <<lease, node>>
spendVars == <<shared, spent, unbooked, serving, missed>>

Free == [holder |-> NoNode, left |-> 0]
NoSpend == -1
Started == [leader |-> FALSE, since |-> 0, due |-> FALSE, at |-> "wait",
            age |-> 0, late |-> FALSE, granted |-> TTL]

ClusterInit ==
  /\ lease = Free
  /\ node \in [Nodes -> {[Started EXCEPT !.since = t] : t \in 0 .. Period - 1}]
  /\ shared = NoSpend
  /\ spent = [n \in Nodes |-> 0] /\ unbooked = [n \in Nodes |-> 0]
  /\ serving = [n \in Nodes |-> 0] /\ missed = [n \in Nodes |-> 0]
  /\ faults = 0

Fault == faults < MaxFaults /\ faults' = faults + 1

----------------------------------------------------------------------------
(* electLeader.                                                            *)

\* A tick is taken, and a call that is not late is answered, at once.
Overdue(n) ==
  \/ node[n].at = "wait" /\ node[n].due
  \/ node[n].at # "wait" /\ node[n].age >= Prompt /\ ~node[n].late

Older(t) == IF t < TTL THEN t + 1 ELSE TTL

\* The ticker ticks on while a call is running, but its channel holds one tick.
ClusterTick ==
  /\ \A n \in Nodes : ~Overdue(n)
  /\ node' = [n \in Nodes |-> [node[n] EXCEPT
       !.since = (@ + 1) % Period, !.due = @ \/ node[n].since = Period - 1,
       !.age = IF node[n].at = "wait" THEN 0 ELSE Older(@), !.granted = Older(@)]]
  /\ lease' = IF lease.left <= 1 THEN Free ELSE [lease EXCEPT !.left = @ - 1]
  /\ UNCHANGED <<spendVars, faults>>

\* The node takes a tick and sends its script.
Attempt(n) ==
  /\ node[n].at = "wait" /\ node[n].due
  /\ node' = [node EXCEPT ![n].at = "sent", ![n].due = FALSE]
  /\ UNCHANGED <<lease, spendVars, faults>>

\* Mutant: SET without NX.
AnyonesLease(n) == TRUE
MayHold(n) == lease.holder \in {n, NoNode}

\* Mutant: the lease is set but never extended.
LeaseSetOnce(n) == IF lease.holder = n THEN lease.left ELSE TTL
LeaseFor(n) == TTL

\* Redis runs the script: it extends the lease of its holder and sets a free
\* one.
RunScript(n) ==
  /\ node[n].at = "sent"
  /\ IF MayHold(n)
       THEN /\ lease' = [holder |-> n, left |-> LeaseFor(n)]
            /\ node' = [node EXCEPT ![n].at = "granted"]
       ELSE /\ node' = [node EXCEPT ![n].at = "refused"]
            /\ UNCHANGED lease
  /\ UNCHANGED <<spendVars, faults>>

\* The call has ended.
Ended(n, leads, granted) ==
  node' = [node EXCEPT ![n] = [@ EXCEPT
    !.leader = leads, !.granted = granted, !.at = "wait", !.age = 0, !.late = FALSE]]

Hears(n) ==
  /\ \/ node[n].at = "granted" /\ Ended(n, TRUE, node[n].age)
     \/ node[n].at = "refused" /\ Ended(n, FALSE, TTL)
  /\ UNCHANGED <<lease, spendVars, faults>>

\* The call has no deadline of its own: it is late when connecting or reading
\* takes its time, and it is sent again when its answer is lost.
IsLate(n) ==
  /\ node[n].at # "wait" /\ node[n].age >= Prompt /\ ~node[n].late
  /\ Fault
  /\ node' = [node EXCEPT ![n].late = TRUE]
  /\ UNCHANGED <<lease, spendVars>>

SentAgain(n) ==
  /\ node[n].at \in {"granted", "refused"} /\ node[n].late
  /\ Fault
  /\ node' = [node EXCEPT ![n].at = "sent"]
  /\ UNCHANGED <<lease, spendVars>>

\* The script did not get there, or its answer did not come back.
AttemptFails(n) ==
  /\ node[n].at # "wait"
  /\ Fault
  /\ Ended(n, FALSE, TTL)
  /\ UNCHANGED <<lease, spendVars>>

\* A node dies and starts again: InitCluster; requests it served are gone.
NodeRestart(n) ==
  /\ Fault
  /\ node' = [node EXCEPT ![n] = Started]
  /\ serving' = [serving EXCEPT ![n] = 0]
  /\ UNCHANGED <<lease, shared, spent, unbooked, missed>>

\* GetClusterStatus, as the dashboard shows it.
Status(n) == [is_leader |-> node[n].leader, active_nodes |-> 1]

----------------------------------------------------------------------------
(* The spend.                                                              *)

\* The sum of a count of each node, none above MaxSpend: as many as there are
\* numbered items.
Sum(count) == Cardinality({p \in Nodes \X (1 .. MaxSpend) : p[2] <= count[p[1]]})

Total == Sum(spent)

\* Mutant: a node that cannot read Redis admits.
Unread(n) == 0
\* The sum over its own table.
LocalSpend(n) == spent[n] - unbooked[n]

\* GetTotalSpend under the guard: Redis, and the own table when Redis fails or
\* does not have the key yet.
Start(n, spend) ==
  /\ serving[n] < PerNode
  /\ spend < Limit
  /\ serving' = [serving EXCEPT ![n] = @ + 1]
  /\ UNCHANGED <<electionVars, shared, spent, unbooked, missed>>

AdmitShared(n) ==
  /\ shared # NoSpend
  /\ Start(n, shared)
  /\ UNCHANGED faults

AdmitLocal(n) ==
  /\ IF shared = NoSpend THEN UNCHANGED faults ELSE Fault
  /\ Start(n, LocalSpend(n))

Incremented == IF shared = NoSpend THEN 1 ELSE shared + 1

\* RecordTransaction: an error of the increment is ignored, and one of the
\* INSERT comes after it and takes nothing back.
Serve(n) ==
  /\ serving[n] > 0 /\ Total < MaxSpend
  /\ serving' = [serving EXCEPT ![n] = @ - 1]
  /\ spent' = [spent EXCEPT ![n] = @ + 1]
  /\ \E lost, failed \in {0, 1} :
       /\ shared' = IF lost = 1 THEN shared ELSE Incremented
       /\ unbooked' = [unbooked EXCEPT ![n] = @ + failed]
       /\ missed' = [missed EXCEPT ![n] = @ + (IF lost + failed > 0 THEN 1 ELSE 0)]
       /\ faults' = faults + lost + failed /\ faults' <= MaxFaults
  /\ UNCHANGED electionVars

\* An answer without a transaction: an error, or a stream.
Forget(n) ==
  /\ serving[n] > 0
  /\ serving' = [serving EXCEPT ![n] = @ - 1]
  /\ UNCHANGED <<electionVars, shared, spent, unbooked, missed, faults>>

AttemptGoesOn(n) == Attempt(n) \/ RunScript(n) \/ Hears(n)

Election(n) ==
  AttemptGoesOn(n) \/ IsLate(n) \/ SentAgain(n) \/ AttemptFails(n)

Spending(n) == AdmitShared(n) \/ AdmitLocal(n) \/ Serve(n) \/ Forget(n)

ClusterNext ==
  \/ ClusterTick
  \/ \E n \in Nodes : Election(n) \/ NodeRestart(n) \/ Spending(n)

ClusterSpec == ClusterInit /\ [][ClusterNext]_clusterVars

----------------------------------------------------------------------------
(* Properties.                                                             *)

ClusterTypeOK ==
  /\ lease.holder \in Nodes \cup {NoNode} /\ lease.left \in 0 .. TTL
  /\ \A n \in Nodes :
       node[n].since \in 0 .. Period - 1 /\ serving[n] \in 0 .. PerNode

\* A node that says it leads holds the lease, unless what it was last granted
\* was asked for as long ago as a lease lasts: two nodes lead only while the
\* call of one of them is late, or its answer was (leader.go:43-90).
LeaderHoldsLease ==
  \A n \in Nodes :
    Status(n).is_leader => lease.holder = n \/ node[n].granted >= TTL

\* Once Redis stays in reach and answers promptly some node leads, and goes on
\* leading.
LeaderStays == <>[](\E n \in Nodes : node[n].leader)

\* However often Redis is out of reach between the read and the increment, the
\* nodes together spend no more than each of them would alone, and what Redis
\* or their tables missed; while no call has failed there is one budget
\* (ledger.go:125-143, :162-167).
ClusterOverspend ==
  /\ Total <= (Limit - 1 + PerNode) * Cardinality(Nodes) + Sum(missed)
  /\ faults = 0 => Total <= Limit - 1 + PerNode * Cardinality(Nodes)
=============================================================================
