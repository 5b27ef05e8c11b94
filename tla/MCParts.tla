------------------------------ MODULE MCParts ------------------------------
(***************************************************************************)
(* The parts of tkngate that share no state with each other, each checked  *)
(* by itself: Init chooses which of them this behaviour is about, and only *)
(* that one steps.  The election and the spend of the cluster, which share *)
(* no more than the restarts, are parts of their own.  The breaker is      *)
(* SpendMeter, the abstract specification that BudgetGate implements.      *)
(***************************************************************************)
EXTENDS ResponseCache, RateLimiter, AuditTrail, DiffStream,
  ConfigStore, Cluster, SpendMeter

CONSTANTS
  Chosen,        \* the parts this run checks
  MaxEvictions,  \* bound on the evictions of the limiter's bucket
  MaxWaived      \* bound on the waived checks of the breaker

VARIABLE part

----------------------------------------------------------------------------
(* The bodies the cache meets.                                             *)

Msg(text, id) == [text |-> text, id |-> id]
Tool(name, code) == [name |-> name, code |-> code]
Body(model, messages, tools, extra) ==
  [model |-> model, messages |-> messages, tools |-> tools, form |-> "auto",
   extra |-> extra]

\* The insertion sort of the code: t goes behind every tool whose name is not
\* greater.
InsertTool(sorted, t) ==
  LET after == Len(SelectSeq(sorted, LAMBDA s : s.name <= t.name))
  IN SubSeq(sorted, 1, after) \o <<t>> \o SubSeq(sorted, after + 1, Len(sorted))
InsertionSort(tools) == FoldLeft(InsertTool, <<>>, tools)

\* It puts every tool where sortToolsByName says, names that repeat and tools
\* without one included.
ToolLists == UNION {[1 .. n -> [name : 0 .. 2, code : 0 .. 1]] : n \in 0 .. 4}

ASSUME SortAssumption ==
  \A tools \in ToolLists :
    LET sorted == InsertionSort(tools) IN
    sortToolsByName(tools) =
      {[place |-> k, tool |-> sorted[k]] : k \in DOMAIN sorted}

\* A conversation of one model; of another, to which the first fails over,
\* with other ids and the tools in another order, one of them without a
\* function.name; and once more with two such tools, so that the client's
\* order stays.
MCBodies ==
  {Body("gpt", <<Msg("hi", 1)>>, <<Tool(1, 0), Tool(0, 0)>>, 0),
   Body("chat", <<Msg("hi", 2)>>, <<Tool(0, 0), Tool(1, 0)>>, 1),
   Body("chat", <<Msg("hi", 1)>>, <<Tool(0, 1), Tool(0, 0)>>, 0)}

\* Two embeddings, whose input is in extra.
MCEmbeddings ==
  {Body("embed", <<>>, <<>>, 0), Body("embed", <<>>, <<>>, 1)}

\* No variable is set, or the key and the number are.
NoEnv == [key |-> Absent, rules |-> 0, amber |-> 0]
MCEnvs == {NoEnv, [key |-> "k1", rules |-> 0, amber |-> 80]}
MCNoEnv == {NoEnv}

----------------------------------------------------------------------------

vars == <<part, cacheVars, limiterVars, auditVars, diffVars, configVars,
          clusterVars, meterVars>>

Init ==
  /\ part \in Chosen
  /\ CacheInit /\ LimiterInit /\ AuditInit /\ DiffInit /\ ConfigInit
  /\ ClusterInit /\ MeterInit
  /\ part # "cache" => backend = "memory"
  /\ part # "audit" => enabled /\ sink
  /\ part # "config" => home = "none"
  /\ env = NoEnv   \* a restart sets it
  /\ part # "election" => \A n \in Nodes : node[n].since = 0

Next ==
  \/ /\ part = "cache" /\ CacheNext
     /\ UNCHANGED <<part, limiterVars, auditVars, diffVars, configVars,
                    clusterVars, meterVars>>
  \/ /\ part = "limiter" /\ LimiterNext /\ evictions' <= MaxEvictions
     /\ UNCHANGED <<part, cacheVars, auditVars, diffVars, configVars,
                    clusterVars, meterVars>>
  \/ /\ part = "audit" /\ AuditNext
     /\ UNCHANGED <<part, cacheVars, limiterVars, diffVars, configVars,
                    clusterVars, meterVars>>
  \/ /\ part = "diff" /\ DiffNext
     /\ UNCHANGED <<part, cacheVars, limiterVars, auditVars, configVars,
                    clusterVars, meterVars>>
  \/ /\ part = "config" /\ ConfigNext
     /\ UNCHANGED <<part, cacheVars, limiterVars, auditVars, diffVars,
                    clusterVars, meterVars>>
  \/ /\ part = "election" /\ UNCHANGED spendVars /\ ClusterNext
     /\ UNCHANGED <<part, cacheVars, limiterVars, auditVars, diffVars,
                    configVars, meterVars>>
  \/ /\ part = "spend" /\ UNCHANGED electionVars /\ ClusterNext
     /\ UNCHANGED <<part, cacheVars, limiterVars, auditVars, diffVars,
                    configVars, meterVars>>
  \/ /\ part = "breaker" /\ MeterNext /\ waived' <= MaxWaived
     /\ UNCHANGED <<part, cacheVars, limiterVars, auditVars, diffVars,
                    configVars, clusterVars>>

\* The audit ticker ticks and a post ends, if only by its timeout; time passes
\* for the nodes, and what they send to Redis is answered.
Spec ==
  /\ Init /\ [][Next]_vars
  /\ WF_auditVars(part = "audit" /\ TickerFlush)
  /\ WF_auditVars(part = "audit" /\ Settle)
  /\ WF_clusterVars(part = "election" /\ ClusterTick)
  /\ \A n \in Nodes : WF_clusterVars(part = "election" /\ AttemptGoesOn(n))

\* The types of the parts; among them, a registered channel of a viewer is
\* never closed, for a send on it would panic (diff_stream.go:52-54).
PartsTypeOK ==
  CacheTypeOK /\ LimiterTypeOK /\ AuditTypeOK /\ DiffTypeOK /\ ConfigTypeOK
  /\ ClusterTypeOK

\* Once Redis stays in reach and answers promptly some node leads, and goes on
\* leading (leader.go:43-90).
ClusterKeepsLeader == part = "election" => LeaderStays
=============================================================================
