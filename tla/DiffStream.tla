----------------------------- MODULE DiffStream -----------------------------
(***************************************************************************)
(* Shadow mode and its live view (fireShadowRequest in                     *)
(* internal/proxy/middleware.go, internal/telemetry/diff_stream.go, and    *)
(* handleShadowStream in internal/api/server.go).  A mirrored request that *)
(* is answered is an event, numbered here in the order of the broadcasts;  *)
(* each viewer has a channel, and may read it slowly, or not at all.       *)
(***************************************************************************)
EXTENDS Naturals, Sequences, FiniteSets, SequencesExt

CONSTANTS
  Viewers,      \* connections to /api/shadow/stream
  QueueSize,    \* capacity of a channel (10)
  MaxMirrors,   \* mirrored requests at the same time
  MaxEvents     \* bound on events

ASSUME DiffAssumption == QueueSize \in Nat \ {0} /\ MaxEvents \in Nat

VARIABLES
  clients,    \* the registered channels, one per viewer
  closed,     \* the channels that are closed
  queue,      \* what each channel holds
  received,   \* what each viewer has been sent since it connected
  mirrors,    \* mirrored requests the target has still to answer
  answered,   \* mirrors that have a text to broadcast
  events,     \* events so far
  joined,     \* how many there were when the viewer connected
  stalled     \* whether its channel was full at some broadcast

diffVars ==
  <<clients, closed, queue, received, mirrors, answered, events, joined, stalled>>

DiffInit ==
  /\ clients = {} /\ closed = {}
  /\ queue = [v \in Viewers |-> <<>>]
  /\ received = [v \in Viewers |-> <<>>]
  /\ mirrors = 0 /\ answered = 0 /\ events = 0
  /\ joined = [v \in Viewers |-> 0]
  /\ stalled = [v \in Viewers |-> FALSE]

----------------------------------------------------------------------------

\* A chat answer draws its mirror, where shadow mode is on.
FireShadowRequest ==
  /\ mirrors + answered < MaxMirrors
  /\ events + mirrors + answered < MaxEvents
  /\ mirrors' = mirrors + 1
  /\ UNCHANGED <<clients, closed, queue, received, answered, events, joined, stalled>>

\* The target is not configured or not allowed, fails, does not answer in 30
\* seconds, or its answer has no text.
MirrorFails ==
  /\ mirrors > 0
  /\ mirrors' = mirrors - 1
  /\ UNCHANGED <<clients, closed, queue, received, answered, events, joined,
                 stalled>>

MirrorAnswers ==
  /\ mirrors > 0
  /\ mirrors' = mirrors - 1 /\ answered' = answered + 1
  /\ UNCHANGED <<clients, closed, queue, received, events, joined, stalled>>

Full(v) == Len(queue[v]) >= QueueSize

\* Mutant: the first channel that is full ends the round.
ReachedUntilFull == IF \E v \in clients : Full(v) THEN {} ELSE clients
Reached == {v \in clients : ~Full(v)}

Broadcast ==
  /\ answered > 0
  /\ answered' = answered - 1
  /\ events' = events + 1
  /\ queue' = [v \in Viewers |->
       IF v \in Reached THEN Append(queue[v], events + 1) ELSE queue[v]]
  /\ stalled' = [v \in Viewers |-> stalled[v] \/ (v \in clients /\ Full(v))]
  /\ UNCHANGED <<clients, closed, received, mirrors, joined>>

\* handleShadowStream makes a channel and adds it.
AddClient(v) ==
  /\ v \notin clients
  /\ clients' = clients \cup {v}
  /\ closed' = closed \ {v}
  /\ queue' = [queue EXCEPT ![v] = <<>>]
  /\ received' = [received EXCEPT ![v] = <<>>]
  /\ joined' = [joined EXCEPT ![v] = events]
  /\ stalled' = [stalled EXCEPT ![v] = FALSE]
  /\ UNCHANGED <<mirrors, answered, events>>

\* It writes the next event to the viewer.
Deliver(v) ==
  /\ v \in clients /\ queue[v] # <<>>
  /\ received' = [received EXCEPT ![v] = Append(@, Head(queue[v]))]
  /\ queue' = [queue EXCEPT ![v] = Tail(@)]
  /\ UNCHANGED <<clients, closed, mirrors, answered, events, joined, stalled>>

\* Mutant: the channel is closed but stays in the map.
StillThere(v) == clients
Removed(v) == clients \ {v}

\* The connection ends.
RemoveClient(v) ==
  /\ v \in clients
  /\ clients' = Removed(v)
  /\ closed' = closed \cup {v}
  /\ UNCHANGED <<queue, received, mirrors, answered, events, joined, stalled>>

MirrorEnds == MirrorFails \/ MirrorAnswers

DiffNext ==
  \/ FireShadowRequest \/ MirrorEnds \/ Broadcast
  \/ \E v \in Viewers : AddClient(v) \/ Deliver(v) \/ RemoveClient(v)

DiffSpec == DiffInit /\ [][DiffNext]_diffVars

----------------------------------------------------------------------------
(* Properties.                                                             *)

\* Among the types: a registered channel is never closed, for a send on a
\* closed channel panics (diff_stream.go:52-54).
DiffTypeOK ==
  /\ clients \cap closed = {}
  /\ \A v \in Viewers : Len(queue[v]) <= QueueSize

\* A viewer sees the events since it connected in their order, each once, and
\* only one whose own channel was full misses any: a slow viewer costs the
\* others nothing (diff_stream.go:55-57).
SeesEvents ==
  \A v \in clients :
    LET seen == received[v] \o queue[v] IN
    /\ \A i, j \in DOMAIN seen : i < j => seen[i] < seen[j]
    /\ ~stalled[v] => seen = [i \in 1 .. events - joined[v] |-> joined[v] + i]
=============================================================================
