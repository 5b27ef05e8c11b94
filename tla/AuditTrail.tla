----------------------------- MODULE AuditTrail -----------------------------
(***************************************************************************)
(* The audit trail (internal/telemetry/audit.go): every audited answer is  *)
(* a record, numbered here in the order they are emitted.  A record goes   *)
(* to a ring for the dashboard and to a buffer, which every record from    *)
(* the threshold on, and a ticker if there is one, flushes to the sink as  *)
(* one batch.  What the configuration says may change while the daemon     *)
(* runs; whether there is a ticker is settled when it starts.              *)
(***************************************************************************)
EXTENDS Integers, Sequences, FiniteSets, SequencesExt

CONSTANTS
  RingSize,     \* records the dashboard keeps (200)
  Threshold,    \* buffered records from which on a flush is started (500)
  MaxRecords,   \* bound on records
  MaxFlushes    \* bound on started flushes that have not run yet

ASSUME AuditAssumption ==
  /\ RingSize \in Nat \ {0} /\ Threshold \in Nat \ {0}
  /\ MaxRecords \in Nat /\ MaxFlushes \in Nat

VARIABLES
  enabled,   \* audit.enabled in the configuration in force
  sink,      \* whether its audit.sink_url is set
  ticker,    \* whether InitAuditShipper has started a ticker
  buffer,    \* auditBuffer
  ring,      \* uiAuditBuffer, uiAuditIndex and uiAuditCount
  started,   \* flushes started by records that have not run yet
  batches,   \* batches on their way, [by, records, posted]
  shipped,   \* records the sink has accepted, in the order it did
  lost,      \* records that were dropped
  emitted,   \* records so far
  boot       \* records before the last start of the process

auditVars ==
  <<enabled, sink, ticker, buffer, ring, started, batches, shipped, lost,
    emitted, boot>>
settings == <<enabled, sink, ticker>>

Fresh == [at |-> [i \in 0 .. RingSize - 1 |-> 0], index |-> 0, count |-> 0]

\* InitAuditShipper.
Ticks(on) == on

AuditInit ==
  /\ enabled \in BOOLEAN /\ sink \in BOOLEAN
  /\ ticker = Ticks(enabled)
  /\ buffer = <<>>
  /\ ring = Fresh
  /\ started = 0
  /\ batches = {}
  /\ shipped = <<>> /\ lost = {}
  /\ emitted = 0 /\ boot = 0

InFlight == UNION {ToSet(b.records) : b \in batches}

----------------------------------------------------------------------------

\* Mutant: the test is made of the buffer before the record.
FullBefore == Len(buffer) >= Threshold
ShouldFlush == Len(buffer) + 1 >= Threshold

NextCount == IF ring.count < RingSize THEN ring.count + 1 ELSE ring.count

EmitAuditRecord ==
  LET rec == emitted + 1 IN
  /\ enabled
  /\ emitted < MaxRecords /\ started < MaxFlushes
  /\ emitted' = rec
  /\ buffer' = Append(buffer, rec)
  /\ ring' = [at |-> [ring.at EXCEPT ![ring.index] = rec],
              index |-> (ring.index + 1) % RingSize,
              count |-> NextCount]
  /\ started' = IF ShouldFlush THEN started + 1 ELSE started
  /\ UNCHANGED <<settings, batches, shipped, lost, boot>>

\* Mutant: the dashboard reads a full ring from its first cell.
FromFirst(i) == ring.at[i]
FromOldest(i) == ring.at[(ring.index + i) % RingSize]

GetRecentAuditRecords ==
  [i \in 1 .. ring.count |->
     IF ring.count < RingSize THEN ring.at[i - 1] ELSE FromOldest(i - 1)]

\* Mutant: the next flush ships the batch again.
Kept == buffer
Emptied == <<>>

\* flushAuditBuffer takes the buffer.
Flush(by) ==
  IF buffer = <<>> THEN UNCHANGED <<buffer, batches>>
  ELSE /\ buffer' = Emptied
       /\ batches' = batches \cup {[by |-> by, records |-> buffer, posted |-> FALSE]}

\* Mutant: the ticker waits for the threshold too.
DueWhenFull == Len(buffer) >= Threshold
Due == buffer # <<>>

\* The ticker's goroutine posts one batch at a time.
TickerFlush ==
  /\ ticker /\ Due
  /\ ~\E b \in batches : b.by = "ticker"
  /\ Flush("ticker")
  /\ UNCHANGED <<settings, ring, started, shipped, lost, emitted, boot>>

\* A goroutine that a record started.
StartedFlush ==
  /\ started > 0
  /\ started' = started - 1
  /\ Flush("record")
  /\ UNCHANGED <<settings, ring, shipped, lost, emitted, boot>>

\* The batch is dropped.
Drop(b) ==
  /\ batches' = batches \ {b}
  /\ lost' = lost \cup ToSet(b.records)
  /\ UNCHANGED shipped

\* After the lock is released the batch is posted, to the sink there is now.
Post(b) ==
  /\ ~b.posted
  /\ IF sink
       THEN /\ batches' = (batches \ {b}) \cup {[b EXCEPT !.posted = TRUE]}
            /\ UNCHANGED <<shipped, lost>>
       ELSE Drop(b)
  /\ UNCHANGED <<settings, buffer, ring, started, emitted, boot>>

\* The sink accepts a batch.
Accept(b) ==
  /\ b.posted
  /\ batches' = batches \ {b}
  /\ shipped' = shipped \o b.records
  /\ UNCHANGED <<settings, buffer, ring, started, lost, emitted, boot>>

\* It answers an error, or not within ten seconds: there is no second attempt.
Reject(b) ==
  /\ b.posted
  /\ Drop(b)
  /\ UNCHANGED <<settings, buffer, ring, started, emitted, boot>>

\* The configuration is loaded again; the ticker is not looked at.
AuditReload ==
  /\ enabled' \in BOOLEAN /\ sink' \in BOOLEAN
  /\ UNCHANGED <<ticker, buffer, ring, started, batches, shipped, lost,
                 emitted, boot>>

\* The daemon is stopped, by a signal or otherwise, and started again with
\* what the configuration says then: the shutdown does not flush.
AuditRestart ==
  /\ emitted > boot
  /\ enabled' \in BOOLEAN /\ sink' \in BOOLEAN /\ ticker' = Ticks(enabled')
  /\ lost' = lost \cup ToSet(buffer) \cup InFlight
  /\ buffer' = <<>> /\ batches' = {}
  /\ ring' = Fresh
  /\ started' = 0
  /\ boot' = emitted
  /\ UNCHANGED <<shipped, emitted>>

Settle == \E b \in batches : Post(b) \/ Accept(b) \/ Reject(b)

AuditNext ==
  \/ EmitAuditRecord
  \/ TickerFlush \/ StartedFlush \/ Settle
  \/ AuditReload \/ AuditRestart

AuditSpec == AuditInit /\ [][AuditNext]_auditVars

----------------------------------------------------------------------------
(* Properties.                                                             *)

AuditTypeOK ==
  /\ ring.index \in 0 .. RingSize - 1
  /\ ring.count = IF emitted - boot < RingSize THEN emitted - boot ELSE RingSize
  /\ started \in 0 .. MaxFlushes
  /\ boot <= emitted

\* Whatever flushes run at once and whatever restarts there are, a record is
\* in exactly one place: buffered, on its way, accepted, or lost; the sink
\* never gets it twice (audit.go:119-120).
ExactlyOnePlace ==
  LET places == <<ToSet(buffer), InFlight, ToSet(shipped), lost>> IN
  /\ UNION Range(places) = 1 .. emitted
  /\ \A i, j \in DOMAIN places : i # j => places[i] \cap places[j] = {}
  /\ IsInjective(shipped)
  /\ \A b, c \in batches : b # c => ToSet(b.records) \cap ToSet(c.records) = {}

\* The dashboard shows the last records of this run of the daemon, in the
\* order they were emitted (audit.go:99-108).
RingIsRecent ==
  GetRecentAuditRecords =
    [i \in 1 .. ring.count |-> emitted - ring.count + i]

\* "If buffer exceeds 500 records, flush immediately to prevent OOM"
\* (audit.go:80): a buffer at the threshold always has a flush coming.
FullBufferHasFlush == Len(buffer) >= Threshold => started > 0

\* No record stays in the buffer for ever while the shipper ticks, which it does
\* if auditing was enabled when the daemon started: again and again the buffer is
\* empty (audit.go:45-55).
AuditDrains == []<>(ticker => buffer = <<>>)
=============================================================================
