---------------------------- MODULE IcebergSink ----------------------------
(***************************************************************************)
(* The Iceberg sink (s3events/sinks/iceberg.py): a buffer of flattened     *)
(* rows, the Kafka offsets they came from, and a bounded retry.  The       *)
(* operators here are the bodies of the sink's methods; module Consumer    *)
(* calls them from the poll loop.  flush() appends to the table and then   *)
(* calls the offset committer: the two calls go to two services, so a      *)
(* crash can fall between them and they are two steps here, with the       *)
(* offsets on their way to Kafka held in inflight.                         *)
(*                                                                         *)
(* The code compares clock readings only to ask whether the flush interval *)
(* has passed since _last_flush and whether _retry_after has been reached, *)
(* so the two timestamps are kept as the time elapsed since the one        *)
(* (capped at the interval) and the time left until the other.             *)
(***************************************************************************)
EXTENDS Services

CONSTANTS
    BatchSize,            \* batch_size
    FlushInterval,        \* flush_interval_seconds
    MaxFlushAttempts,     \* max_flush_attempts
    RetryBackoff,         \* retry_backoff_seconds
    MaxRetryBackoff,      \* MAX_RETRY_BACKOFF_SECONDS
    MaxBuffered           \* max_buffered_records

\* What _parse_iceberg accepts: positive settings, and room for a batch.
ASSUME SinkAssumption ==
    /\ BatchSize \in Nat \ {0}
    /\ FlushInterval \in Nat \ {0}
    /\ MaxFlushAttempts \in Nat \ {0}
    /\ RetryBackoff \in Nat \ {0}
    /\ MaxRetryBackoff \in Nat \ {0}
    /\ MaxBuffered \in Nat
    /\ MaxBuffered >= BatchSize

VARIABLES
    buffer,               \* _buffer: rows not yet written, in arrival order
    pending,              \* _pending_offsets: highest buffered offset, or NoOffset
    failures,             \* _failures: failed attempts in a row
    sinceFlush,           \* time since _last_flush, up to FlushInterval
    backoffLeft,          \* time until _retry_after, 0 once reached
    needsReload,          \* _needs_reload
    inflight              \* offsets handed to the committer by flush(), or NoCommit

sinkVars == <<buffer, pending, failures, sinceFlush, backoffLeft, needsReload, inflight>>

NoOffset == -1
NoOffsets == [p \in Partitions |-> NoOffset]
NoCommit == [p \in Partitions |-> 0]

\* A sink just constructed and opened.
FreshSink ==
    /\ buffer' = <<>>
    /\ pending' = NoOffsets
    /\ failures' = 0
    /\ sinceFlush' = 0
    /\ backoffLeft' = 0
    /\ needsReload' = FALSE
    /\ inflight' = NoCommit

\* _track_offsets: all rows of a message carry its partition and offset.
TrackOffsets(pend, p, o) == [pend EXCEPT ![p] = IF o > @ THEN o ELSE @]

\* Mutant: one past the offset to resume from.
NextOffsetsOffByOne(pend) ==
    [p \in Partitions |-> IF pend[p] = NoOffset THEN 0 ELSE pend[p] + 2]

\* pending_offsets: Kafka records the offset to resume from.
NextOffsets(pend) == [p \in Partitions |-> pend[p] + 1]

\* The exponential backoff of _record_failure, capped.
Backoff(n) ==
    LET delay == RetryBackoff * 2^(n - 1)
    IN IF delay \in 1..MaxRetryBackoff THEN delay ELSE MaxRetryBackoff

\* Mutant: only tick() looks at the deadline.
MayAlwaysAttempt == TRUE

\* flush() refuses to run before the deadline of the last failed attempt.
MayAttempt == failures = 0 \/ backoffLeft = 0

Writable(rows) ==
    \A r \in Range(rows) : Payload(r.kafka_partition, r.kafka_offset) \notin Unwritable

\* _append works on current metadata when it reloads first, or when the
\* handle is not behind the table.
Current == needsReload \/ ~stale

(***************************************************************************)
(* The ways one call of _append can end.                                   *)
(***************************************************************************)
\* Mutant: an append never writes more than batch_size rows.
AppendReturnsSlice(rows) ==
    /\ Current
    /\ Writable(rows)
    /\ table' = Append(table, SubSeq(rows, 1, IF Len(rows) < BatchSize THEN Len(rows) ELSE BatchSize))
    /\ stale' = FALSE
    /\ UNCHANGED faults

\* Mutant: overwrite() in the place of append().
AppendReturnsOverwriting(rows) ==
    /\ Current
    /\ Writable(rows)
    /\ table' = <<rows>>
    /\ stale' = FALSE
    /\ UNCHANGED faults

\* The rows are one new snapshot, and the handle describes it.
AppendReturns(rows) ==
    /\ Current
    /\ Writable(rows)
    /\ table' = Append(table, rows)
    /\ stale' = FALSE
    /\ UNCHANGED faults

\* The catalog refuses a commit based on metadata that is out of date.
AppendConflicts ==
    /\ ~Current
    /\ UNCHANGED <<table, stale, faults>>

\* PyArrow refuses a row, after any reload and before anything is written.
ConversionFails(rows) ==
    /\ ~Writable(rows)
    /\ stale' = (stale /\ ~needsReload)
    /\ UNCHANGED <<table, faults>>

\* The catalog or the object store fails: before the reload, or after it.
AppendFails ==
    /\ Fault("appendFails")
    /\ stale' \in {stale, stale /\ ~needsReload}
    /\ UNCHANGED table

\* The snapshot is committed but the answer is lost, so _append raises.
AppendAnswerLost(rows) ==
    /\ Current
    /\ Writable(rows)
    /\ Fault("answerLost")
    /\ table' = Append(table, rows)
    /\ stale' = TRUE

AppendRaises(rows) ==
    \/ AppendConflicts
    \/ ConversionFails(rows)
    \/ AppendFails
    \/ AppendAnswerLost(rows)

(***************************************************************************)
(* flush(), up to its return or to the call of the offset committer.       *)
(***************************************************************************)
\* Mutant: the offsets of written rows stay pending.
FlushSucceedsKeepingOffsets(rows, pend) ==
    /\ AppendReturns(rows)
    /\ buffer' = <<>>
    /\ pending' = pend
    /\ failures' = 0
    /\ sinceFlush' = 0
    /\ needsReload' = FALSE
    /\ inflight' = NextOffsets(pend)
    /\ UNCHANGED backoffLeft

\* Mutant: written rows stay buffered.
FlushSucceedsKeepingRows(rows, pend) ==
    /\ AppendReturns(rows)
    /\ buffer' = rows
    /\ pending' = pend
    /\ failures' = 0
    /\ sinceFlush' = 0
    /\ needsReload' = FALSE
    /\ inflight' = NextOffsets(pend)
    /\ UNCHANGED backoffLeft

\* The append is durable: forget the rows, then hand their offsets over.
FlushSucceeds(rows, pend) ==
    /\ AppendReturns(rows)
    /\ buffer' = <<>>
    /\ pending' = NoOffsets
    /\ failures' = 0
    /\ sinceFlush' = 0
    /\ needsReload' = FALSE
    /\ inflight' = NextOffsets(pend)
    /\ UNCHANGED backoffLeft

\* Mutant: a failed batch is dropped.
FlushFailsDropping(rows, pend) ==
    /\ AppendRaises(rows)
    /\ buffer' = <<>>
    /\ pending' = NoOffsets
    /\ failures' = failures + 1
    /\ needsReload' = TRUE
    /\ backoffLeft' = Backoff(failures + 1)
    /\ UNCHANGED <<sinceFlush, inflight>>

\* Mutant: a retry goes on with the handle that failed.
FlushFailsNotReloading(rows, pend) ==
    /\ AppendRaises(rows)
    /\ buffer' = rows
    /\ pending' = pend
    /\ failures' = failures + 1
    /\ backoffLeft' = IF failures + 1 >= MaxFlushAttempts
                      THEN backoffLeft ELSE Backoff(failures + 1)
    /\ UNCHANGED <<sinceFlush, inflight, needsReload>>

\* _record_failure: keep the batch, count, reload next time, back off.
FlushFails(rows, pend) ==
    /\ AppendRaises(rows)
    /\ buffer' = rows
    /\ pending' = pend
    /\ failures' = failures + 1
    /\ needsReload' = TRUE
    /\ backoffLeft' = IF failures + 1 >= MaxFlushAttempts
                      THEN backoffLeft ELSE Backoff(failures + 1)
    /\ UNCHANGED <<sinceFlush, inflight>>

\* Mutant: one attempt too many.
ExhaustedLate == failures' > MaxFlushAttempts

\* _record_failure raises SinkFatalError on the last permitted attempt.
Exhausted == failures' >= MaxFlushAttempts

(***************************************************************************)
(* tick(): flush when the retry backoff or the flush interval has elapsed. *)
(***************************************************************************)
FlushDue ==
    /\ buffer # <<>>
    /\ IF failures > 0 THEN backoffLeft = 0 ELSE sinceFlush >= FlushInterval

\* Mutant: the interval restarts on every tick.
TickWaitsRestarting ==
    /\ ~FlushDue
    /\ sinceFlush' = 0
    /\ UNCHANGED <<buffer, pending, failures, backoffLeft, needsReload, inflight>>
    /\ UNCHANGED <<table, stale, faults>>

\* An empty buffer restarts the interval; otherwise it is too early.
TickWaits ==
    /\ ~FlushDue
    /\ sinceFlush' = IF buffer = <<>> THEN 0 ELSE sinceFlush
    /\ UNCHANGED <<buffer, pending, failures, backoffLeft, needsReload, inflight>>
    /\ UNCHANGED <<table, stale, faults>>

TickFlushes == FlushDue /\ FlushSucceeds(buffer, pending)

TickFails == FlushDue /\ FlushFails(buffer, pending)

(***************************************************************************)
(* handle(): buffer the rows of the message at offset o of partition p and *)
(* flush when a batch is full.                                             *)
(***************************************************************************)
Extended(p, o) == buffer \o FlattenedRows(p, o)

BatchFull(p, o) == Len(Extended(p, o)) >= BatchSize /\ MayAttempt

HandleBuffers(p, o) ==
    /\ ~BatchFull(p, o)
    /\ buffer' = Extended(p, o)
    /\ pending' = TrackOffsets(pending, p, o)
    /\ UNCHANGED <<failures, sinceFlush, backoffLeft, needsReload, inflight>>
    /\ UNCHANGED <<table, stale, faults>>

HandleFlushes(p, o) ==
    /\ BatchFull(p, o)
    /\ FlushSucceeds(Extended(p, o), TrackOffsets(pending, p, o))

HandleFails(p, o) ==
    /\ BatchFull(p, o)
    /\ FlushFails(Extended(p, o), TrackOffsets(pending, p, o))

\* Mutant: the limit itself is allowed.
OverLimitLate == Len(buffer') > MaxBuffered

\* handle() raises SinkFatalError at the memory limit, whatever flush() did.
OverLimit == Len(buffer') >= MaxBuffered

(***************************************************************************)
(* close(): one last attempt, ignoring the backoff and the attempts so far *)
(***************************************************************************)
\* Only the process exit follows, so the reset of the timers is not kept.
CloseFlushes == buffer # <<>> /\ FlushSucceeds(buffer, pending)

\* Rows stay unwritten: SinkError, and _record_failure's bookkeeping dies with
\* the process.
CloseRaises == buffer # <<>> /\ AppendRaises(buffer)

\* Time passes for the two timers.
SinkElapse ==
    /\ sinceFlush' = IF sinceFlush < FlushInterval THEN sinceFlush + 1 ELSE sinceFlush
    /\ backoffLeft' = IF backoffLeft > 0 THEN backoffLeft - 1 ELSE 0
    /\ UNCHANGED <<buffer, pending, failures, needsReload, inflight>>

(***************************************************************************)
(* The sink's part of the type invariant.                                  *)
(***************************************************************************)
SinkTypeOK ==
    /\ buffer \in Seq(Row)
    /\ pending \in [Partitions -> Nat \cup {NoOffset}]
    /\ failures \in 0..MaxFlushAttempts
    /\ sinceFlush \in 0..FlushInterval
    /\ backoffLeft \in 0..MaxRetryBackoff
    /\ needsReload \in BOOLEAN
    /\ inflight \in [Partitions -> Nat]
=============================================================================
