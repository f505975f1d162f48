---------------------------- MODULE RetryProofs ----------------------------
(***************************************************************************)
(* Proofs about failed attempts: what they keep together, how far apart    *)
(* they are, how many it takes to give up, and that they write no row      *)
(* twice as long as a call that fails has had no effect.                   *)
(***************************************************************************)
EXTENDS ConsumerProofs, FiniteSetTheorems

(***************************************************************************)
(* The buffer and the pending offsets, which every method keeps together.  *)
(***************************************************************************)
PendingIsHighest ==
    /\ \A r \in Range(buffer) : r.kafka_offset <= pending[r.kafka_partition]
    /\ \A p \in Partitions : pending[p] # NoOffset =>
          \E r \in Range(buffer) : r.kafka_partition = p /\ r.kafka_offset = pending[p]

\* An empty buffer with nothing pending, as after a flush and after a restart.
Emptied == buffer' = <<>> /\ \A p \in Partitions : pending'[p] = NoOffset

\* An empty buffer has no pending offset.
LEMMA HighestEmptied == Emptied => PendingIsHighest'
BY DEF Emptied, PendingIsHighest, Range

\* Steps that touch neither the rows nor the offsets.
LEMMA HighestUnchanged ==
    PendingIsHighest /\ UNCHANGED <<buffer, pending>> => PendingIsHighest'
BY DEF PendingIsHighest

\* The end of a process takes its memory.
LEMMA TerminateEmpties ==
    ASSUME NEW how, Terminate(how)
    PROVE  Emptied
BY DEF Terminate, FreshSink, NoOffsets, Emptied

\* A successful flush clears rows and offsets together.
LEMMA FlushEmpties ==
    ASSUME NEW rows, NEW pend, FlushSucceeds(rows, pend)
    PROVE  Emptied
BY DEF FlushSucceeds, NoOffsets, Emptied

\* The message in hand comes after all that is pending, so it is the new highest.
LEMMA TrackedHighest ==
    ASSUME TypeInv, OrderInv, PendingIsHighest, Holding,
           NEW p, NEW o, p = polled.partition, o = polled.offset,
           NEW rows, rows = Extended(p, o), NEW pend, pend = TrackOffsets(pending, p, o)
    PROVE  /\ pend[p] = o
           /\ \A q \in Partitions \ {p} : pend[q] = pending[q]
           /\ \A r \in Range(rows) : r.kafka_offset <= pend[r.kafka_partition]
<1>1. /\ p \in Partitions /\ o \in Nat /\ o \in Offsets(p)
      /\ Range(rows) = Range(buffer) \cup RowsAt(p, o)
  BY ExtendedType
<1>2. pending[p] < o
  BY DEF OrderInv, InHandIsLast
<1>3. /\ pend[p] = o
      /\ \A q \in Partitions \ {p} : pend[q] = pending[q]
  <2>1. pending \in [Partitions -> Nat \cup {NoOffset}]
    BY DEF TypeInv, TypeOK, SinkTypeOK
  <2>2. /\ pend[p] = IF o > pending[p] THEN o ELSE pending[p]
        /\ \A q \in Partitions \ {p} : pend[q] = pending[q]
    BY <1>1, <2>1, TrackOffsetsType
  <2> QED
    BY <1>1, <1>2, <2>2, OrderTypes
<1>4. \A r \in RowsAt(p, o) : r.kafka_partition = p /\ r.kafka_offset = o
  BY <1>1, RowCoordinates DEF TypeInv
<1>5. ASSUME NEW r \in Range(rows)
      PROVE  r.kafka_offset <= pend[r.kafka_partition]
  <2>1. CASE r \in RowsAt(p, o)
    BY <1>1, <1>3, <1>4, <2>1
  <2>2. CASE r \in Range(buffer)
    <3>1. r.kafka_partition \in Partitions /\ r.kafka_offset \in Nat
      BY <2>2, OrderTypes DEF Row
    <3>2. r.kafka_offset <= pending[r.kafka_partition]
      BY <2>2 DEF PendingIsHighest
    <3>3. CASE r.kafka_partition = p
      BY <1>1, <1>2, <1>3, <3>1, <3>2, <3>3, OrderTypes
    <3>4. CASE r.kafka_partition # p
      BY <1>3, <3>1, <3>2, <3>4
    <3> QED
      BY <3>3, <3>4
  <2> QED
    BY <1>1, <1>5, <2>1, <2>2
<1> QED
  BY <1>3, <1>5

\* handle() adds the rows of a message and its offset together.
LEMMA HighestTracked ==
    ASSUME TypeInv, OrderInv, PendingIsHighest, Holding,
           NEW p, NEW o, p = polled.partition, o = polled.offset,
           Payload(p, o) \notin Undecodable,
           buffer' = Extended(p, o), pending' = TrackOffsets(pending, p, o)
    PROVE  PendingIsHighest'
<1>1. /\ p \in Partitions /\ o \in Nat /\ o \in Offsets(p)
      /\ Range(buffer') = Range(buffer) \cup RowsAt(p, o)
  BY ExtendedType
<1>2. /\ pending'[p] = o
      /\ \A q \in Partitions \ {p} : pending'[q] = pending[q]
      /\ \A r \in Range(buffer') : r.kafka_offset <= pending'[r.kafka_partition]
  BY TrackedHighest
<1>3. \A r \in RowsAt(p, o) : r.kafka_partition = p /\ r.kafka_offset = o
  BY <1>1, RowCoordinates DEF TypeInv
<1>4. ASSUME NEW q \in Partitions, pending'[q] # NoOffset
      PROVE  \E r \in Range(buffer') : r.kafka_partition = q /\ r.kafka_offset = pending'[q]
  <2>1. CASE q = p
    <3>1. Payload(p, o) \in Payloads
      BY <1>1, FlattenedRowsType DEF TypeInv
    <3>2. 1 \in 1..RowCount[Payload(p, o)]
      BY <3>1, ServicesAssumption
    <3>3. FlattenedRows(p, o)[1] \in RowsAt(p, o)
      BY <3>2 DEF RowsAt, FlattenedRows, Range
    <3> QED
      BY <1>1, <1>2, <1>3, <2>1, <3>3
  <2>2. CASE q # p
    BY <1>1, <1>2, <1>4, <2>2 DEF PendingIsHighest
  <2> QED
    BY <2>1, <2>2
<1> QED
  BY <1>2, <1>4 DEF PendingIsHighest

\* Every step keeps the pending offset at its last row.
LEMMA HighestNext ==
    TypeInv /\ OrderInv /\ PendingIsHighest /\ [Next]_vars => PendingIsHighest'
<1> SUFFICES ASSUME TypeInv, OrderInv, PendingIsHighest, [Next]_vars PROVE PendingIsHighest'
  OBVIOUS
<1>1. CASE UNCHANGED vars \/ Publish \/ OtherWriter \/ Elapse \/ Interrupt
  BY <1>1, HighestUnchanged
     DEF vars, sinkVars, Publish, OtherWriter, Elapse, SinkElapse, Interrupt
<1>2. CASE Crash \/ OpenRaises
  BY <1>2, TerminateEmpties, HighestEmptied DEF Crash, OpenRaises
<1>3. CASE \/ Start \/ PollNothing \/ PollFatal \/ \E p \in Partitions : PollRecord(p)
           \/ LeaveInterrupted \/ SkipMessage \/ RaiseFromLoop
  BY <1>3, HighestUnchanged
     DEF sinkVars, Start, PollNothing, PollFatal, PollRecord, LeaveInterrupted, SkipMessage,
         RaiseFromLoop
<1>4. CASE OpenReturns
  BY <1>4, HighestEmptied DEF OpenReturns, FreshSink, NoOffsets, Emptied
<1>5. CASE Tick
  <2>1. CASE TickWaits \/ TickFails
    BY <2>1, HighestUnchanged DEF TickWaits, TickFails, FlushFails
  <2>2. CASE TickFlushes
    BY <2>2, FlushEmpties, HighestEmptied DEF TickFlushes
  <2> QED
    BY <1>5, <2>1, <2>2 DEF Tick
<1>6. CASE DispatchMessage
  <2> DEFINE p == polled.partition
             o == polled.offset
  <2>1. Holding /\ Payload(p, o) \notin Undecodable
    BY <1>6 DEF DispatchMessage
  <2>2. CASE HandleBuffers(p, o) \/ HandleFails(p, o)
    <3>1. buffer' = Extended(p, o) /\ pending' = TrackOffsets(pending, p, o)
      BY <2>2 DEF HandleBuffers, HandleFails, FlushFails
    <3> QED
      BY <2>1, <3>1, HighestTracked
  <2>3. CASE HandleFlushes(p, o)
    BY <2>3, FlushEmpties, HighestEmptied DEF HandleFlushes
  <2> QED
    BY <1>6, <2>2, <2>3 DEF DispatchMessage
<1>7. CASE Close
  <2>1. CASE Terminate(ExitStatus) \/ Terminate("error")
    BY <2>1, TerminateEmpties, HighestEmptied
  <2>2. CASE CloseFlushes
    BY <2>2, FlushEmpties, HighestEmptied DEF CloseFlushes
  <2> QED
    BY <1>7, <2>1, <2>2 DEF Close
<1>8. CASE CommitReturns \/ CommitRaises
  <2>1. CASE Terminate(ExitStatus)
    BY <2>1, TerminateEmpties, HighestEmptied
  <2>2. CASE UNCHANGED <<buffer, pending>>
    BY <2>2, HighestUnchanged
  <2> QED
    BY <1>8, <2>1, <2>2 DEF CommitReturns, CommitRaises, Return
<1> QED
  BY <1>1, <1>2, <1>3, <1>4, <1>5, <1>6, <1>7, <1>8 DEF Next, Process

\* The pending offset of a partition is the highest of its buffered rows, over
\* any number of failed attempts.
THEOREM PendingIsBuffered == Spec => []PendingMatchesBuffer
<1>1. TypeInv /\ PendingIsHighest => PendingMatchesBuffer
  <2> SUFFICES ASSUME TypeInv, PendingIsHighest, NEW p \in Partitions
               PROVE  LET offsets == { r.kafka_offset :
                                r \in { s \in Range(buffer) : s.kafka_partition = p } }
                      IN IF offsets = {} THEN pending[p] = NoOffset
                         ELSE pending[p] \in offsets /\ \A o \in offsets : o <= pending[p]
    BY DEF PendingMatchesBuffer
  <2> DEFINE offsets == { r.kafka_offset :
                            r \in { s \in Range(buffer) : s.kafka_partition = p } }
  <2>1. \A o \in offsets : o <= pending[p]
    BY DEF PendingIsHighest
  <2>2. pending[p] # NoOffset => pending[p] \in offsets
    BY DEF PendingIsHighest
  <2>3. \A o \in offsets : o \in Nat
    BY OrderTypes DEF Row
  <2>4. pending[p] = NoOffset => offsets = {}
    <3> HIDE DEF offsets
    <3> QED
      BY <2>1, <2>3 DEF NoOffset
  <2> HIDE DEF offsets
  <2>5. IF offsets = {} THEN pending[p] = NoOffset
        ELSE pending[p] \in offsets /\ \A o \in offsets : o <= pending[p]
    BY <2>1, <2>2, <2>4
  <2> QED
    BY <2>5 DEF offsets
<1>2. Init => PendingIsHighest
  BY DEF Init, NoOffsets, PendingIsHighest, Range
<1> QED
  BY <1>1, <1>2, TypeInit, TypeNext, OrderInit, OrderNext, HighestNext, PTL DEF Spec

(***************************************************************************)
(* Retries.                                                                *)
(***************************************************************************)
\* Between a failure and its deadline neither tick() nor a batch that keeps
\* filling writes to the table or fails once more; only close() may.
THEOREM RetriesKeepTheirDistance == Spec => BackoffHonoured
<1> DEFINE Attempt == table' # table \/ failures' > failures
           Allowed == failures = 0 \/ backoffLeft = 0 \/ pc = "closing"
<1>1. TypeInv /\ [Next]_vars => [Attempt => Allowed]_vars
  <2> SUFFICES ASSUME TypeInv, Next PROVE Attempt => Allowed
    OBVIOUS
  <2>0. failures \in Nat
    BY DEF TypeInv, TypeOK, SinkTypeOK
  <2>1. CASE Tick
    <3>1. FlushDue => Allowed
      BY <2>0 DEF FlushDue
    <3>2. TickWaits => ~Attempt
      BY <2>0 DEF TickWaits
    <3> QED
      BY <2>1, <3>1, <3>2 DEF Tick, TickFlushes, TickFails
  <2>2. CASE DispatchMessage
    <3> DEFINE p == polled.partition
               o == polled.offset
    <3>1. BatchFull(p, o) => Allowed
      BY DEF BatchFull, MayAttempt
    <3>2. HandleBuffers(p, o) => ~Attempt
      BY <2>0 DEF HandleBuffers
    <3> QED
      BY <2>2, <3>1, <3>2 DEF DispatchMessage, HandleFlushes, HandleFails
  <2>3. CASE Close
    BY <2>3 DEF Close
  <2>4. CASE ~(Tick \/ DispatchMessage \/ Close)
    <3>1. UNCHANGED table
      BY <2>4 DEF Next, Process, Publish, PublishTo, OtherWriter, ForeignSnapshot, Elapse,
                  Interrupt, Crash, OpenRaises, Start, OpenReturns, PollRecord, PollNothing,
                  PollFatal, LeaveInterrupted, SkipMessage, RaiseFromLoop, CommitReturns,
                  CommitRaises, serviceVars
    <3>2. failures' \in {failures, 0}
      BY <2>4 DEF Next, Process, Publish, OtherWriter, Elapse, SinkElapse, Interrupt, Crash,
                  OpenRaises, Start, OpenReturns, PollRecord, PollNothing, PollFatal,
                  LeaveInterrupted, SkipMessage, RaiseFromLoop, CommitReturns, CommitRaises,
                  Return, Terminate, FreshSink, sinkVars
    <3> QED
      BY <2>0, <3>1, <3>2
  <2> QED
    BY <2>1, <2>2, <2>3, <2>4
<1> QED
  BY <1>1, TypeInit, TypeNext, PTL DEF Spec, BackoffHonoured

\* Every failed attempt has used up a fault, and so has a stale handle that the
\* next attempt would conflict on.
FaultsPaid ==
    /\ failures + faults <= MaxFaults
    /\ stale /\ ~needsReload => failures + 1 + faults <= MaxFaults
    /\ needsReload => failures > 0

OutOfAttempts ==
    pc = "closing" /\ cause = "sinkFatal" /\ Len(buffer) < MaxBuffered =>
        failures >= MaxFlushAttempts

EarnedInv == FaultsPaid /\ OutOfAttempts

\* What FaultsPaid adds up are numbers.
LEMMA FaultNumbers ==
    ASSUME TypeInv
    PROVE  /\ failures \in Nat /\ faults \in Nat /\ MaxFaults \in Nat
           /\ stale \in BOOLEAN /\ needsReload \in BOOLEAN
BY ServicesAssumption DEF TypeInv, TypeOK, SinkTypeOK

\* A fault pays for the failure it leads to.
LEMMA PaidFault ==
    ASSUME TypeInv, FaultsPaid, NEW kind, Fault(kind)
    PROVE  failures + faults' + 1 <= MaxFaults
BY FaultNumbers DEF FaultsPaid, Fault

\* Steps that count no failure.
LEMMA PaidUnchanged ==
    ASSUME TypeInv, FaultsPaid, UNCHANGED <<failures, needsReload, stale>>,
           faults' = faults \/ \E kind : Fault(kind)
    PROVE  FaultsPaid'
BY FaultNumbers DEF FaultsPaid, Fault

\* A handle that is stale has cost a fault, whoever has noticed it by now.
LEMMA PaidAfresh ==
    ASSUME TypeInv, FaultsPaid, failures' = 0, needsReload' = FALSE,
           faults' = faults \/ \E kind : Fault(kind),
           stale' = FALSE \/ stale' = stale \/ \E kind : Fault(kind)
    PROVE  FaultsPaid'
<1>1. faults' \in Nat /\ faults' <= faults
  BY FaultNumbers DEF Fault
<1>2. failures' + faults' <= MaxFaults
  BY <1>1, FaultNumbers DEF FaultsPaid
<1>3. stale' => failures' + 1 + faults' <= MaxFaults
  <2>1. CASE \E kind : Fault(kind)
    BY <2>1, FaultNumbers DEF FaultsPaid, Fault
  <2>2. CASE stale /\ ~needsReload
    BY <1>1, <2>2, FaultNumbers DEF FaultsPaid
  <2>3. CASE stale /\ needsReload
    BY <1>1, <2>3, FaultNumbers DEF FaultsPaid
  <2>4. stale' => stale \/ \E kind : Fault(kind)
    OBVIOUS
  <2> QED
    BY <2>1, <2>2, <2>3, <2>4, FaultNumbers
<1> QED
  BY <1>2, <1>3 DEF FaultsPaid

\* An attempt that fails, with rows that can all be written.
LEMMA PaidFailure ==
    ASSUME Unwritable = {}, TypeInv, FaultsPaid, NEW rows, NEW pend, FlushFails(rows, pend)
    PROVE  FaultsPaid'
<1>1. failures' = failures + 1 /\ needsReload' = TRUE
  BY DEF FlushFails
<1>2. failures + 1 + faults' <= MaxFaults
  <2>1. CASE AppendConflicts
    <3>1. stale /\ ~needsReload
      BY <2>1, FaultNumbers DEF AppendConflicts, Current
    <3> QED
      BY <2>1, <3>1, FaultNumbers DEF AppendConflicts, FaultsPaid
  <2>2. ~ConversionFails(rows)
    BY DEF ConversionFails, Writable
  <2>3. CASE AppendFails \/ AppendAnswerLost(rows)
    <3>1. \E kind : Fault(kind)
      BY <2>3 DEF AppendFails, AppendAnswerLost
    <3>2. faults' = faults - 1
      BY <3>1 DEF Fault
    <3> QED
      BY <3>2, FaultNumbers DEF FaultsPaid
  <2> QED
    BY <2>1, <2>2, <2>3 DEF FlushFails, AppendRaises
<1> QED
  BY <1>1, <1>2, FaultNumbers DEF FaultsPaid

\* A successful flush owes nothing.
LEMMA PaidFlush ==
    ASSUME TypeInv, FaultsPaid, NEW rows, NEW pend, FlushSucceeds(rows, pend)
    PROVE  FaultsPaid'
BY PaidAfresh DEF FlushSucceeds, AppendReturns

\* Every step keeps the account of the faults, where every row can be converted.
LEMMA EarnedNext ==
    ASSUME Unwritable = {}, TypeInv, OrderInv, EarnedInv, [Next]_vars
    PROVE  EarnedInv'
<1>0. FaultsPaid /\ OutOfAttempts
  BY DEF EarnedInv
<1>1. CASE UNCHANGED vars \/ Publish \/ Elapse \/ Interrupt
  <2>1. /\ UNCHANGED <<failures, needsReload, stale, buffer, pc, cause>>
        /\ faults' = faults \/ \E kind : Fault(kind)
    BY <1>1 DEF vars, serviceVars, sinkVars, processVars, Publish, PublishTo, Elapse, SinkElapse,
                Interrupt
  <2> QED
    BY <1>0, <2>1, PaidUnchanged DEF EarnedInv, OutOfAttempts
<1>2. CASE OtherWriter
  <2>1. /\ UNCHANGED <<failures, needsReload, buffer, pc, cause>> /\ Fault("foreign")
    BY <1>2 DEF OtherWriter, ForeignSnapshot, sinkVars, processVars
  <2>2. FaultsPaid'
    <3>1. failures + faults' + 1 <= MaxFaults /\ faults' \in Nat
      BY <1>0, <2>1, PaidFault, FaultNumbers DEF Fault
    <3> QED
      BY <1>0, <2>1, <3>1, FaultNumbers DEF FaultsPaid
  <2> QED
    BY <1>0, <2>1, <2>2 DEF EarnedInv, OutOfAttempts
<1>3. CASE Crash \/ OpenRaises
  <2>1. /\ failures' = 0 /\ needsReload' = FALSE /\ UNCHANGED stale /\ pc' = "down"
        /\ \E kind : Fault(kind)
    BY <1>3 DEF Crash, OpenRaises, Terminate, FreshSink
  <2> QED
    BY <1>0, <2>1, PaidAfresh DEF EarnedInv, OutOfAttempts
<1>4. CASE \/ Start \/ PollNothing \/ PollFatal \/ \E p \in Partitions : PollRecord(p)
           \/ LeaveInterrupted \/ SkipMessage \/ RaiseFromLoop
  <2>1. /\ UNCHANGED <<failures, needsReload, stale>>
        /\ faults' = faults \/ \E kind : Fault(kind)
        /\ pc' # "closing" \/ cause' # "sinkFatal"
    BY <1>4 DEF serviceVars, sinkVars, Start, PollNothing, PollFatal, PollRecord,
                LeaveInterrupted, SkipMessage, RaiseFromLoop, Leave, NextIteration
  <2> QED
    BY <1>0, <2>1, PaidUnchanged DEF EarnedInv, OutOfAttempts
<1>5. CASE OpenReturns
  <2>1. /\ failures' = 0 /\ needsReload' = FALSE /\ stale' = FALSE /\ faults' = faults
        /\ pc' = "polling"
    BY <1>5 DEF OpenReturns, FreshSink
  <2> QED
    BY <1>0, <2>1, PaidAfresh DEF EarnedInv, OutOfAttempts
<1>6. CASE Tick
  <2>1. CASE TickWaits /\ pc' = "handle"
    BY <1>0, <2>1, PaidUnchanged DEF TickWaits, EarnedInv, OutOfAttempts
  <2>2. CASE TickFlushes /\ CallCommit("handle")
    BY <1>0, <2>2, PaidFlush DEF TickFlushes, CallCommit, EarnedInv, OutOfAttempts
  <2>3. CASE TickFails /\ IF Exhausted THEN Leave("sinkFatal") ELSE pc' = "handle"
    <3>1. FaultsPaid'
      BY <1>0, <2>3, PaidFailure DEF TickFails
    <3>2. pc' = "closing" => failures' >= MaxFlushAttempts
      BY <2>3 DEF Exhausted
    <3> QED
      BY <3>1, <3>2 DEF EarnedInv, OutOfAttempts
  <2> QED
    BY <1>6, <2>1, <2>2, <2>3 DEF Tick
<1>7. CASE DispatchMessage
  <2> DEFINE p == polled.partition
             o == polled.offset
  <2>0. Len(buffer') \in Nat /\ MaxBuffered \in Nat
    <3>1. TypeInv'
      BY TypeNext
    <3> QED
      BY <3>1, SinkAssumption DEF TypeInv, TypeOK, SinkTypeOK
  <2>1. CASE HandleBuffers(p, o) /\ IF OverLimit THEN Leave("sinkFatal") ELSE NextIteration
    <3>1. FaultsPaid'
      BY <1>0, <2>1, PaidUnchanged DEF HandleBuffers
    <3>2. pc' = "closing" => Len(buffer') >= MaxBuffered
      BY <2>1 DEF OverLimit, NextIteration
    <3> QED
      BY <2>0, <3>1, <3>2 DEF EarnedInv, OutOfAttempts
  <2>2. CASE HandleFlushes(p, o) /\ CallCommit("polling")
    BY <1>0, <2>2, PaidFlush DEF HandleFlushes, CallCommit, EarnedInv, OutOfAttempts
  <2>3. CASE HandleFails(p, o) /\ IF Exhausted \/ OverLimit THEN Leave("sinkFatal") ELSE NextIteration
    <3>1. FaultsPaid'
      BY <1>0, <2>3, PaidFailure DEF HandleFails
    <3>2. pc' = "closing" => failures' >= MaxFlushAttempts \/ Len(buffer') >= MaxBuffered
      BY <2>3 DEF Exhausted, OverLimit, NextIteration
    <3> QED
      BY <2>0, <3>1, <3>2 DEF EarnedInv, OutOfAttempts
  <2> QED
    BY <1>7, <2>1, <2>2, <2>3 DEF DispatchMessage
<1>8. CASE Close
  <2>1. CASE Terminate(ExitStatus) /\ UNCHANGED <<table, stale, faults>>
    BY <1>0, <2>1, PaidAfresh DEF Terminate, FreshSink, EarnedInv, OutOfAttempts
  <2>2. CASE CloseFlushes /\ CallCommit("down")
    BY <1>0, <2>2, PaidFlush DEF CloseFlushes, CallCommit, EarnedInv, OutOfAttempts
  <2>3. CASE CloseRaises /\ Terminate("error")
    <3>1. failures' = 0 /\ needsReload' = FALSE /\ pc' = "down"
      BY <2>3 DEF Terminate, FreshSink
    <3>2. CASE AppendConflicts
      BY <1>0, <3>1, <3>2, PaidAfresh DEF AppendConflicts, EarnedInv, OutOfAttempts
    <3>3. CASE AppendFails \/ AppendAnswerLost(buffer)
      <4>1. \E kind : Fault(kind)
        BY <3>3 DEF AppendFails, AppendAnswerLost
      <4> QED
        BY <1>0, <3>1, <4>1, PaidAfresh DEF EarnedInv, OutOfAttempts
    <3>4. ~ConversionFails(buffer)
      BY DEF ConversionFails, Writable
    <3> QED
      BY <2>3, <3>2, <3>3, <3>4 DEF CloseRaises, AppendRaises
  <2> QED
    BY <1>8, <2>1, <2>2, <2>3 DEF Close
<1>9. CASE CommitReturns \/ CommitRaises
  <2>0. /\ faults' = faults \/ \E kind : Fault(kind)
        /\ UNCHANGED stale
    BY <1>9 DEF CommitReturns, CommitRaises
  <2>1. CASE Terminate(ExitStatus)
    BY <1>0, <2>0, <2>1, PaidAfresh DEF Terminate, FreshSink, EarnedInv, OutOfAttempts
  <2>2. CASE resume # "down" /\ Return
    <3>1. UNCHANGED <<failures, needsReload>> /\ pc' = resume
      BY <2>2 DEF Return
    <3>2. pc' # "closing"
      BY <3>1 DEF TypeInv, TypeOK
    <3> QED
      BY <1>0, <2>0, <3>1, <3>2, PaidUnchanged DEF EarnedInv, OutOfAttempts
  <2> QED
    BY <1>9, <2>1, <2>2 DEF CommitReturns, CommitRaises, Return
<1> QED
  BY <1>1, <1>2, <1>3, <1>4, <1>5, <1>6, <1>7, <1>8, <1>9 DEF Next, Process

\* Where every row can be converted, a process that gives up has seen as many
\* faults as it has attempts: a conflict is paid for by the snapshot behind it,
\* and costs one attempt only.
THEOREM GivingUpHasReasons ==
    ASSUME Unwritable = {}
    PROVE  Spec => []GivingUpIsEarned
<1>1. TypeInv /\ EarnedInv => GivingUpIsEarned
  <2> SUFFICES ASSUME TypeInv, FaultsPaid, failures >= MaxFlushAttempts
               PROVE  MaxFaults - faults >= MaxFlushAttempts
    BY DEF EarnedInv, OutOfAttempts, GivingUpIsEarned
  <2> QED
    BY FaultNumbers, SinkAssumption DEF FaultsPaid
<1>2. Init => EarnedInv
  BY ServicesAssumption DEF Init, ServicesInit, EarnedInv, FaultsPaid, OutOfAttempts
<1>3. TypeInv /\ OrderInv /\ EarnedInv /\ [Next]_vars => EarnedInv'
  BY EarnedNext
<1> QED
  BY <1>1, <1>2, <1>3, TypeInit, TypeNext, OrderInit, OrderNext, PTL DEF Spec

(***************************************************************************)
(* Each row once.                                                          *)
(***************************************************************************)
RefusedCallsOnly == {"crash", "answerLost", "commitFails"} \cap Faults = {}

TableOnce ==
    /\ \A i \in DOMAIN table : IsInjective(table[i])
    /\ \A i, j \in DOMAIN table : i # j => Range(table[i]) \cap Range(table[j]) = {}

\* A row that is in the table is acknowledged, or about to be.
DurableAcked ==
    \A r \in Durable :
        \/ r.kafka_offset < committed[r.kafka_partition]
        \/ pc = "commit" /\ r.kafka_offset < inflight[r.kafka_partition]

OnceInv == IsInjective(buffer) /\ TableOnce /\ DurableAcked

\* Two sequences without repetitions and with nothing in common.
LEMMA InjectiveConcat ==
    ASSUME NEW S, NEW s \in Seq(S), NEW t \in Seq(S),
           IsInjective(s), IsInjective(t), Range(s) \cap Range(t) = {}
    PROVE  IsInjective(s \o t)
<1>1. /\ DOMAIN s = 1..Len(s) /\ DOMAIN t = 1..Len(t)
      /\ Len(s) \in Nat /\ Len(t) \in Nat
  BY LenProperties
<1>2. /\ DOMAIN (s \o t) = 1..(Len(s) + Len(t))
      /\ \A i \in 1..(Len(s) + Len(t)) :
            (s \o t)[i] = IF i <= Len(s) THEN s[i] ELSE t[i - Len(s)]
  <2>1. s \o t \in Seq(S) /\ Len(s \o t) = Len(s) + Len(t)
    BY ConcatProperties
  <2>2. DOMAIN (s \o t) = 1..Len(s \o t)
    BY <2>1, LenProperties
  <2> QED
    BY <2>1, <2>2, ConcatProperties
<1> SUFFICES ASSUME NEW i \in DOMAIN (s \o t), NEW j \in DOMAIN (s \o t),
                    (s \o t)[i] = (s \o t)[j]
             PROVE  i = j
  BY DEF IsInjective
<1>3. CASE i <= Len(s) /\ j <= Len(s)
  <2>1. i \in DOMAIN s /\ j \in DOMAIN s /\ s[i] = s[j]
    BY <1>1, <1>2, <1>3
  <2> QED
    BY <2>1 DEF IsInjective
<1>4. CASE i > Len(s) /\ j > Len(s)
  <2>1. /\ i - Len(s) \in DOMAIN t /\ j - Len(s) \in DOMAIN t
        /\ t[i - Len(s)] = t[j - Len(s)]
    BY <1>1, <1>2, <1>4
  <2>2. i - Len(s) = j - Len(s)
    BY <2>1 DEF IsInjective
  <2> QED
    BY <1>1, <1>2, <2>2
<1>5. CASE i <= Len(s) /\ j > Len(s)
  <2>1. i \in DOMAIN s /\ j - Len(s) \in DOMAIN t /\ s[i] = t[j - Len(s)]
    BY <1>1, <1>2, <1>5
  <2> QED
    BY <2>1 DEF Range
<1>6. CASE i > Len(s) /\ j <= Len(s)
  <2>1. j \in DOMAIN s /\ i - Len(s) \in DOMAIN t /\ s[j] = t[i - Len(s)]
    BY <1>1, <1>2, <1>6
  <2> QED
    BY <2>1 DEF Range
<1> QED
  BY <1>1, <1>2, <1>3, <1>4, <1>5, <1>6

\* What handle() hands to flush(): every row once, and none acknowledged.
LEMMA ExtendedOnce ==
    ASSUME TypeInv, OrderInv, PendingIsHighest, IsInjective(buffer), Holding,
           NEW p, NEW o, p = polled.partition, o = polled.offset
    PROVE  /\ IsInjective(Extended(p, o))
           /\ \A r \in Range(Extended(p, o)) :
                committed[r.kafka_partition] <= r.kafka_offset
<1>1. /\ p \in Partitions /\ o \in Nat /\ o \in Offsets(p)
      /\ Range(Extended(p, o)) = Range(buffer) \cup RowsAt(p, o)
  BY ExtendedType
<1>2. /\ buffer \in Seq(Row) /\ FlattenedRows(p, o) \in Seq(Row)
  BY <1>1, FlattenedRowsType DEF TypeInv, TypeOK, SinkTypeOK
<1>3. \A r \in RowsAt(p, o) : r.kafka_partition = p /\ r.kafka_offset = o
  BY <1>1, RowCoordinates DEF TypeInv
<1>4. pending[p] < o /\ committed[p] <= o
  BY DEF OrderInv, InHandIsLast
<1>5. IsInjective(FlattenedRows(p, o))
  BY DEF IsInjective, FlattenedRows
<1>6. Range(buffer) \cap Range(FlattenedRows(p, o)) = {}
  <2> SUFFICES ASSUME NEW r \in Range(buffer), r \in RowsAt(p, o) PROVE FALSE
    BY DEF RowsAt
  <2>1. r.kafka_partition = p /\ r.kafka_offset = o
    BY <1>3
  <2>2. r.kafka_offset <= pending[r.kafka_partition]
    BY DEF PendingIsHighest
  <2> QED
    BY <1>1, <1>4, <2>1, <2>2, OrderTypes
<1>7. IsInjective(Extended(p, o))
  BY <1>2, <1>5, <1>6, InjectiveConcat DEF Extended
<1>8. \A r \in Range(Extended(p, o)) : committed[r.kafka_partition] <= r.kafka_offset
  BY <1>1, <1>3, <1>4 DEF OrderInv, BufferedNotAcked
<1> QED
  BY <1>7, <1>8

\* The table holds rows.
LEMMA DurableRows == TypeInv => Durable \subseteq Row
<1> SUFFICES ASSUME TypeInv PROVE Durable \subseteq Row
  OBVIOUS
<1>1. table \in Seq(Seq(Row))
  BY DEF TypeInv, TypeOK
<1>2. \A i \in DOMAIN table : table[i] \in Seq(Row)
  BY <1>1, LenProperties
<1> QED
  BY <1>2, RangeOfSeq DEF Durable

\* An append of rows that are new leaves every row once.
LEMMA OnceFlushed ==
    ASSUME TypeInv, OrderInv, OnceInv, pc # "commit", UNCHANGED committed,
           NEW rows \in Seq(Row), NEW pend \in [Partitions -> Nat \cup {NoOffset}],
           IsInjective(rows),
           \A r \in Range(rows) : /\ committed[r.kafka_partition] <= r.kafka_offset
                                  /\ r.kafka_offset <= pend[r.kafka_partition],
           FlushSucceeds(rows, pend), NEW from, CallCommit(from)
    PROVE  OnceInv'
<1>0. Range(rows) \subseteq Row /\ Durable \subseteq Row
  BY DurableRows, RangeOfSeq
<1>1. /\ table' = Append(table, rows) /\ buffer' = <<>> /\ pc' = "commit"
      /\ \A p \in Partitions : inflight'[p] = pend[p] + 1
  BY NextOffsetsType DEF FlushSucceeds, AppendReturns, CallCommit
<1>2. Durable' = Durable \cup Range(rows)
  BY <1>1, DurableAppend
<1>3. Durable \cap Range(rows) = {}
  <2> SUFFICES ASSUME NEW r \in Durable, r \in Range(rows) PROVE FALSE
    OBVIOUS
  <2>1. r.kafka_partition \in Partitions /\ r.kafka_offset \in Nat
    BY <1>0 DEF Row
  <2>2. r.kafka_offset < committed[r.kafka_partition]
    BY DEF OnceInv, DurableAcked
  <2> QED
    BY <2>1, <2>2, OrderTypes
<1>4. DurableAcked'
  <2> SUFFICES ASSUME NEW r \in Durable'
               PROVE  \/ r.kafka_offset < committed[r.kafka_partition]
                      \/ r.kafka_offset < inflight'[r.kafka_partition]
    BY <1>1 DEF DurableAcked
  <2>1. CASE r \in Durable
    BY <2>1 DEF OnceInv, DurableAcked
  <2>2. CASE r \in Range(rows)
    <3>1. r.kafka_partition \in Partitions /\ r.kafka_offset \in Nat
      BY <1>0, <2>2 DEF Row
    <3>2. pend[r.kafka_partition] \in Int
      BY <3>1 DEF NoOffset
    <3> QED
      BY <1>1, <2>2, <3>1, <3>2
  <2> QED
    BY <1>2, <2>1, <2>2
<1>5. TableOnce'
  <2>1. table \in Seq(Seq(Row))
    BY DEF TypeInv, TypeOK
  <2>2. /\ DOMAIN table = 1..Len(table) /\ DOMAIN table' = 1..(Len(table) + 1)
        /\ Len(table) \in Nat
        /\ \A i \in 1..Len(table) : table'[i] = table[i]
        /\ table'[Len(table) + 1] = rows
    BY <1>1, <2>1, AppendProperties, LenProperties
  <2>3. \A i \in DOMAIN table' : i \in DOMAIN table \/ i = Len(table) + 1
    BY <2>2
  <2>4. \A i \in DOMAIN table : Range(table[i]) \subseteq Durable
    BY DEF Durable
  <2>5. \A i \in DOMAIN table' : IsInjective(table'[i])
    BY <2>2, <2>3 DEF OnceInv, TableOnce
  <2>6. ASSUME NEW i \in DOMAIN table', NEW j \in DOMAIN table', i # j
        PROVE  Range(table'[i]) \cap Range(table'[j]) = {}
    <3>1. CASE i \in DOMAIN table /\ j \in DOMAIN table
      BY <2>2, <2>6, <3>1 DEF OnceInv, TableOnce
    <3>2. CASE i \in DOMAIN table /\ j = Len(table) + 1
      BY <1>3, <2>2, <2>4, <3>2
    <3>3. CASE i = Len(table) + 1 /\ j \in DOMAIN table
      BY <1>3, <2>2, <2>4, <3>3
    <3> QED
      BY <2>3, <2>6, <3>1, <3>2, <3>3
  <2> QED
    BY <2>5, <2>6 DEF TableOnce
<1>6. IsInjective(buffer')
  BY <1>1 DEF IsInjective
<1> QED
  BY <1>4, <1>5, <1>6 DEF OnceInv

\* Steps that leave the table and the offsets alone.
LEMMA OnceUnchanged ==
    ASSUME OnceInv, UNCHANGED <<table, committed>>, IsInjective(buffer'),
           pc = "commit" => pc' = "commit" /\ UNCHANGED inflight
    PROVE  OnceInv'
BY DEF OnceInv, TableOnce, DurableAcked, Durable

\* An empty buffer holds nothing twice.
LEMMA EmptyInjective == ASSUME buffer' = <<>> PROVE IsInjective(buffer')
BY DEF IsInjective

\* Every step keeps rows from being written twice.
LEMMA OnceNext ==
    ASSUME RefusedCallsOnly, TypeInv, OrderInv, PendingIsHighest, OnceInv, [Next]_vars
    PROVE  OnceInv'
<1>0. /\ ~Fault("crash") /\ ~Fault("answerLost") /\ ~Fault("commitFails")
      /\ IsInjective(buffer)
  BY DEF RefusedCallsOnly, Fault, OnceInv
<1>1. CASE UNCHANGED vars \/ Publish \/ OtherWriter \/ Elapse \/ Interrupt
  <2>1. UNCHANGED <<table, committed, buffer, pc, inflight>>
    BY <1>1 DEF vars, serviceVars, sinkVars, processVars, Publish, PublishTo, OtherWriter,
                ForeignSnapshot, Elapse, SinkElapse, Interrupt
  <2> QED
    BY <1>0, <2>1, OnceUnchanged
<1>2. ~Crash /\ ~CommitRaises
  BY <1>0 DEF Crash, CommitRaises
<1>3. CASE OpenRaises \/ OpenReturns
  <2>1. UNCHANGED <<table, committed>> /\ buffer' = <<>> /\ pc = "opening"
    BY <1>3 DEF OpenRaises, OpenReturns, Terminate, FreshSink
  <2> QED
    BY <2>1, EmptyInjective, OnceUnchanged
<1>4. CASE \/ Start \/ PollNothing \/ PollFatal \/ \E p \in Partitions : PollRecord(p)
           \/ LeaveInterrupted \/ SkipMessage \/ RaiseFromLoop
  <2>1. UNCHANGED <<table, committed, buffer>> /\ pc # "commit"
    BY <1>4 DEF serviceVars, sinkVars, Start, PollNothing, PollFatal, PollRecord,
                LeaveInterrupted, SkipMessage, RaiseFromLoop
  <2> QED
    BY <1>0, <2>1, OnceUnchanged
<1>5. CASE Tick
  <2>0. pc = "tick" /\ UNCHANGED committed
    BY <1>5 DEF Tick
  <2>1. CASE TickWaits
    BY <1>0, <2>0, <2>1, OnceUnchanged DEF TickWaits
  <2>2. CASE TickFails
    <3>1. UNCHANGED <<table, buffer>>
      BY <1>0, <2>2 DEF TickFails, FlushFails, AppendRaises, AppendConflicts, ConversionFails,
                        AppendFails, AppendAnswerLost
    <3> QED
      BY <1>0, <2>0, <3>1, OnceUnchanged
  <2>3. CASE TickFlushes /\ CallCommit("handle")
    <3>1. /\ buffer \in Seq(Row) /\ pending \in [Partitions -> Nat \cup {NoOffset}]
          /\ \A r \in Range(buffer) : /\ committed[r.kafka_partition] <= r.kafka_offset
                                      /\ r.kafka_offset <= pending[r.kafka_partition]
      BY DEF TypeInv, TypeOK, SinkTypeOK, OrderInv, BufferedNotAcked, PendingIsHighest
    <3> QED
      BY <1>0, <2>0, <2>3, <3>1, OnceFlushed DEF TickFlushes
  <2> QED
    BY <1>5, <2>1, <2>2, <2>3 DEF Tick
<1>6. CASE DispatchMessage
  <2> DEFINE p == polled.partition
             o == polled.offset
             rows == Extended(p, o)
             pend == TrackOffsets(pending, p, o)
  <2>0. pc = "handle" /\ UNCHANGED committed /\ Holding
    BY <1>6 DEF DispatchMessage
  <2>1. /\ IsInjective(rows)
        /\ \A r \in Range(rows) : committed[r.kafka_partition] <= r.kafka_offset
    BY <1>0, <2>0, ExtendedOnce
  <2>2. CASE HandleBuffers(p, o) \/ HandleFails(p, o)
    <3>1. UNCHANGED table /\ buffer' = rows
      BY <1>0, <2>2 DEF HandleBuffers, HandleFails, FlushFails, AppendRaises, AppendConflicts,
                        ConversionFails, AppendFails, AppendAnswerLost
    <3> QED
      BY <2>0, <2>1, <3>1, OnceUnchanged
  <2>3. CASE HandleFlushes(p, o) /\ CallCommit("polling")
    <3>1. FlushSucceeds(rows, pend)
      BY <2>3 DEF HandleFlushes
    <3>2. rows \in Seq(Row) /\ pend \in [Partitions -> Nat \cup {NoOffset}]
      BY <2>0, ExtendedType
    <3>3. \A r \in Range(rows) : r.kafka_offset <= pend[r.kafka_partition]
      BY <2>0, TrackedHighest
    <3> HIDE DEF p, o, rows, pend
    <3> QED
      BY <2>0, <2>1, <2>3, <3>1, <3>2, <3>3, OnceFlushed
  <2> QED
    BY <1>6, <2>2, <2>3 DEF DispatchMessage
<1>7. CASE Close
  <2>0. pc = "closing" /\ UNCHANGED committed
    BY <1>7 DEF Close
  <2>1. CASE (Terminate(ExitStatus) /\ UNCHANGED table) \/ (CloseRaises /\ Terminate("error"))
    <3>1. UNCHANGED table /\ buffer' = <<>>
      BY <1>0, <2>1 DEF Terminate, FreshSink, CloseRaises, AppendRaises, AppendConflicts,
                        ConversionFails, AppendFails, AppendAnswerLost
    <3> QED
      BY <2>0, <3>1, EmptyInjective, OnceUnchanged
  <2>2. CASE CloseFlushes /\ CallCommit("down")
    <3>1. /\ buffer \in Seq(Row) /\ pending \in [Partitions -> Nat \cup {NoOffset}]
          /\ \A r \in Range(buffer) : /\ committed[r.kafka_partition] <= r.kafka_offset
                                      /\ r.kafka_offset <= pending[r.kafka_partition]
      BY DEF TypeInv, TypeOK, SinkTypeOK, OrderInv, BufferedNotAcked, PendingIsHighest
    <3> QED
      BY <1>0, <2>0, <2>2, <3>1, OnceFlushed DEF CloseFlushes
  <2> QED
    BY <1>7, <2>1, <2>2 DEF Close
<1>8. CASE CommitReturns
  <2>1. /\ pc = "commit" /\ committed' = Acknowledged(inflight) /\ UNCHANGED table
        /\ buffer' = <<>>
    <3>1. buffer = <<>> /\ pc = "commit"
      BY <1>8 DEF CommitReturns, TypeInv, Healthy
    <3> QED
      BY <1>8, <3>1 DEF CommitReturns, Return, Terminate, FreshSink
  <2>2. DurableAcked'
    <3> SUFFICES ASSUME NEW r \in Durable
                 PROVE  r.kafka_offset < committed'[r.kafka_partition]
      BY <2>1 DEF DurableAcked, Durable
    <3>1. r.kafka_partition \in Partitions /\ r.kafka_offset \in Nat
      BY DurableRows DEF Row
    <3> DEFINE q == r.kafka_partition
    <3>2. r.kafka_offset < committed[q] \/ r.kafka_offset < inflight[q]
      BY DEF OnceInv, DurableAcked
    <3>3. inflight[q] = 0 \/ committed[q] <= inflight[q]
      BY <2>1, <3>1 DEF OrderInv, InFlightInOrder
    <3>4. committed'[q] = IF inflight[q] > 0 THEN inflight[q] ELSE committed[q]
      BY <2>1, <3>1 DEF Acknowledged
    <3>5. committed[q] \in Nat /\ inflight[q] \in Nat
      BY <3>1, OrderTypes
    <3> HIDE DEF q
    <3>6. r.kafka_offset < committed'[q]
      BY <3>1, <3>2, <3>3, <3>4, <3>5
    <3> QED
      BY <3>6 DEF q
  <2> QED
    BY <2>1, <2>2, EmptyInjective DEF OnceInv, TableOnce
<1> QED
  BY <1>1, <1>2, <1>3, <1>4, <1>5, <1>6, <1>7, <1>8 DEF Next, Process

\* A sequence without repetitions has as many elements as places.
LEMMA InjectiveCount ==
    ASSUME NEW s \in Seq(Row), IsInjective(s)
    PROVE  Cardinality(Range(s)) = Len(s)
<1>1. DOMAIN s = 1..Len(s) /\ Len(s) \in Nat
  BY LenProperties
<1>2. IsFiniteSet(1..Len(s)) /\ Cardinality(1..Len(s)) = Len(s)
  BY <1>1, FS_Interval
<1>3. s \in Surjection(1..Len(s), Range(s)) /\ s \in Injection(1..Len(s), Range(s))
  <2>1. s \in [1..Len(s) -> Range(s)]
    BY <1>1 DEF Range
  <2>2. \A r \in Range(s) : \E i \in 1..Len(s) : s[i] = r
    BY <1>1 DEF Range
  <2> QED
    BY <2>1, <2>2 DEF Surjection, Injection
<1> QED
  BY <1>2, <1>3, FS_Surjection

\* No row is written twice as long as every call that fails has failed before it
\* took effect, over any number of retries, conflicts and orderly ends.
THEOREM RowsAreWrittenOnce ==
    ASSUME RefusedCallsOnly
    PROVE  Spec => []NoDuplicates
<1>1. TypeInv /\ OnceInv => NoDuplicates
  <2> SUFFICES ASSUME TypeInv, OnceInv PROVE NoDuplicates
    OBVIOUS
  <2>1. \A i \in DOMAIN table : table[i] \in Seq(Row)
    BY LenProperties DEF TypeInv, TypeOK
  <2> QED
    BY <2>1, InjectiveCount DEF OnceInv, TableOnce, NoDuplicates
<1>2. Init => PendingIsHighest /\ OnceInv
  BY DEF Init, ServicesInit, NoOffsets, PendingIsHighest, OnceInv, TableOnce, DurableAcked,
         Durable, IsInjective, Range
<1>3. TypeInv /\ OrderInv /\ PendingIsHighest /\ OnceInv /\ [Next]_vars => OnceInv'
  BY OnceNext
<1> QED
  BY <1>1, <1>2, <1>3, TypeInit, TypeNext, OrderInit, OrderNext, HighestNext, PTL DEF Spec
=============================================================================
