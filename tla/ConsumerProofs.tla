--------------------------- MODULE ConsumerProofs ---------------------------
(***************************************************************************)
(* Proofs, for every value of the constants, of the safety properties of   *)
(* the consumer and of its refinement of module Delivery.                  *)
(***************************************************************************)
EXTENDS ConsumerProperties, SequenceTheorems, TLAPS

Looping == pc \in {"polling", "tick", "handle"}

\* Every offset the process holds is that of a message of the log.
InsideLog ==
    /\ \A p \in Partitions :
          /\ committed[p] <= Len(log[p])
          /\ position[p] <= Len(log[p])
          /\ pending[p] < Len(log[p])
          /\ inflight[p] <= Len(log[p])
    /\ Holding => polled.offset < Len(log[polled.partition])

\* A process in its poll loop has attempts and room left; one that is between
\* flush() and commit(), or not running, has nothing buffered.
Healthy ==
    /\ Looping => failures < MaxFlushAttempts /\ Len(buffer) < MaxBuffered
    /\ pc \in {"commit", "down", "opening"} => failures = 0 /\ buffer = <<>>
    /\ pc = "closing" /\ cause = "interrupt" =>
            failures < MaxFlushAttempts /\ Len(buffer) < MaxBuffered

TypeInv == TypeOK /\ InsideLog /\ Healthy

(***************************************************************************)
(* The operators the actions are built from.                               *)
(***************************************************************************)
LEMMA FlattenedRowsType ==
    ASSUME TypeOK, NEW p \in Partitions, NEW o \in Offsets(p)
    PROVE  /\ FlattenedRows(p, o) \in Seq(Row)
           /\ Payload(p, o) \in Payloads
           /\ Len(FlattenedRows(p, o)) = RowCount[Payload(p, o)]
<1>1. log[p] \in Seq(Payloads) /\ o + 1 \in 1..Len(log[p])
  BY DEF TypeOK, Offsets
<1>2. Payload(p, o) \in Payloads
  BY <1>1 DEF Payload
<1> DEFINE n == RowCount[Payload(p, o)]
<1>3. n \in Nat /\ o \in Nat
  BY <1>2, ServicesAssumption DEF Offsets
<1>4. FlattenedRows(p, o) = [i \in 1..n |->
            [kafka_partition |-> p, kafka_offset |-> o, record_index |-> i]]
  BY DEF FlattenedRows
<1> HIDE DEF n
<1>5. FlattenedRows(p, o) \in [1..n -> Row]
  BY <1>3, <1>4 DEF Row
<1>6. FlattenedRows(p, o) \in Seq(Row) /\ Len(FlattenedRows(p, o)) = n
  BY <1>3, <1>5, SeqDef, LenProperties
<1> QED
  BY <1>2, <1>6 DEF n

\* The wait before the next attempt never exceeds the configured maximum.
LEMMA BackoffType ==
    ASSUME NEW n \in Nat
    PROVE  Backoff(n) \in 0..MaxRetryBackoff
BY SinkAssumption DEF Backoff

\* A fault is paid from the budget.
LEMMA FaultType ==
    ASSUME faults \in Nat, NEW kind, Fault(kind)
    PROVE  faults' \in Nat
BY DEF Fault

\* _track_offsets keeps the higher of the pending offset and the new one.
LEMMA TrackOffsetsType ==
    ASSUME NEW pend \in [Partitions -> Nat \cup {NoOffset}],
           NEW p \in Partitions, NEW o \in Nat
    PROVE  /\ TrackOffsets(pend, p, o) \in [Partitions -> Nat \cup {NoOffset}]
           /\ TrackOffsets(pend, p, o)[p] = IF o > pend[p] THEN o ELSE pend[p]
           /\ \A q \in Partitions \ {p} : TrackOffsets(pend, p, o)[q] = pend[q]
BY DEF TrackOffsets, NoOffset

\* pending_offsets hands over the offset after the last row.
LEMMA NextOffsetsType ==
    ASSUME NEW pend \in [Partitions -> Nat \cup {NoOffset}]
    PROVE  /\ NextOffsets(pend) \in [Partitions -> Nat]
           /\ \A p \in Partitions : NextOffsets(pend)[p] = pend[p] + 1
BY DEF NextOffsets, NoOffset

\* Whatever a call of _append does to the table, its type stays.
LEMMA AppendType ==
    ASSUME TypeOK, NEW rows \in Seq(Row),
           AppendReturns(rows) \/ AppendRaises(rows)
    PROVE  table' \in Seq(Seq(Row)) /\ stale' \in BOOLEAN /\ faults' \in Nat
<1> table \in Seq(Seq(Row)) /\ stale \in BOOLEAN /\ faults \in Nat
  BY DEF TypeOK
<1>0. Append(table, rows) \in Seq(Seq(Row))
  BY AppendProperties
<1>1. CASE AppendReturns(rows)
  BY <1>0, <1>1 DEF AppendReturns
<1>2. CASE AppendRaises(rows)
  BY <1>0, <1>2, FaultType DEF AppendRaises, AppendConflicts, ConversionFails, AppendFails,
                         AppendAnswerLost
<1> QED
  BY <1>1, <1>2

\* flush() after a successful append.
LEMMA FlushSucceedsType ==
    ASSUME TypeOK, NEW rows \in Seq(Row),
           NEW pend \in [Partitions -> Nat \cup {NoOffset}],
           FlushSucceeds(rows, pend)
    PROVE  /\ table' \in Seq(Seq(Row)) /\ stale' \in BOOLEAN /\ faults' \in Nat
           /\ SinkTypeOK'
           /\ buffer' = <<>> /\ failures' = 0
           /\ \A p \in Partitions : pending'[p] = NoOffset /\ inflight'[p] = pend[p] + 1
<1>1. table' \in Seq(Seq(Row)) /\ stale' \in BOOLEAN /\ faults' \in Nat
  BY AppendType DEF FlushSucceeds
<1>2. /\ pending' \in [Partitions -> Nat \cup {NoOffset}]
      /\ \A p \in Partitions : pending'[p] = NoOffset
  BY DEF FlushSucceeds, NoOffsets
<1>3. /\ inflight' \in [Partitions -> Nat]
      /\ \A p \in Partitions : inflight'[p] = pend[p] + 1
  BY NextOffsetsType DEF FlushSucceeds
<1>4. buffer' = <<>> /\ buffer' \in Seq(Row)
  BY EmptySeq DEF FlushSucceeds
<1>5. /\ failures' = 0 /\ failures' \in 0..MaxFlushAttempts
      /\ sinceFlush' \in 0..FlushInterval
      /\ backoffLeft' \in 0..MaxRetryBackoff
  BY SinkAssumption DEF FlushSucceeds, TypeOK, SinkTypeOK
<1>6. needsReload' \in BOOLEAN
  BY DEF FlushSucceeds
<1> QED
  BY <1>1, <1>2, <1>3, <1>4, <1>5, <1>6 DEF SinkTypeOK

\* flush() after a failed append.
LEMMA FlushFailsType ==
    ASSUME TypeOK, NEW rows \in Seq(Row),
           NEW pend \in [Partitions -> Nat \cup {NoOffset}],
           failures < MaxFlushAttempts,
           FlushFails(rows, pend)
    PROVE  /\ table' \in Seq(Seq(Row)) /\ stale' \in BOOLEAN /\ faults' \in Nat
           /\ SinkTypeOK'
           /\ buffer' = rows /\ pending' = pend /\ UNCHANGED inflight
<1>1. table' \in Seq(Seq(Row)) /\ stale' \in BOOLEAN /\ faults' \in Nat
  BY AppendType DEF FlushFails
<1>2. failures \in Nat /\ failures + 1 \in 0..MaxFlushAttempts
  BY SinkAssumption DEF TypeOK, SinkTypeOK
<1>3. backoffLeft' \in 0..MaxRetryBackoff
  BY <1>2, BackoffType DEF FlushFails, TypeOK, SinkTypeOK
<1> QED
  BY <1>1, <1>2, <1>3 DEF FlushFails, SinkTypeOK, TypeOK

\* A new sink has no rows, no offsets and no failures.
LEMMA FreshSinkType ==
    ASSUME FreshSink
    PROVE  /\ SinkTypeOK' /\ buffer' = <<>> /\ failures' = 0
           /\ \A p \in Partitions : pending'[p] = NoOffset /\ inflight'[p] = 0
<1>1. /\ pending' \in [Partitions -> Nat \cup {NoOffset}]
      /\ \A p \in Partitions : pending'[p] = NoOffset
  BY DEF FreshSink, NoOffsets
<1>2. /\ inflight' \in [Partitions -> Nat]
      /\ \A p \in Partitions : inflight'[p] = 0
  BY DEF FreshSink, NoCommit
<1>3. buffer' = <<>> /\ buffer' \in Seq(Row)
  BY EmptySeq DEF FreshSink
<1>4. needsReload' \in BOOLEAN
  BY DEF FreshSink
<1>5. /\ failures' = 0 /\ failures' \in 0..MaxFlushAttempts
      /\ sinceFlush' \in 0..FlushInterval /\ backoffLeft' \in 0..MaxRetryBackoff
  BY SinkAssumption DEF FreshSink
<1> QED
  BY <1>1, <1>2, <1>3, <1>4, <1>5 DEF SinkTypeOK

(***************************************************************************)
(* Types: every action preserves TypeInv.                                  *)
(***************************************************************************)
LEMMA TypeInit == Init => TypeInv
<1> SUFFICES ASSUME Init PROVE TypeInv
  OBVIOUS
<1> USE DEF Init, ServicesInit, NoOffsets, NoCommit
<1>1. TypeOK
  <2>1. log \in [Partitions -> Seq(Payloads)] /\ table \in Seq(Seq(Row)) /\ buffer \in Seq(Row)
    BY EmptySeq
  <2>2. /\ pending \in [Partitions -> Nat \cup {NoOffset}]
        /\ inflight \in [Partitions -> Nat] /\ committed \in [Partitions -> Nat]
        /\ position \in [Partitions -> Nat]
    OBVIOUS
  <2>3. stale \in BOOLEAN /\ needsReload \in BOOLEAN /\ interrupted \in BOOLEAN
    OBVIOUS
  <2>4. /\ failures \in 0..MaxFlushAttempts
        /\ sinceFlush \in 0..FlushInterval /\ backoffLeft \in 0..MaxRetryBackoff
    BY SinkAssumption
  <2> QED
    BY <2>1, <2>2, <2>3, <2>4, ServicesAssumption DEF TypeOK, SinkTypeOK, PCs
<1>2. InsideLog
  BY DEF InsideLog, Holding, Nothing, NoOffset
<1>3. Healthy
  BY DEF Healthy, Looping
<1> QED
  BY <1>1, <1>2, <1>3 DEF TypeInv

\* A producer keeps the types.
LEMMA TypePublish == TypeInv /\ Publish => TypeInv'
<1> SUFFICES ASSUME TypeInv, NEW p \in Partitions, NEW k \in Payloads, PublishTo(p, k),
                    UNCHANGED <<sinkVars, processVars>>
             PROVE  TypeInv'
  BY DEF Publish
<1> USE DEF PublishTo, sinkVars, processVars
<1>1. log' \in [Partitions -> Seq(Payloads)]
  BY DEF TypeInv, TypeOK
<1>2. \A q \in Partitions : Len(log[q]) \in Nat /\ Len(log[q]) <= Len(log'[q])
  BY DEF TypeInv, TypeOK
<1>3. TypeOK'
  BY <1>1 DEF TypeInv, TypeOK, SinkTypeOK
<1>4. InsideLog'
  <2>1. \A q \in Partitions : Len(log'[q]) \in Nat
    BY <1>1
  <2>2. \A q \in Partitions : /\ committed[q] \in Nat /\ position[q] \in Nat
                              /\ pending[q] \in Int /\ inflight[q] \in Nat
    BY DEF TypeInv, TypeOK, SinkTypeOK, NoOffset
  <2>3. Holding => polled.partition \in Partitions /\ polled.offset \in Nat
    BY DEF TypeInv, TypeOK, Holding, Nothing, FatalError
  <2>4. Holding' <=> Holding
    BY DEF Holding
  <2> QED
    BY <1>2, <2>1, <2>2, <2>3, <2>4 DEF TypeInv, InsideLog
<1>5. Healthy'
  BY DEF TypeInv, Healthy, Looping
<1> QED
  BY <1>3, <1>4, <1>5 DEF TypeInv

\* A process that ends leaves nothing behind that could be out of place.
LEMMA TypeTerminate ==
    ASSUME TypeInv, NEW how \in {"clean", "error", "killed"}, Terminate(how),
           UNCHANGED log,
           committed' \in [Partitions -> Nat],
           \A p \in Partitions : committed'[p] <= Len(log[p]),
           table' \in Seq(Seq(Row)), stale' \in BOOLEAN, faults' \in Nat
    PROVE  TypeInv'
<1>1. /\ SinkTypeOK' /\ buffer' = <<>> /\ failures' = 0
      /\ \A p \in Partitions : pending'[p] = NoOffset /\ inflight'[p] = 0
  BY FreshSinkType DEF Terminate
<1>2. TypeOK'
  BY <1>1 DEF Terminate, TypeInv, TypeOK, PCs
<1>3. InsideLog'
  <2>1. \A p \in Partitions : Len(log[p]) \in Nat /\ position'[p] <= Len(log'[p])
    BY DEF TypeInv, TypeOK, InsideLog, Terminate
  <2> QED
    BY <1>1, <2>1 DEF InsideLog, Holding, Nothing, Terminate, NoOffset
<1>4. Healthy'
  BY <1>1 DEF Healthy, Looping, Terminate
<1> QED
  BY <1>2, <1>3, <1>4 DEF TypeInv

\* So does what happens around the process: writers, time, Ctrl-C, kills.
LEMMA TypeOutside ==
    TypeInv /\ (OtherWriter \/ Elapse \/ Interrupt \/ Crash \/ OpenRaises) => TypeInv'
<1> SUFFICES ASSUME TypeInv, OtherWriter \/ Elapse \/ Interrupt \/ Crash \/ OpenRaises
             PROVE  TypeInv'
  OBVIOUS
<1>1. CASE OtherWriter
  <2>1. faults' \in Nat
    BY <1>1, FaultType DEF OtherWriter, ForeignSnapshot, TypeInv, TypeOK
  <2> QED
    BY <1>1, <2>1 DEF OtherWriter, ForeignSnapshot, sinkVars, processVars,
                      TypeInv, TypeOK, SinkTypeOK, InsideLog, Holding, Healthy, Looping
<1>2. CASE Elapse
  <2>1. sinceFlush' \in 0..FlushInterval /\ backoffLeft' \in 0..MaxRetryBackoff
    BY <1>2, SinkAssumption DEF Elapse, SinkElapse, TypeInv, TypeOK, SinkTypeOK
  <2> QED
    BY <1>2, <2>1 DEF Elapse, SinkElapse, serviceVars, processVars,
                      TypeInv, TypeOK, SinkTypeOK, InsideLog, Holding, Healthy, Looping
<1>3. CASE Interrupt
  <2>1. faults' \in Nat
    BY <1>3, FaultType DEF Interrupt, TypeInv, TypeOK
  <2> QED
    BY <1>3, <2>1 DEF Interrupt, sinkVars,
                      TypeInv, TypeOK, SinkTypeOK, InsideLog, Holding, Healthy, Looping
<1>4. CASE Crash
  <2>1. faults' \in Nat
    BY <1>4, FaultType DEF Crash, TypeInv, TypeOK
  <2> QED
    BY <1>4, <2>1, TypeTerminate DEF Crash, TypeInv, TypeOK, InsideLog
<1>5. CASE OpenRaises
  <2>1. faults' \in Nat
    BY <1>5, FaultType DEF OpenRaises, TypeInv, TypeOK
  <2> QED
    BY <1>5, <2>1, TypeTerminate DEF OpenRaises, TypeInv, TypeOK, InsideLog
<1> QED
  BY <1>1, <1>2, <1>3, <1>4, <1>5

\* The message in hand is one of the log.
LEMMA InHandType ==
    ASSUME TypeInv, Holding
    PROVE  /\ polled.partition \in Partitions
           /\ polled.offset \in Nat
           /\ polled.offset \in Offsets(polled.partition)
BY DEF TypeInv, TypeOK, InsideLog, Holding, Nothing, FatalError, Offsets

\* Starting keeps the types; the position it takes is one of the log.
LEMMA TypeStart ==
    TypeInv /\ (Start \/ OpenReturns) => TypeInv'
<1> SUFFICES ASSUME TypeInv, Start \/ OpenReturns PROVE TypeInv'
  OBVIOUS
<1>1. CASE Start
  BY <1>1 DEF Start, sinkVars, serviceVars, TypeInv, TypeOK, SinkTypeOK, PCs, InsideLog,
              Holding, Healthy, Looping
<1>2. CASE OpenReturns
  <2>1. /\ SinkTypeOK' /\ buffer' = <<>> /\ failures' = 0
        /\ \A p \in Partitions : pending'[p] = NoOffset /\ inflight'[p] = 0
    BY <1>2, FreshSinkType DEF OpenReturns
  <2>2. \A p \in Partitions : StartOffset(p) \in Nat /\ StartOffset(p) <= Len(log[p])
    BY DEF StartOffset, TypeInv, TypeOK, InsideLog
  <2>3. /\ position' \in [Partitions -> Nat]
        /\ \A p \in Partitions : position'[p] <= Len(log[p])
    BY <1>2, <2>2 DEF OpenReturns
  <2>4. TypeOK'
    <3>1. stale' \in BOOLEAN
      BY <1>2 DEF OpenReturns
    <3> QED
      BY <1>2, <2>1, <2>3, <3>1 DEF OpenReturns, TypeInv, TypeOK, PCs
  <2>5. InsideLog'
    <3>1. \A p \in Partitions : Len(log[p]) \in Nat /\ committed[p] <= Len(log[p])
      BY DEF TypeInv, TypeOK, InsideLog
    <3>2. Holding' => polled'.offset < Len(log'[polled'.partition])
      BY <1>2 DEF OpenReturns, Holding, TypeInv, InsideLog
    <3> QED
      BY <1>2, <2>1, <2>3, <3>1, <3>2 DEF OpenReturns, InsideLog, NoOffset
  <2>6. Healthy'
    <3>1. Len(<<>>) = 0 /\ 0 < MaxBuffered /\ 0 < MaxFlushAttempts
      BY SinkAssumption
    <3> QED
      BY <1>2, <2>1, <3>1 DEF OpenReturns, Healthy, Looping
  <2> QED
    BY <2>4, <2>5, <2>6 DEF TypeInv
<1> QED
  BY <1>1, <1>2

\* poll() keeps the types.
LEMMA TypePoll ==
    TypeInv /\ (PollNothing \/ PollFatal \/ \E p \in Partitions : PollRecord(p)) => TypeInv'
<1> SUFFICES ASSUME TypeInv,
                    PollNothing \/ PollFatal \/ \E p \in Partitions : PollRecord(p)
             PROVE  TypeInv'
  OBVIOUS
<1> USE DEF sinkVars, serviceVars
<1>1. CASE PollNothing
  BY <1>1 DEF PollNothing, TypeInv, TypeOK, SinkTypeOK, PCs, InsideLog, Holding, Healthy, Looping
<1>2. CASE PollFatal
  <2>1. faults' \in Nat
    BY <1>2, FaultType DEF PollFatal, TypeInv, TypeOK
  <2>2. polled' = FatalError /\ ~Holding'
    BY <1>2 DEF PollFatal, Holding, FatalError
  <2>3. TypeOK'
    BY <1>2, <2>1, <2>2 DEF PollFatal, TypeInv, TypeOK, SinkTypeOK, PCs
  <2>4. InsideLog'
    BY <1>2, <2>2 DEF PollFatal, TypeInv, InsideLog
  <2> QED
    BY <1>2, <2>3, <2>4 DEF PollFatal, TypeInv, Healthy, Looping
<1>3. ASSUME NEW p \in Partitions, PollRecord(p) PROVE TypeInv'
  <2>1. position[p] \in Nat /\ position[p] < Len(log[p]) /\ Len(log[p]) \in Nat
    BY <1>3 DEF PollRecord, Offsets, TypeInv, TypeOK
  <2>2. /\ polled' \in [kind : {"record"}, partition : Partitions, offset : Nat]
        /\ polled'.partition = p /\ polled'.offset = position[p]
    BY <1>3, <2>1 DEF PollRecord, Record
  <2>3. /\ position' \in [Partitions -> Nat]
        /\ \A q \in Partitions : position'[q] <= Len(log[q])
    BY <1>3, <2>1 DEF PollRecord, TypeInv, TypeOK, InsideLog
  <2>4. TypeOK'
    BY <1>3, <2>2, <2>3 DEF PollRecord, TypeInv, TypeOK, SinkTypeOK, PCs
  <2>5. InsideLog'
    BY <1>3, <2>1, <2>2, <2>3 DEF PollRecord, TypeInv, InsideLog
  <2> QED
    BY <1>3, <2>4, <2>5 DEF PollRecord, TypeInv, Healthy, Looping
<1> QED
  BY <1>1, <1>2, <1>3

\* The ways out of an iteration keep the types.
LEMMA TypeLeave ==
    TypeInv /\ (LeaveInterrupted \/ SkipMessage \/ RaiseFromLoop) => TypeInv'
<1> SUFFICES ASSUME TypeInv, LeaveInterrupted \/ SkipMessage \/ RaiseFromLoop
             PROVE  TypeInv'
  OBVIOUS
<1> USE DEF sinkVars, serviceVars, Leave, NextIteration
<1>1. CASE LeaveInterrupted
  BY <1>1 DEF LeaveInterrupted, TypeInv, TypeOK, SinkTypeOK, PCs, InsideLog, Holding,
              Healthy, Looping
<1>2. CASE SkipMessage
  BY <1>2 DEF SkipMessage, TypeInv, TypeOK, SinkTypeOK, PCs, InsideLog, Holding, Nothing,
              Healthy, Looping
<1>3. CASE RaiseFromLoop
  BY <1>3 DEF RaiseFromLoop, TypeInv, TypeOK, SinkTypeOK, PCs, InsideLog, Holding,
              Healthy, Looping
<1> QED
  BY <1>1, <1>2, <1>3

\* A flush that worked, called from the poll loop or from close().
LEMMA TypeFlushed ==
    ASSUME TypeInv, UNCHANGED <<log, committed>>,
           NEW rows \in Seq(Row), NEW pend \in [Partitions -> Nat \cup {NoOffset}],
           \A p \in Partitions : pend[p] < Len(log[p]),
           FlushSucceeds(rows, pend),
           NEW from \in {"polling", "handle", "down"}, CallCommit(from),
           polled' \in {polled, Nothing}, UNCHANGED cause
    PROVE  TypeInv'
<1>1. /\ table' \in Seq(Seq(Row)) /\ stale' \in BOOLEAN /\ faults' \in Nat
      /\ SinkTypeOK' /\ buffer' = <<>> /\ failures' = 0
      /\ \A p \in Partitions : pending'[p] = NoOffset /\ inflight'[p] = pend[p] + 1
  BY FlushSucceedsType DEF TypeInv
<1>2. TypeOK'
  BY <1>1 DEF CallCommit, TypeInv, TypeOK, PCs
<1>3. InsideLog'
  <2>1. \A p \in Partitions : Len(log[p]) \in Nat /\ pend[p] \in Int
    BY DEF TypeInv, TypeOK, NoOffset
  <2>2. \A p \in Partitions : NoOffset < Len(log[p]) /\ pend[p] + 1 <= Len(log[p])
    BY <2>1 DEF NoOffset
  <2>3. Holding' => polled'.offset < Len(log'[polled'.partition])
    BY DEF TypeInv, InsideLog, Holding, Nothing
  <2> QED
    BY <1>1, <2>2, <2>3 DEF CallCommit, TypeInv, InsideLog
<1>4. Healthy'
  BY <1>1 DEF CallCommit, Healthy, Looping
<1> QED
  BY <1>2, <1>3, <1>4 DEF TypeInv

\* tick() keeps the types: an attempt is made only while one is left.
LEMMA TypeTick == TypeInv /\ Tick => TypeInv'
<1> SUFFICES ASSUME TypeInv, Tick PROVE TypeInv'
  OBVIOUS
<1>0. /\ buffer \in Seq(Row) /\ pending \in [Partitions -> Nat \cup {NoOffset}]
      /\ \A p \in Partitions : pending[p] < Len(log[p])
      /\ failures < MaxFlushAttempts /\ Len(buffer) < MaxBuffered
      /\ pc = "tick" /\ UNCHANGED <<log, committed>>
  BY DEF Tick, TypeInv, TypeOK, SinkTypeOK, InsideLog, Healthy, Looping
<1>1. CASE TickWaits /\ pc' = "handle"
           /\ UNCHANGED <<resume, polled, position, interrupted, cause, exit>>
  <2>1. sinceFlush' \in 0..FlushInterval
    BY <1>1, SinkAssumption DEF TickWaits, TypeInv, TypeOK, SinkTypeOK
  <2> QED
    BY <1>0, <1>1, <2>1 DEF TickWaits, TypeInv, TypeOK, SinkTypeOK, PCs, InsideLog,
                            Holding, Healthy, Looping
<1>2. CASE TickFlushes /\ CallCommit("handle") /\ UNCHANGED <<polled, cause>>
  BY <1>0, <1>2, TypeFlushed DEF TickFlushes
<1>3. CASE /\ TickFails
           /\ IF Exhausted
              THEN Leave("sinkFatal") /\ UNCHANGED polled
              ELSE /\ pc' = "handle"
                   /\ UNCHANGED <<resume, polled, position, interrupted, cause, exit>>
  <2>1. /\ table' \in Seq(Seq(Row)) /\ stale' \in BOOLEAN /\ faults' \in Nat
        /\ SinkTypeOK' /\ buffer' = buffer /\ pending' = pending /\ UNCHANGED inflight
    BY <1>0, <1>3, FlushFailsType DEF TickFails, TypeInv
  <2>2. TypeOK'
    BY <1>0, <1>3, <2>1 DEF Leave, TypeInv, TypeOK, PCs
  <2>3. InsideLog'
    BY <1>0, <1>3, <2>1 DEF Leave, TypeInv, InsideLog, Holding
  <2>4. failures' \in Nat
    BY <2>1 DEF SinkTypeOK
  <2>5. Healthy'
    BY <1>0, <1>3, <2>1, <2>4, SinkAssumption DEF Leave, Exhausted, Healthy, Looping
  <2> QED
    BY <2>2, <2>3, <2>5 DEF TypeInv
<1> QED
  BY <1>1, <1>2, <1>3 DEF Tick

\* The buffer and the pending offsets as handle() leaves them before flushing.
LEMMA ExtendedType ==
    ASSUME TypeInv, Holding,
           NEW p, NEW o, p = polled.partition, o = polled.offset
    PROVE  /\ p \in Partitions /\ o \in Nat /\ o \in Offsets(p)
           /\ Extended(p, o) \in Seq(Row)
           /\ Range(Extended(p, o)) = Range(buffer) \cup RowsAt(p, o)
           /\ TrackOffsets(pending, p, o) \in [Partitions -> Nat \cup {NoOffset}]
           /\ \A q \in Partitions : TrackOffsets(pending, p, o)[q] < Len(log[q])
<1>1. p \in Partitions /\ o \in Nat /\ o \in Offsets(p) /\ o < Len(log[p])
  BY InHandType DEF TypeInv, InsideLog
<1>2. buffer \in Seq(Row) /\ FlattenedRows(p, o) \in Seq(Row)
  BY <1>1, FlattenedRowsType DEF TypeInv, TypeOK, SinkTypeOK
<1>3. /\ Extended(p, o) \in Seq(Row)
      /\ Range(Extended(p, o)) = Range(buffer) \cup RowsAt(p, o)
  BY <1>2, ConcatProperties, RangeConcatenation DEF Extended, RowsAt
<1>4. pending \in [Partitions -> Nat \cup {NoOffset}]
  BY DEF TypeInv, TypeOK, SinkTypeOK
<1>5. \A q \in Partitions : TrackOffsets(pending, p, o)[q] \in {pending[q], IF q = p THEN o ELSE pending[q]}
  BY <1>1, <1>4, TrackOffsetsType
<1> QED
  BY <1>1, <1>3, <1>4, <1>5, TrackOffsetsType DEF TypeInv, InsideLog

\* handle() keeps the types; a buffer over its limit ends the process.
LEMMA TypeDispatch == TypeInv /\ DispatchMessage => TypeInv'
<1> SUFFICES ASSUME TypeInv, DispatchMessage PROVE TypeInv'
  OBVIOUS
<1> DEFINE p == polled.partition
           o == polled.offset
           rows == Extended(p, o)
           pend == TrackOffsets(pending, p, o)
<1>0. /\ rows \in Seq(Row) /\ pend \in [Partitions -> Nat \cup {NoOffset}]
      /\ \A q \in Partitions : pend[q] < Len(log[q])
      /\ failures < MaxFlushAttempts
      /\ pc = "handle" /\ UNCHANGED <<log, committed>>
      /\ polled' = Nothing /\ ~Holding'
  BY ExtendedType DEF DispatchMessage, TypeInv, Healthy, Looping, Holding, Nothing
<1>1. CASE /\ HandleBuffers(p, o)
           /\ IF OverLimit THEN Leave("sinkFatal") ELSE NextIteration
  <2>1. buffer' = rows /\ pending' = pend
    BY <1>1 DEF HandleBuffers
  <2> HIDE DEF p, o, rows, pend
  <2>2. SinkTypeOK' /\ table' \in Seq(Seq(Row)) /\ stale' \in BOOLEAN /\ faults' \in Nat
        /\ UNCHANGED <<failures, inflight>>
    BY <1>0, <1>1, <2>1 DEF HandleBuffers, TypeInv, TypeOK, SinkTypeOK
  <2>3. TypeOK'
    BY <1>0, <1>1, <2>2 DEF Leave, NextIteration, TypeInv, TypeOK, PCs
  <2>4. InsideLog'
    BY <1>0, <1>1, <2>1, <2>2 DEF Leave, NextIteration, TypeInv, InsideLog
  <2>5. Len(buffer') \in Nat
    BY <1>0, <2>1
  <2>6. Healthy'
    BY <1>0, <1>1, <2>2, <2>5, SinkAssumption
       DEF Leave, NextIteration, OverLimit, Healthy, Looping
  <2> QED
    BY <2>3, <2>4, <2>6 DEF TypeInv
<1>2. CASE HandleFlushes(p, o) /\ CallCommit("polling") /\ UNCHANGED cause
  <2>1. FlushSucceeds(rows, pend)
    BY <1>2 DEF HandleFlushes
  <2> HIDE DEF p, o, rows, pend
  <2> QED
    BY <1>0, <1>2, <2>1, TypeFlushed
<1>3. CASE /\ HandleFails(p, o)
           /\ IF Exhausted \/ OverLimit THEN Leave("sinkFatal") ELSE NextIteration
  <2>0. FlushFails(rows, pend)
    BY <1>3 DEF HandleFails
  <2> HIDE DEF p, o, rows, pend
  <2>1. /\ table' \in Seq(Seq(Row)) /\ stale' \in BOOLEAN /\ faults' \in Nat
        /\ SinkTypeOK' /\ buffer' = rows /\ pending' = pend /\ UNCHANGED inflight
    BY <1>0, <2>0, FlushFailsType DEF TypeInv
  <2>2. TypeOK'
    BY <1>0, <1>3, <2>1 DEF Leave, NextIteration, TypeInv, TypeOK, PCs
  <2>3. InsideLog'
    BY <1>0, <1>3, <2>1 DEF Leave, NextIteration, TypeInv, InsideLog
  <2>4. failures' \in Nat /\ Len(buffer') \in Nat
    BY <1>0, <2>1 DEF SinkTypeOK
  <2>5. Healthy'
    BY <1>0, <1>3, <2>1, <2>4, SinkAssumption
       DEF Leave, NextIteration, Exhausted, OverLimit, Healthy, Looping
  <2> QED
    BY <2>2, <2>3, <2>5 DEF TypeInv
<1> QED
  BY <1>1, <1>2, <1>3 DEF DispatchMessage

\* The shutdown keeps the types.
LEMMA TypeClose == TypeInv /\ Close => TypeInv'
<1> SUFFICES ASSUME TypeInv, Close PROVE TypeInv'
  OBVIOUS
<1>0. /\ buffer \in Seq(Row) /\ pending \in [Partitions -> Nat \cup {NoOffset}]
      /\ \A p \in Partitions : pending[p] < Len(log[p])
      /\ UNCHANGED <<log, committed>>
      /\ committed' \in [Partitions -> Nat]
      /\ \A p \in Partitions : committed'[p] <= Len(log[p])
      /\ ExitStatus \in {"clean", "error", "killed"}
  BY DEF Close, ExitStatus, TypeInv, TypeOK, SinkTypeOK, InsideLog
<1>1. CASE Terminate(ExitStatus) /\ UNCHANGED <<table, stale, faults>>
  BY <1>0, <1>1, TypeTerminate DEF TypeInv, TypeOK
<1>2. CASE CloseFlushes /\ CallCommit("down") /\ UNCHANGED <<polled, cause>>
  BY <1>0, <1>2, TypeFlushed DEF CloseFlushes
<1>3. CASE CloseRaises /\ Terminate("error")
  <2>1. table' \in Seq(Seq(Row)) /\ stale' \in BOOLEAN /\ faults' \in Nat
    BY <1>0, <1>3, AppendType DEF CloseRaises, TypeInv
  <2> QED
    BY <1>0, <1>3, <2>1, TypeTerminate
<1> QED
  BY <1>1, <1>2, <1>3 DEF Close

\* A commit, whatever becomes of it, leaves each partition at its committed
\* offset or at the one in the request.
LEMMA CommitEffect ==
    ASSUME TypeInv, CommitReturns \/ CommitRaises
    PROVE  /\ committed' \in [Partitions -> Nat]
           /\ \A p \in Partitions : committed'[p] <= Len(log[p])
           /\ \A p \in Partitions : /\ committed'[p] \in {committed[p], inflight[p]}
                                    /\ inflight[p] = 0 => committed'[p] = committed[p]
<1> DEFINE all == Acknowledged(inflight)
<1>1. \A p \in Partitions : all[p] = IF inflight[p] > 0 THEN inflight[p] ELSE committed[p]
  BY DEF Acknowledged
<1>2. \A p \in Partitions : /\ committed[p] \in Nat /\ inflight[p] \in Nat
                            /\ committed[p] <= Len(log[p]) /\ inflight[p] <= Len(log[p])
  BY DEF TypeInv, TypeOK, SinkTypeOK, InsideLog
<1>3. \A p \in Partitions : /\ all[p] \in Nat /\ all[p] <= Len(log[p])
                            /\ all[p] \in {committed[p], inflight[p]}
                            /\ inflight[p] = 0 => all[p] = committed[p]
  BY <1>1, <1>2
<1>4. CASE CommitReturns
  <2>1. committed' = [p \in Partitions |-> all[p]]
    BY <1>4 DEF CommitReturns, Acknowledged
  <2> HIDE DEF all
  <2> QED
    BY <1>3, <2>1
<1>5. CASE CommitRaises
  <2>1. PICK recorded \in SUBSET Partitions :
            committed' = [p \in Partitions |-> IF p \in recorded THEN all[p] ELSE committed[p]]
    BY <1>5 DEF CommitRaises, PartlyAcknowledged
  <2> HIDE DEF all
  <2> QED
    BY <1>2, <1>3, <2>1
<1> QED
  BY <1>4, <1>5

\* A commit keeps the types: it brings the committed offset up to one of the log.
LEMMA TypeCommit == TypeInv /\ (CommitReturns \/ CommitRaises) => TypeInv'
<1> SUFFICES ASSUME TypeInv, CommitReturns \/ CommitRaises PROVE TypeInv'
  OBVIOUS
<1>1. /\ committed' \in [Partitions -> Nat]
      /\ \A p \in Partitions : committed'[p] <= Len(log[p])
  BY CommitEffect
<1>2. faults' \in Nat
  BY FaultType DEF CommitReturns, CommitRaises, TypeInv, TypeOK
<1>3. UNCHANGED <<log, table, stale>> /\ Return /\ pc = "commit"
  BY DEF CommitReturns, CommitRaises
<1>4. table' \in Seq(Seq(Row)) /\ stale' \in BOOLEAN
  BY <1>3 DEF TypeInv, TypeOK
<1>5. CASE resume = "down"
  <2>1. ExitStatus \in {"clean", "error", "killed"} /\ Terminate(ExitStatus)
    BY <1>3, <1>5 DEF ExitStatus, Return
  <2> QED
    BY <1>1, <1>2, <1>3, <1>4, <2>1, TypeTerminate
<1>6. CASE resume # "down"
  <2>1. /\ inflight' = NoCommit /\ pc' = resume
        /\ UNCHANGED <<buffer, pending, failures, sinceFlush, backoffLeft, needsReload>>
        /\ UNCHANGED <<resume, polled, position, interrupted, cause, exit>>
    BY <1>3, <1>6 DEF Return
  <2>2. /\ inflight' \in [Partitions -> Nat]
        /\ \A p \in Partitions : inflight'[p] = 0
    BY <2>1 DEF NoCommit
  <2>3. TypeOK'
    BY <1>1, <1>2, <1>3, <1>4, <2>1, <2>2 DEF TypeInv, TypeOK, SinkTypeOK, PCs
  <2>4. InsideLog'
    <3>1. \A p \in Partitions : 0 <= Len(log[p])
      BY DEF TypeInv, TypeOK
    <3> QED
      BY <1>1, <1>3, <2>1, <2>2, <3>1 DEF TypeInv, InsideLog, Holding
  <2>5. Healthy'
    <3>1. Len(<<>>) = 0 /\ 0 < MaxBuffered /\ 0 < MaxFlushAttempts
      BY SinkAssumption
    <3>2. failures = 0 /\ buffer = <<>>
      BY <1>3 DEF TypeInv, Healthy
    <3>3. resume \in {"polling", "handle"}
      BY <1>6 DEF TypeInv, TypeOK
    <3> QED
      BY <2>1, <3>1, <3>2, <3>3 DEF Healthy, Looping
  <2> QED
    BY <2>3, <2>4, <2>5 DEF TypeInv
<1> QED
  BY <1>5, <1>6

\* Every step keeps the types.
LEMMA TypeNext == TypeInv /\ [Next]_vars => TypeInv'
<1> SUFFICES ASSUME TypeInv, [Next]_vars PROVE TypeInv'
  OBVIOUS
<1>1. CASE UNCHANGED vars
  BY <1>1 DEF vars, serviceVars, sinkVars, processVars, TypeInv, TypeOK, SinkTypeOK,
              InsideLog, Holding, Healthy, Looping
<1>2. CASE Process
  BY <1>2, TypeStart, TypePoll, TypeLeave, TypeTick, TypeDispatch, TypeClose, TypeCommit
     DEF Process
<1> QED
  BY <1>1, <1>2, TypePublish, TypeOutside, TypeStart, TypePoll, TypeCommit DEF Next

\* The services, the sink and the process keep their types, whatever fails.
THEOREM TypeCorrect == Spec => []TypeOK
<1>1. TypeInv => TypeOK
  BY DEF TypeInv
<1> QED
  BY <1>1, TypeInit, TypeNext, PTL DEF Spec

\* A sink out of attempts or at its memory limit stops the process, which
\* polls no further message (SinkFatalError passes through the dispatcher).
THEOREM GivingUpStopsTheProcess == Spec => []GivingUpStops
<1>1. TypeInv => GivingUpStops
  <2> SUFFICES ASSUME TypeInv PROVE GivingUpStops
    OBVIOUS
  <2>1. /\ failures \in Nat /\ Len(buffer) \in Nat /\ pc \in PCs
        /\ MaxBuffered \in Nat \ {0} /\ MaxFlushAttempts \in Nat \ {0} /\ Len(<<>>) = 0
    BY SinkAssumption DEF TypeInv, TypeOK, SinkTypeOK
  <2> QED
    BY <2>1 DEF GivingUpStops, TypeInv, Healthy, Looping, PCs
<1> QED
  BY <1>1, TypeInit, TypeNext, PTL DEF Spec

(***************************************************************************)
(* The order of the offsets: committed, then pending, then the message in  *)
(* hand, then the read position.                                           *)
(***************************************************************************)
\* What is pending lies between what is committed and what has been read.
PendingInOrder ==
    \A p \in Partitions :
        /\ Running => committed[p] <= position[p] /\ pending[p] < position[p]
        /\ pending[p] = NoOffset \/ committed[p] <= pending[p]
        /\ ~Running \/ pc = "commit" => pending[p] = NoOffset

\* The message in hand is the last one read of its partition, and later than
\* all that is pending.
InHandIsLast ==
    /\ Holding => /\ Running
                  /\ polled.offset + 1 = position[polled.partition]
                  /\ pending[polled.partition] < polled.offset
                  /\ committed[polled.partition] <= polled.offset
    /\ \/ pc = "polling"
       \/ pc = "commit" /\ resume = "polling"
       \/ cause = "interrupt"
       => ~Holding

\* Offsets on their way to Kafka are read, new, and below the message in hand.
InFlightInOrder ==
    pc = "commit" =>
        /\ \A p \in Partitions :
              /\ inflight[p] <= position[p]
              /\ inflight[p] = 0 \/ committed[p] <= inflight[p]
        /\ Holding => inflight[polled.partition] <= polled.offset

\* Nothing buffered has been acknowledged.
BufferedNotAcked ==
    \A r \in Range(buffer) : committed[r.kafka_partition] <= r.kafka_offset

CauseInOrder ==
    pc # "closing" /\ ~(pc = "commit" /\ resume = "down") => cause = "none"

OrderInv ==
    /\ PendingInOrder
    /\ InHandIsLast
    /\ InFlightInOrder
    /\ BufferedNotAcked
    /\ CauseInOrder

\* The offsets OrderInv compares are numbers.
LEMMA OrderTypes ==
    ASSUME TypeInv
    PROVE  /\ \A p \in Partitions :
                 /\ committed[p] \in Nat /\ position[p] \in Nat /\ inflight[p] \in Nat
                 /\ pending[p] \in Int /\ NoOffset <= pending[p] /\ Len(log[p]) \in Nat
           /\ NoOffset \in Int /\ NoOffset < 0
           /\ Range(buffer) \subseteq Row
           /\ pc \in PCs
           /\ Holding => polled.partition \in Partitions /\ polled.offset \in Nat
<1>1. Range(buffer) \subseteq Row
  BY RangeOfSeq DEF TypeInv, TypeOK, SinkTypeOK
<1> QED
  BY <1>1, InHandType DEF TypeInv, TypeOK, SinkTypeOK, NoOffset

\* The rows of a message carry its coordinates.
LEMMA RowCoordinates ==
    ASSUME TypeOK, NEW p \in Partitions, NEW o \in Offsets(p), NEW r \in RowsAt(p, o)
    PROVE  r.kafka_partition = p /\ r.kafka_offset = o
<1>1. PICK i \in DOMAIN FlattenedRows(p, o) : r = FlattenedRows(p, o)[i]
  BY DEF RowsAt, Range
<1> QED
  BY <1>1 DEF FlattenedRows

\* A process that ends holds nothing.
LEMMA OrderTerminate ==
    ASSUME TypeInv, OrderInv, NEW how, Terminate(how)
    PROVE  OrderInv'
<1>1. /\ buffer' = <<>> /\ \A p \in Partitions : pending'[p] = NoOffset
      /\ ~Running' /\ ~Holding' /\ pc' = "down" /\ cause' = "none"
  BY FreshSinkType DEF Terminate, Running, Holding, Nothing
<1>2. Range(buffer') = {}
  BY <1>1 DEF Range
<1> QED
  BY <1>1, <1>2 DEF OrderInv, PendingInOrder, InHandIsLast, InFlightInOrder,
                    BufferedNotAcked, CauseInOrder

\* At first nothing is read, pending or committed.
LEMMA OrderInit == Init => OrderInv
<1> SUFFICES ASSUME Init PROVE OrderInv
  OBVIOUS
<1>1. Range(buffer) = {}
  BY DEF Init, Range
<1>2. \A p \in Partitions : pending[p] = NoOffset
  BY DEF Init, NoOffsets
<1> QED
  BY <1>1, <1>2 DEF Init, OrderInv, PendingInOrder, InHandIsLast, InFlightInOrder,
                    BufferedNotAcked, CauseInOrder, Running, Holding, Nothing

\* Steps that leave the offsets, the buffer and the process alone.
LEMMA OrderUnchanged ==
    ASSUME OrderInv,
           UNCHANGED <<committed, pending, inflight, buffer, polled, position, pc, resume, cause>>
    PROVE  OrderInv'
BY DEF OrderInv, PendingInOrder, InHandIsLast, InFlightInOrder, BufferedNotAcked,
       CauseInOrder, Running, Holding

\* A run begins with an empty buffer, and not below the committed offsets.
LEMMA OrderStart ==
    ASSUME TypeInv, OrderInv, Start \/ OpenReturns
    PROVE  OrderInv'
<1>1. CASE Start
  BY <1>1 DEF Start, sinkVars, serviceVars, OrderInv, PendingInOrder, InHandIsLast,
              InFlightInOrder, BufferedNotAcked, CauseInOrder, Running, Holding
<1>2. CASE OpenReturns
  <2>1. /\ buffer' = <<>> /\ Range(buffer') = {}
        /\ \A p \in Partitions : pending'[p] = NoOffset
    BY <1>2, FreshSinkType DEF OpenReturns, Range
  <2>2. \A p \in Partitions : committed[p] <= position'[p] /\ NoOffset < position'[p]
    BY <1>2, OrderTypes DEF OpenReturns, StartOffset
  <2>3. ~Holding'
    BY <1>2 DEF OpenReturns, OrderInv, InHandIsLast, Running, Holding
  <2> QED
    BY <1>2, <2>1, <2>2, <2>3 DEF OpenReturns, OrderInv, PendingInOrder, InHandIsLast,
              InFlightInOrder, BufferedNotAcked, CauseInOrder, Running
<1> QED
  BY <1>1, <1>2

\* The polled message is the one the position has just passed.
LEMMA OrderPoll ==
    ASSUME TypeInv, OrderInv,
           PollNothing \/ PollFatal \/ \E p \in Partitions : PollRecord(p)
    PROVE  OrderInv'
<1> USE DEF sinkVars, serviceVars
<1>1. CASE PollNothing \/ PollFatal
  BY <1>1 DEF PollNothing, PollFatal, OrderInv, PendingInOrder, InHandIsLast,
              InFlightInOrder, BufferedNotAcked, CauseInOrder, Running, Holding, FatalError
<1>2. ASSUME NEW p \in Partitions, PollRecord(p) PROVE OrderInv'
  <2>1. /\ polled'.partition = p /\ polled'.offset = position[p] /\ Holding'
        /\ position'[p] = position[p] + 1
        /\ \A q \in Partitions \ {p} : position'[q] = position[q]
    BY <1>2 DEF PollRecord, Record, Holding, TypeInv, TypeOK
  <2> QED
    BY <1>2, <2>1, OrderTypes DEF PollRecord, OrderInv, PendingInOrder, InHandIsLast,
              InFlightInOrder, BufferedNotAcked, CauseInOrder, Running
<1> QED
  BY <1>1, <1>2

\* Leaving an iteration drops the message in hand only with the process, or unread.
LEMMA OrderLeave ==
    ASSUME TypeInv, OrderInv, LeaveInterrupted \/ SkipMessage \/ RaiseFromLoop
    PROVE  OrderInv'
<1> USE DEF sinkVars, serviceVars, Leave, NextIteration, OrderInv, PendingInOrder,
            InHandIsLast, InFlightInOrder, BufferedNotAcked, CauseInOrder, Running
<1>1. CASE LeaveInterrupted
  BY <1>1 DEF LeaveInterrupted, Holding
<1>2. CASE SkipMessage
  BY <1>2 DEF SkipMessage, Holding, Nothing
<1>3. CASE RaiseFromLoop
  BY <1>3 DEF RaiseFromLoop, Holding, FatalError
<1> QED
  BY <1>1, <1>2, <1>3

\* A flush that worked.  The rows written are those of pend; what is in hand,
\* if anything still is, comes after them.
LEMMA OrderFlushed ==
    ASSUME TypeInv, OrderInv, Running, UNCHANGED <<committed, cause>>,
           NEW rows, NEW pend \in [Partitions -> Nat \cup {NoOffset}],
           \A p \in Partitions :
                pend[p] < position[p] /\ (pend[p] = NoOffset \/ committed[p] <= pend[p]),
           FlushSucceeds(rows, pend),
           NEW from, CallCommit(from), from = "down" \/ cause = "none",
           from = "polling" => polled' = Nothing,
           \/ polled' = Nothing
           \/ UNCHANGED polled /\ (Holding => pend[polled.partition] < polled.offset)
    PROVE  OrderInv'
<1>1. /\ \A p \in Partitions : pending'[p] = NoOffset /\ inflight'[p] = pend[p] + 1
      /\ buffer' = <<>> /\ Range(buffer') = {}
  BY NextOffsetsType DEF FlushSucceeds, NoOffsets, Range
<1>2. /\ \A p \in Partitions : pend[p] \in Int /\ NoOffset <= pend[p]
      /\ NoOffset = -1
  BY DEF NoOffset
<1>3. Holding' => Holding /\ UNCHANGED polled
  BY DEF Holding, Nothing
<1>4. PendingInOrder'
  BY <1>1, <1>2, OrderTypes DEF OrderInv, PendingInOrder, Running, CallCommit
<1>5. InHandIsLast'
  <2>1. pc' = "commit" /\ Running' /\ resume' = from /\ UNCHANGED <<position, cause, committed>>
    BY DEF CallCommit, Running
  <2>2. Holding' => /\ polled' = polled
                    /\ pending'[polled.partition] < polled.offset
                    /\ polled.offset + 1 = position[polled.partition]
                    /\ committed[polled.partition] <= polled.offset
    BY <1>1, <1>2, <1>3, OrderTypes DEF OrderInv, InHandIsLast
  <2>3. from = "polling" \/ cause = "interrupt" => ~Holding'
    BY <1>3 DEF OrderInv, InHandIsLast, Holding, Nothing
  <2> QED
    BY <2>1, <2>2, <2>3 DEF InHandIsLast
<1>6. InFlightInOrder'
  <2>1. \A p \in Partitions :
            /\ inflight'[p] <= position'[p]
            /\ inflight'[p] = 0 \/ committed'[p] <= inflight'[p]
    BY <1>1, <1>2, OrderTypes DEF CallCommit
  <2>2. Holding' => inflight'[polled'.partition] <= polled'.offset
    BY <1>1, <1>2, <1>3, OrderTypes DEF Holding, Nothing
  <2> QED
    BY <2>1, <2>2 DEF InFlightInOrder
<1> QED
  BY <1>1, <1>4, <1>5, <1>6
     DEF OrderInv, BufferedNotAcked, CauseInOrder, CallCommit

\* A flush by tick() hands over offsets below the message in hand.
LEMMA OrderTick ==
    ASSUME TypeInv, OrderInv, Tick
    PROVE  OrderInv'
<1>0. /\ Running /\ cause = "none" /\ UNCHANGED committed
      /\ pending \in [Partitions -> Nat \cup {NoOffset}]
      /\ \A p \in Partitions :
            pending[p] < position[p] /\ (pending[p] = NoOffset \/ committed[p] <= pending[p])
      /\ Holding => pending[polled.partition] < polled.offset
  BY DEF Tick, Running, OrderInv, PendingInOrder, InHandIsLast, CauseInOrder,
         TypeInv, TypeOK, SinkTypeOK
<1>1. CASE TickFlushes /\ CallCommit("handle") /\ UNCHANGED <<polled, cause>>
  BY <1>0, <1>1, OrderFlushed DEF TickFlushes
<1>2. CASE \/ TickWaits /\ pc' = "handle"
              /\ UNCHANGED <<resume, polled, position, interrupted, cause, exit>>
           \/ /\ TickFails
              /\ IF Exhausted
                 THEN Leave("sinkFatal") /\ UNCHANGED polled
                 ELSE /\ pc' = "handle"
                      /\ UNCHANGED <<resume, polled, position, interrupted, cause, exit>>
  <2>1. /\ UNCHANGED <<buffer, pending, inflight, polled, position, resume>>
        /\ \/ pc' = "handle" /\ UNCHANGED cause
           \/ pc' = "closing" /\ cause' = "sinkFatal"
    BY <1>2 DEF TickWaits, TickFails, FlushFails, Leave
  <2> QED
    BY <1>0, <2>1 DEF OrderInv, PendingInOrder, InHandIsLast, InFlightInOrder,
                      BufferedNotAcked, CauseInOrder, Running, Holding
<1> QED
  BY <1>1, <1>2 DEF Tick

\* The message in hand becomes the last of its partition's buffered rows.
LEMMA OrderDispatch ==
    ASSUME TypeInv, OrderInv, DispatchMessage
    PROVE  OrderInv'
<1> DEFINE p == polled.partition
           o == polled.offset
           rows == Extended(p, o)
           pend == TrackOffsets(pending, p, o)
<1>0. /\ Running /\ cause = "none" /\ UNCHANGED committed /\ Holding
      /\ polled' = Nothing /\ ~Holding'
      /\ p \in Partitions /\ o \in Nat /\ o \in Offsets(p)
      /\ rows \in Seq(Row) /\ pend \in [Partitions -> Nat \cup {NoOffset}]
      /\ Range(rows) = Range(buffer) \cup RowsAt(p, o)
  BY ExtendedType DEF DispatchMessage, Running, OrderInv, CauseInOrder, Holding, Nothing
<1>1. \A q \in Partitions :
            pend[q] < position[q] /\ (pend[q] = NoOffset \/ committed[q] <= pend[q])
  <2>1. pend[p] = o /\ o < position[p] /\ committed[p] <= o
    <3>1. pending \in [Partitions -> Nat \cup {NoOffset}]
      BY DEF TypeInv, TypeOK, SinkTypeOK
    <3>2. pending[p] < o /\ o + 1 = position[p] /\ committed[p] <= o
      BY <1>0 DEF OrderInv, InHandIsLast
    <3>3. pend[p] = IF o > pending[p] THEN o ELSE pending[p]
      BY <1>0, <3>1, TrackOffsetsType
    <3> HIDE DEF pend, p, o
    <3> QED
      BY <1>0, <3>2, <3>3, OrderTypes
  <2>2. \A q \in Partitions \ {p} : pend[q] = pending[q]
    BY <1>0, TrackOffsetsType DEF TypeInv, TypeOK, SinkTypeOK
  <2> QED
    BY <1>0, <2>1, <2>2 DEF OrderInv, PendingInOrder
<1>2. \A r \in Range(rows) : committed[r.kafka_partition] <= r.kafka_offset
  <2>1. \A r \in RowsAt(p, o) : r.kafka_partition = p /\ r.kafka_offset = o
    BY <1>0, RowCoordinates DEF TypeInv
  <2> QED
    BY <1>0, <2>1 DEF OrderInv, BufferedNotAcked, InHandIsLast
<1>3. CASE HandleFlushes(p, o) /\ CallCommit("polling") /\ UNCHANGED cause
  <2>1. FlushSucceeds(rows, pend)
    BY <1>3 DEF HandleFlushes
  <2> HIDE DEF p, o, rows, pend
  <2> QED
    BY <1>0, <1>1, <1>3, <2>1, OrderFlushed
<1>4. CASE \/ /\ HandleBuffers(p, o)
              /\ IF OverLimit THEN Leave("sinkFatal") ELSE NextIteration
           \/ /\ HandleFails(p, o)
              /\ IF Exhausted \/ OverLimit THEN Leave("sinkFatal") ELSE NextIteration
  <2>1. /\ buffer' = rows /\ pending' = pend
        /\ UNCHANGED <<position, resume>>
        /\ \/ pc' = "polling" /\ UNCHANGED cause
           \/ pc' = "closing" /\ cause' = "sinkFatal"
    BY <1>4 DEF HandleBuffers, HandleFails, FlushFails, Leave, NextIteration
  <2> HIDE DEF p, o, rows, pend
  <2> QED
    BY <1>0, <1>1, <1>2, <2>1 DEF OrderInv, PendingInOrder, InHandIsLast, InFlightInOrder,
                      BufferedNotAcked, CauseInOrder, Running
<1> QED
  BY <1>3, <1>4 DEF DispatchMessage

\* The last flush hands over the pending offsets, or the process ends.
LEMMA OrderClose ==
    ASSUME TypeInv, OrderInv, Close
    PROVE  OrderInv'
<1>0. /\ Running /\ UNCHANGED committed
      /\ pending \in [Partitions -> Nat \cup {NoOffset}]
      /\ \A p \in Partitions :
            pending[p] < position[p] /\ (pending[p] = NoOffset \/ committed[p] <= pending[p])
      /\ Holding => pending[polled.partition] < polled.offset
  BY DEF Close, Running, OrderInv, PendingInOrder, InHandIsLast,
         TypeInv, TypeOK, SinkTypeOK
<1>1. CASE CloseFlushes /\ CallCommit("down") /\ UNCHANGED <<polled, cause>>
  BY <1>0, <1>1, OrderFlushed DEF CloseFlushes
<1>2. CASE Terminate(ExitStatus) \/ Terminate("error")
  BY <1>2, OrderTerminate
<1> QED
  BY <1>1, <1>2 DEF Close

\* The offsets in flight are not below the committed ones, so the commit goes forward.
LEMMA OrderCommit ==
    ASSUME TypeInv, OrderInv, CommitReturns \/ CommitRaises
    PROVE  OrderInv'
<1>1. CASE resume = "down"
  <2>1. Terminate(ExitStatus)
    BY <1>1 DEF CommitReturns, CommitRaises, Return
  <2> QED
    BY <2>1, OrderTerminate
<1>2. CASE resume # "down"
  <2>1. /\ pc = "commit" /\ pc' \in {"polling", "handle"} /\ cause = "none"
        /\ UNCHANGED <<buffer, pending, resume, polled, position, cause>>
    BY <1>2 DEF CommitReturns, CommitRaises, Return, OrderInv, CauseInOrder, TypeInv, TypeOK
  <2>2. buffer' = <<>> /\ Range(buffer') = {}
    BY <2>1 DEF TypeInv, Healthy, Range
  <2>3. \A p \in Partitions : committed'[p] \in {committed[p], inflight[p]}
                              /\ (inflight[p] = 0 => committed'[p] = committed[p])
    BY CommitEffect
  <2>4. Running /\ Running'
    BY <2>1 DEF Running
  <2>5. PendingInOrder'
    BY <2>1, <2>3, <2>4, OrderTypes DEF OrderInv, PendingInOrder, InFlightInOrder
  <2>6. InHandIsLast'
    <3>1. Holding' <=> Holding
      BY <2>1 DEF Holding
    <3>2. pc' = "polling" => resume = "polling"
      BY <1>2 DEF CommitReturns, CommitRaises, Return
    <3> QED
      BY <2>1, <2>3, <2>4, <3>1, <3>2, OrderTypes DEF OrderInv, InHandIsLast, InFlightInOrder
  <2> QED
    BY <2>1, <2>2, <2>5, <2>6
       DEF OrderInv, InFlightInOrder, BufferedNotAcked, CauseInOrder
<1> QED
  BY <1>1, <1>2

\* Every step keeps the order of the offsets.
LEMMA OrderNext == TypeInv /\ OrderInv /\ [Next]_vars => OrderInv'
<1> SUFFICES ASSUME TypeInv, OrderInv, [Next]_vars PROVE OrderInv'
  OBVIOUS
<1>1. CASE UNCHANGED vars \/ Publish \/ OtherWriter \/ Elapse \/ Interrupt
  BY <1>1, OrderUnchanged
     DEF vars, serviceVars, sinkVars, processVars, Publish, PublishTo, OtherWriter,
         ForeignSnapshot, Elapse, SinkElapse, Interrupt
<1>2. CASE Crash \/ OpenRaises
  BY <1>2, OrderTerminate DEF Crash, OpenRaises
<1>3. CASE Process
  BY <1>3, OrderStart, OrderPoll, OrderLeave, OrderTick, OrderDispatch, OrderClose, OrderCommit
     DEF Process
<1> QED
  BY <1>1, <1>2, <1>3, OrderStart, OrderPoll, OrderCommit DEF Next

\* The committed offset of a partition never moves back: flush() hands over
\* one past the highest buffered offset, and nothing buffered was acknowledged.
THEOREM CommitsOnlyMoveForward == Spec => CommittedNeverRegresses
<1>1. TypeInv /\ OrderInv /\ [Next]_vars =>
          [\A p \in Partitions : committed[p] <= committed'[p]]_vars
  <2> SUFFICES ASSUME TypeInv, OrderInv, Next, NEW p \in Partitions
               PROVE  committed[p] <= committed'[p]
    OBVIOUS
  <2>1. CASE CommitReturns \/ CommitRaises
    <3>1. pc = "commit" /\ committed'[p] \in {committed[p], inflight[p]}
          /\ (inflight[p] = 0 => committed'[p] = committed[p])
      BY <2>1, CommitEffect DEF CommitReturns, CommitRaises
    <3> QED
      BY <3>1, OrderTypes DEF OrderInv, InFlightInOrder
  <2>2. CASE ~(CommitReturns \/ CommitRaises)
    <3>1. UNCHANGED committed
      BY <2>2 DEF Next, Process, Publish, PublishTo, OtherWriter, ForeignSnapshot, Elapse,
                  Interrupt, Crash, OpenRaises, Start, OpenReturns, PollRecord, PollNothing,
                  PollFatal, LeaveInterrupted, Tick, SkipMessage, RaiseFromLoop,
                  DispatchMessage, Close, serviceVars
    <3> QED
      BY <3>1, OrderTypes
  <2> QED
    BY <2>1, <2>2
<1> QED
  BY <1>1, TypeInit, TypeNext, OrderInit, OrderNext, PTL DEF Spec, CommittedNeverRegresses

\* What is buffered is read again by a run that starts now: its offsets were
\* never committed, and a group that has none starts at the oldest record.
THEOREM BufferedRowsAreReplayable ==
    ASSUME OffsetReset = "earliest"
    PROVE  Spec => []BufferedRowsReplayable
<1>1. TypeInv /\ OrderInv => BufferedRowsReplayable
  <2> SUFFICES ASSUME TypeInv, OrderInv, NEW r \in Range(buffer)
               PROVE  StartOffset(r.kafka_partition) <= r.kafka_offset
    BY DEF BufferedRowsReplayable
  <2>1. r.kafka_partition \in Partitions /\ r.kafka_offset \in Nat
    BY OrderTypes DEF Row
  <2>2. committed[r.kafka_partition] <= r.kafka_offset
    BY DEF OrderInv, BufferedNotAcked
  <2> QED
    BY <2>1, <2>2, OrderTypes DEF StartOffset
<1> QED
  BY <1>1, TypeInit, TypeNext, OrderInit, OrderNext, PTL DEF Spec

(***************************************************************************)
(* Durability: what the process has read is in the table, in its buffer or *)
(* in its hand, and what it acknowledges is in the table.                  *)
(***************************************************************************)
Held == Durable \cup Range(buffer) \cup InHand

\* The append came first: offsets on their way to Kafka cover durable rows only.
InFlightDurable ==
    OffsetReset = "earliest" /\ pc = "commit" =>
        \A p \in Partitions : \A o \in 0..(inflight[p] - 1) : RowsAt(p, o) \subseteq Durable

DurableInv ==
    /\ AckedRowsDurable
    /\ NothingLost
    /\ InFlightDurable
    /\ CleanExitMeansWritten

\* An append adds its rows to what is durable, and takes nothing away.
LEMMA DurableAppend ==
    ASSUME TypeInv, NEW rows \in Seq(Row), table' = Append(table, rows)
    PROVE  Durable' = Durable \cup Range(rows)
<1>1. table \in Seq(Seq(Row))
  BY DEF TypeInv, TypeOK
<1>2. /\ DOMAIN table = 1..Len(table) /\ DOMAIN table' = 1..(Len(table) + 1)
      /\ Len(table) \in Nat
      /\ \A i \in 1..Len(table) : table'[i] = table[i]
      /\ table'[Len(table) + 1] = rows
  BY <1>1, AppendProperties, LenProperties
<1>3. \A i \in DOMAIN table' : i \in DOMAIN table \/ i = Len(table) + 1
  BY <1>2
<1>4. Durable' \subseteq Durable \cup Range(rows)
  BY <1>2, <1>3 DEF Durable
<1>5. Durable \cup Range(rows) \subseteq Durable'
  BY <1>2 DEF Durable
<1> QED
  BY <1>4, <1>5

\* No step takes a row out of the table.
LEMMA TableGrows ==
    ASSUME TypeInv, [Next]_vars
    PROVE  Durable \subseteq Durable'
<1>1. ASSUME NEW rows \in Seq(Row), AppendReturns(rows) \/ AppendRaises(rows)
      PROVE  Durable \subseteq Durable'
  <2>1. UNCHANGED table \/ table' = Append(table, rows)
    BY <1>1 DEF AppendReturns, AppendRaises, AppendConflicts, ConversionFails, AppendFails,
                AppendAnswerLost
  <2> QED
    BY <1>1, <2>1, DurableAppend DEF Durable
<1>2. CASE Tick
  <2>1. buffer \in Seq(Row)
    BY DEF TypeInv, TypeOK, SinkTypeOK
  <2> QED
    BY <1>1, <1>2, <2>1 DEF Tick, TickWaits, TickFlushes, TickFails, FlushSucceeds,
                            FlushFails, Durable
<1>3. CASE DispatchMessage
  <2>1. Extended(polled.partition, polled.offset) \in Seq(Row)
    BY <1>3, ExtendedType DEF DispatchMessage
  <2> QED
    BY <1>1, <1>3, <2>1 DEF DispatchMessage, HandleBuffers, HandleFlushes, HandleFails,
                            FlushSucceeds, FlushFails, Durable
<1>4. CASE Close
  <2>1. buffer \in Seq(Row)
    BY DEF TypeInv, TypeOK, SinkTypeOK
  <2> QED
    BY <1>1, <1>4, <2>1 DEF Close, CloseFlushes, CloseRaises, FlushSucceeds, Durable
<1>5. CASE ~(Tick \/ DispatchMessage \/ Close)
  <2>1. UNCHANGED table
    BY <1>5 DEF Next, Process, Publish, PublishTo, OtherWriter, ForeignSnapshot, Elapse,
                Interrupt, Crash, OpenRaises, Start, OpenReturns, PollRecord, PollNothing,
                PollFatal, LeaveInterrupted, SkipMessage, RaiseFromLoop,
                CommitReturns, CommitRaises, serviceVars, vars
  <2> QED
    BY <2>1 DEF Durable
<1> QED
  BY <1>2, <1>3, <1>4, <1>5

\* A message keeps its rows.
LEMMA RowsStay ==
    ASSUME TypeInv, [Next]_vars
    PROVE  \A p \in Partitions : \A o \in Offsets(p) :
                RowsAt(p, o)' = RowsAt(p, o) /\ Payload(p, o)' = Payload(p, o)
<1>1. CASE Publish
  <2> SUFFICES ASSUME NEW q \in Partitions, NEW k \in Payloads, PublishTo(q, k),
                      NEW p \in Partitions, NEW o \in Offsets(p)
               PROVE  RowsAt(p, o)' = RowsAt(p, o) /\ Payload(p, o)' = Payload(p, o)
    BY <1>1 DEF Publish
  <2>1. log[p] \in Seq(Payloads) /\ o + 1 \in 1..Len(log[p])
    BY DEF TypeInv, TypeOK, Offsets
  <2>2. Append(log[p], k)[o + 1] = log[p][o + 1]
    BY <2>1, AppendProperties
  <2>3. log'[p][o + 1] = log[p][o + 1]
    BY <2>2 DEF PublishTo, TypeInv, TypeOK
  <2> QED
    BY <2>3 DEF RowsAt, FlattenedRows, Payload
<1>2. CASE ~Publish
  <2>1. UNCHANGED log
    BY <1>2 DEF Next, Process, OtherWriter, ForeignSnapshot, Elapse, Interrupt, Crash,
                OpenRaises, Start, OpenReturns, PollRecord, PollNothing, PollFatal,
                LeaveInterrupted, Tick, SkipMessage, RaiseFromLoop, DispatchMessage,
                Close, CommitReturns, CommitRaises, serviceVars, vars
  <2> QED
    BY <2>1 DEF RowsAt, FlattenedRows, Payload
<1> QED
  BY <1>1, <1>2

\* Below the offsets the process and the group hold there are only messages.
LEMMA BelowInsideLog ==
    ASSUME TypeInv, NEW p \in Partitions
    PROVE  /\ 0..(committed[p] - 1) \subseteq Offsets(p)
           /\ 0..(position[p] - 1) \subseteq Offsets(p)
           /\ 0..(inflight[p] - 1) \subseteq Offsets(p)
BY OrderTypes DEF TypeInv, InsideLog, Offsets

\* At first nothing is acknowledged or read.
LEMMA DurableInit == Init => DurableInv
<1> SUFFICES ASSUME Init PROVE DurableInv
  OBVIOUS
<1>1. \A p \in Partitions : committed[p] = 0
  BY DEF Init, ServicesInit
<1>2. AckedRowsDurable
  BY <1>1 DEF AckedRowsDurable
<1> QED
  BY <1>2 DEF Init, DurableInv, NothingLost, InFlightDurable, CleanExitMeansWritten, Running

\* What is acknowledged was in flight, and what was in flight was durable.
LEMMA AckedNext ==
    ASSUME TypeInv, DurableInv, [Next]_vars
    PROVE  AckedRowsDurable'
<1> SUFFICES ASSUME OffsetReset = "earliest",
                    NEW p \in Partitions, NEW o \in 0..(committed'[p] - 1)
             PROVE  RowsAt(p, o)' \subseteq Durable'
  BY DEF AckedRowsDurable
<1>1. CASE o \in 0..(committed[p] - 1)
  <2>1. RowsAt(p, o) \subseteq Durable /\ o \in Offsets(p)
    BY <1>1, BelowInsideLog DEF DurableInv, AckedRowsDurable
  <2> QED
    BY <2>1, TableGrows, RowsStay
<1>2. CASE o \notin 0..(committed[p] - 1)
  <2>1. committed'[p] # committed[p]
    BY <1>2
  <2>2. CommitReturns \/ CommitRaises
    BY <2>1 DEF Next, Process, Publish, PublishTo, OtherWriter, ForeignSnapshot, Elapse,
                Interrupt, Crash, OpenRaises, Start, OpenReturns, PollRecord, PollNothing,
                PollFatal, LeaveInterrupted, Tick, SkipMessage, RaiseFromLoop,
                DispatchMessage, Close, serviceVars, vars
  <2>3. pc = "commit" /\ committed'[p] = inflight[p]
    BY <2>1, <2>2, CommitEffect DEF CommitReturns, CommitRaises
  <2>4. RowsAt(p, o) \subseteq Durable /\ o \in Offsets(p)
    BY <2>3, BelowInsideLog DEF DurableInv, InFlightDurable
  <2> QED
    BY <2>4, TableGrows, RowsStay
<1> QED
  BY <1>1, <1>2

\* A step that reads nothing new and lets go of nothing loses nothing.
LEMMA KeptIfHeld ==
    ASSUME TypeInv, DurableInv, [Next]_vars, Running, UNCHANGED position, Held \subseteq Held'
    PROVE  NothingLost'
<1> SUFFICES ASSUME OffsetReset = "earliest",
                    NEW p \in Partitions, NEW o \in 0..(position[p] - 1)
             PROVE  RowsAt(p, o)' \subseteq Held'
  BY DEF NothingLost, Held
<1>1. RowsAt(p, o) \subseteq Held
  BY DEF DurableInv, NothingLost, Held
<1>2. RowsAt(p, o)' = RowsAt(p, o)
  BY BelowInsideLog, RowsStay
<1> QED
  BY <1>1, <1>2

\* What is in hand keeps its rows as long as it is in hand.
LEMMA InHandStays ==
    ASSUME TypeInv, [Next]_vars, UNCHANGED polled
    PROVE  InHand' = InHand
<1>1. Holding' <=> Holding
  BY DEF Holding
<1>2. CASE Holding
  <2> DEFINE p == polled.partition
             o == polled.offset
  <2>1. RowsAt(p, o)' = RowsAt(p, o)
    BY <1>2, InHandType, RowsStay
  <2> QED
    BY <1>1, <1>2, <2>1 DEF InHand
<1>3. CASE ~Holding
  BY <1>1, <1>3 DEF InHand
<1> QED
  BY <1>2, <1>3

\* What the process holds stays held while its memory and the table keep it.
LEMMA HeldIfKept ==
    ASSUME TypeInv, [Next]_vars, UNCHANGED <<polled, buffer>>
    PROVE  Held \subseteq Held'
BY TableGrows, InHandStays DEF Held

\* flush(): the rows move from the buffer to the table.
LEMMA HeldFlushed ==
    ASSUME TypeInv, [Next]_vars, NEW rows \in Seq(Row), NEW pend,
           FlushSucceeds(rows, pend), Range(buffer) \subseteq Range(rows),
           InHand \subseteq Range(rows) \/ UNCHANGED polled
    PROVE  Held \subseteq Held'
<1>1. Durable' = Durable \cup Range(rows)
  BY DurableAppend DEF FlushSucceeds, AppendReturns
<1>2. InHand \subseteq Range(rows) \/ InHand' = InHand
  BY InHandStays
<1> QED
  BY <1>1, <1>2 DEF Held

\* Handling a message loses nothing of what was held, its own rows included.
LEMMA KeptDispatch ==
    ASSUME TypeInv, DurableInv, DispatchMessage
    PROVE  Running /\ UNCHANGED position /\ Held \subseteq Held'
<1> DEFINE p == polled.partition
           o == polled.offset
           rows == Extended(p, o)
           pend == TrackOffsets(pending, p, o)
<1>0. /\ Holding /\ Running
      /\ rows \in Seq(Row) /\ Range(rows) = Range(buffer) \cup RowsAt(p, o)
      /\ InHand = RowsAt(p, o)
      /\ [Next]_vars
  BY ExtendedType DEF DispatchMessage, Running, InHand, Next, Process
<1>1. CASE HandleFlushes(p, o) /\ CallCommit("polling") /\ UNCHANGED cause
  <2>1. FlushSucceeds(rows, pend) /\ UNCHANGED position
    BY <1>1 DEF HandleFlushes, CallCommit
  <2> HIDE DEF p, o, rows, pend
  <2> QED
    BY <1>0, <2>1, HeldFlushed
<1>2. CASE \/ /\ HandleBuffers(p, o)
              /\ IF OverLimit THEN Leave("sinkFatal") ELSE NextIteration
           \/ /\ HandleFails(p, o)
              /\ IF Exhausted \/ OverLimit THEN Leave("sinkFatal") ELSE NextIteration
  <2>1. buffer' = rows /\ UNCHANGED position
    BY <1>2 DEF HandleBuffers, HandleFails, FlushFails, Leave, NextIteration
  <2> HIDE DEF p, o, rows, pend
  <2> QED
    BY <1>0, <2>1, TableGrows DEF Held
<1> QED
  BY <1>0, <1>1, <1>2 DEF DispatchMessage

\* Every step of a process that goes on keeps what it has read.
LEMMA KeptNext ==
    ASSUME TypeInv, OrderInv, DurableInv, [Next]_vars
    PROVE  NothingLost'
<1>1. CASE Tick
  <2>1. buffer \in Seq(Row) /\ Running /\ UNCHANGED position
    BY <1>1 DEF Tick, Running, CallCommit, Leave, TypeInv, TypeOK, SinkTypeOK
  <2>2. CASE TickFlushes /\ UNCHANGED polled
    BY <2>1, <2>2, HeldFlushed, KeptIfHeld DEF TickFlushes
  <2>3. CASE UNCHANGED <<buffer, polled>>
    BY <2>1, <2>3, HeldIfKept, KeptIfHeld
  <2> QED
    BY <1>1, <2>2, <2>3 DEF Tick, TickWaits, TickFails, FlushFails, Leave
<1>2. CASE DispatchMessage
  BY <1>2, KeptDispatch, KeptIfHeld
<1>3. CASE CloseFlushes /\ pc = "closing" /\ UNCHANGED <<position, polled>>
  <2>1. buffer \in Seq(Row) /\ Running
    BY <1>3 DEF Running, TypeInv, TypeOK, SinkTypeOK
  <2> QED
    BY <1>3, <2>1, HeldFlushed, KeptIfHeld DEF CloseFlushes
<1>4. CASE SkipMessage
  <2>1. Running /\ UNCHANGED <<position, buffer>> /\ polled' = Nothing
    BY <1>4 DEF SkipMessage, Running, NextIteration, sinkVars
  <2>2. InHand = {}
    <3>1. CASE polled = Nothing
      BY <3>1 DEF InHand, Holding, Nothing
    <3>2. CASE Holding /\ Payload(polled.partition, polled.offset) \in Undecodable
      <4> DEFINE n == RowCount[Payload(polled.partition, polled.offset)]
      <4>1. n = 0
        BY <3>2, InHandType, FlattenedRowsType, ServicesAssumption DEF TypeInv
      <4>2. DOMAIN FlattenedRows(polled.partition, polled.offset) = 1..n
        BY DEF FlattenedRows
      <4> QED
        BY <3>2, <4>1, <4>2 DEF InHand, RowsAt, Range
    <3> QED
      BY <1>4, <3>1, <3>2 DEF SkipMessage
  <2> QED
    BY <2>1, <2>2, TableGrows, KeptIfHeld DEF Held
<1>5. CASE OpenReturns
  <2> SUFFICES ASSUME OffsetReset = "earliest",
                      NEW p \in Partitions, NEW o \in 0..(position'[p] - 1)
               PROVE  RowsAt(p, o)' \subseteq Durable'
    BY DEF NothingLost
  <2>1. position'[p] = IF committed[p] > 0 THEN committed[p] ELSE 0
    BY <1>5 DEF OpenReturns, StartOffset
  <2>2. o \in 0..(committed[p] - 1)
    BY <2>1, OrderTypes
  <2>3. RowsAt(p, o) \subseteq Durable /\ o \in Offsets(p)
    BY <2>2, BelowInsideLog DEF DurableInv, AckedRowsDurable
  <2> QED
    BY <2>3, TableGrows, RowsStay
<1>6. ASSUME NEW q \in Partitions, PollRecord(q)
      PROVE  NothingLost'
  <2> SUFFICES ASSUME OffsetReset = "earliest",
                      NEW p \in Partitions, NEW o \in 0..(position'[p] - 1)
               PROVE  RowsAt(p, o)' \subseteq Held'
    BY DEF NothingLost, Held
  <2>1. /\ Running /\ ~Holding /\ UNCHANGED buffer
        /\ position[q] \in Offsets(q)
        /\ \A r \in Partitions : position'[r] = IF r = q THEN position[r] + 1 ELSE position[r]
        /\ Holding' /\ polled'.partition = q /\ polled'.offset = position[q]
    BY <1>6 DEF PollRecord, Running, Record, Holding, OrderInv, InHandIsLast, sinkVars,
                TypeInv, TypeOK
  <2>2. CASE o \in 0..(position[p] - 1)
    <3>1. RowsAt(p, o) \subseteq Durable \cup Range(buffer)
      BY <2>1, <2>2 DEF DurableInv, NothingLost, InHand
    <3>2. RowsAt(p, o)' = RowsAt(p, o)
      BY <2>2, BelowInsideLog, RowsStay
    <3> QED
      BY <2>1, <3>1, <3>2, TableGrows DEF Held
  <2>3. CASE o \notin 0..(position[p] - 1)
    <3>1. p = q /\ o = position[q]
      BY <2>1, <2>3, OrderTypes
    <3> QED
      BY <2>1, <3>1 DEF Held, InHand
  <2> QED
    BY <2>2, <2>3
<1>7. CASE PollNothing \/ PollFatal \/ LeaveInterrupted \/ RaiseFromLoop
  <2>1. Running /\ UNCHANGED <<position, buffer>>
    BY <1>7 DEF PollNothing, PollFatal, LeaveInterrupted, RaiseFromLoop, Leave, Running, sinkVars
  <2>2. UNCHANGED polled \/ ~Holding
    BY <1>7 DEF PollNothing, PollFatal, LeaveInterrupted, RaiseFromLoop, OrderInv, InHandIsLast
  <2>3. Held \subseteq Held'
    BY <2>1, <2>2, TableGrows, InHandStays DEF Held, InHand
  <2> QED
    BY <2>1, <2>3, KeptIfHeld
<1>8. CASE (CommitReturns \/ CommitRaises) /\ resume # "down"
  <2>1. Running /\ UNCHANGED <<position, buffer, polled>>
    BY <1>8 DEF CommitReturns, CommitRaises, Return, Running
  <2> QED
    BY <2>1, HeldIfKept, KeptIfHeld
<1>9. CASE UNCHANGED vars \/ Publish \/ OtherWriter \/ Elapse \/ Interrupt
  <2>1. UNCHANGED <<pc, position, buffer, polled>>
    BY <1>9 DEF vars, serviceVars, sinkVars, processVars, Publish, OtherWriter, Elapse,
                SinkElapse, Interrupt
  <2>2. CASE Running
    BY <2>1, <2>2, HeldIfKept, KeptIfHeld
  <2>3. CASE ~Running
    BY <2>1, <2>3 DEF NothingLost, Running
  <2> QED
    BY <2>2, <2>3
<1>10. CASE Start
  BY <1>10 DEF Start, NothingLost, Running
<1>11. CASE \E how \in {"clean", "error", "killed"} : Terminate(how)
  BY <1>11 DEF Terminate, NothingLost, Running
<1>12. Crash \/ OpenRaises => \E how \in {"clean", "error", "killed"} : Terminate(how)
  BY DEF Crash, OpenRaises
<1>13. Close => \/ CloseFlushes /\ pc = "closing" /\ UNCHANGED <<position, polled>>
               \/ \E how \in {"clean", "error", "killed"} : Terminate(how)
  BY DEF Close, CallCommit, ExitStatus
<1>14. CommitReturns \/ CommitRaises =>
            \/ resume # "down"
            \/ \E how \in {"clean", "error", "killed"} : Terminate(how)
  BY DEF CommitReturns, CommitRaises, Return, ExitStatus
<1> QED
  BY <1>1, <1>2, <1>3, <1>4, <1>5, <1>6, <1>7, <1>8, <1>9, <1>10, <1>11, <1>12, <1>13, <1>14
     DEF Next, Process

\* A flush that worked: the rows below every offset it hands over are durable.
\* What is in hand is either written with the batch or comes after it.
LEMMA InFlightFlushed ==
    ASSUME TypeInv, DurableInv, [Next]_vars, Running,
           NEW rows \in Seq(Row), NEW pend \in [Partitions -> Nat \cup {NoOffset}],
           FlushSucceeds(rows, pend), Range(buffer) \subseteq Range(rows),
           \A p \in Partitions : pend[p] < position[p],
           \/ InHand \subseteq Range(rows)
           \/ Holding => pend[polled.partition] < polled.offset
    PROVE  InFlightDurable'
<1> SUFFICES ASSUME OffsetReset = "earliest",
                    NEW p \in Partitions, NEW o \in 0..(inflight'[p] - 1)
             PROVE  RowsAt(p, o)' \subseteq Durable'
  BY DEF InFlightDurable
<1>1. Durable' = Durable \cup Range(rows)
  BY DurableAppend DEF FlushSucceeds, AppendReturns
<1>2. pend[p] \in Int /\ inflight'[p] = pend[p] + 1
  BY NextOffsetsType DEF FlushSucceeds, NoOffset
<1>3. o <= pend[p] /\ o \in 0..(position[p] - 1)
  BY <1>2, OrderTypes
<1>4. o \in Offsets(p) /\ RowsAt(p, o)' = RowsAt(p, o)
  BY <1>3, BelowInsideLog, RowsStay
<1>5. RowsAt(p, o) \subseteq Durable \cup Range(buffer) \cup InHand
  BY <1>3 DEF DurableInv, NothingLost
<1>6. ASSUME NEW r \in RowsAt(p, o), r \in InHand, ~(InHand \subseteq Range(rows))
      PROVE  FALSE
  <2>1. Holding /\ r \in RowsAt(polled.partition, polled.offset)
    BY <1>6 DEF InHand
  <2>2. polled.partition = p /\ polled.offset = o
    BY <1>4, <1>6, <2>1, InHandType, RowCoordinates DEF TypeInv
  <2> QED
    BY <1>2, <1>3, <1>6, <2>1, <2>2
<1> QED
  BY <1>1, <1>4, <1>5, <1>6

\* What is below an offset in flight is, and stays, in the table.
LEMMA InFlightNext ==
    ASSUME TypeInv, OrderInv, DurableInv, [Next]_vars
    PROVE  InFlightDurable'
<1>1. /\ buffer \in Seq(Row) /\ pending \in [Partitions -> Nat \cup {NoOffset}]
      /\ Running => \A p \in Partitions : pending[p] < position[p]
      /\ Holding => pending[polled.partition] < polled.offset
  BY DEF TypeInv, TypeOK, SinkTypeOK, OrderInv, PendingInOrder, InHandIsLast
<1>2. CASE (TickFlushes /\ pc = "tick") \/ (CloseFlushes /\ pc = "closing")
  <2>1. Running /\ FlushSucceeds(buffer, pending)
    BY <1>2 DEF Running, TickFlushes, CloseFlushes
  <2> QED
    BY <1>1, <2>1, InFlightFlushed
<1>3. CASE DispatchMessage /\ HandleFlushes(polled.partition, polled.offset)
  <2> DEFINE p == polled.partition
             o == polled.offset
             rows == Extended(p, o)
             pend == TrackOffsets(pending, p, o)
  <2>1. Holding /\ Running /\ FlushSucceeds(rows, pend)
    BY <1>3 DEF DispatchMessage, HandleFlushes, Running
  <2>2. /\ p \in Partitions /\ o \in Nat
        /\ rows \in Seq(Row) /\ Range(rows) = Range(buffer) \cup RowsAt(p, o)
        /\ pend \in [Partitions -> Nat \cup {NoOffset}]
        /\ InHand = RowsAt(p, o)
    BY <2>1, ExtendedType DEF InHand
  <2>3. \A q \in Partitions : pend[q] \in {pending[q], IF q = p THEN o ELSE pending[q]}
    BY <1>1, <2>2, TrackOffsetsType
  <2>4. o < position[p]
    BY <2>1, OrderTypes DEF OrderInv, InHandIsLast
  <2>5. \A q \in Partitions : pend[q] < position[q]
    <3> HIDE DEF p, o, pend
    <3> QED
      BY <1>1, <2>1, <2>3, <2>4
  <2> HIDE DEF p, o, rows, pend
  <2> QED
    BY <2>1, <2>2, <2>5, InFlightFlushed
<1>4. CASE pc' = "commit" => UNCHANGED <<pc, inflight>>
  <2> SUFFICES ASSUME OffsetReset = "earliest", pc = "commit", UNCHANGED inflight,
                      NEW p \in Partitions, NEW o \in 0..(inflight[p] - 1)
               PROVE  RowsAt(p, o)' \subseteq Durable'
    BY <1>4 DEF InFlightDurable
  <2>1. RowsAt(p, o) \subseteq Durable
    BY DEF DurableInv, InFlightDurable
  <2> QED
    BY <2>1, BelowInsideLog, RowsStay, TableGrows
<1>5. CASE UNCHANGED vars \/ Publish \/ OtherWriter \/ Elapse \/ Interrupt
  BY <1>4, <1>5 DEF vars, serviceVars, sinkVars, processVars, Publish, OtherWriter, Elapse,
                    SinkElapse, Interrupt
<1>6. CASE Tick \/ Close \/ DispatchMessage
  <2>1. Tick => (TickFlushes /\ pc = "tick") \/ pc' # "commit"
    BY DEF Tick, Leave
  <2>2. Close => (CloseFlushes /\ pc = "closing") \/ pc' # "commit"
    BY DEF Close, Terminate
  <2>3. DispatchMessage => HandleFlushes(polled.partition, polled.offset) \/ pc' # "commit"
    BY DEF DispatchMessage, Leave, NextIteration
  <2>4. CASE pc' # "commit"
    BY <1>4, <2>4
  <2>5. CASE Tick /\ TickFlushes /\ pc = "tick"
    BY <1>2, <2>5
  <2>6. CASE Close /\ CloseFlushes /\ pc = "closing"
    BY <1>2, <2>6
  <2>7. CASE DispatchMessage /\ HandleFlushes(polled.partition, polled.offset)
    BY <1>3, <2>7
  <2> QED
    BY <1>6, <2>1, <2>2, <2>3, <2>4, <2>5, <2>6, <2>7
<1>7. CASE Crash \/ OpenRaises \/ Start \/ OpenReturns \/ PollNothing \/ PollFatal
           \/ LeaveInterrupted \/ SkipMessage \/ RaiseFromLoop
           \/ \E p \in Partitions : PollRecord(p)
  BY <1>4, <1>7
     DEF Crash, OpenRaises, Start, OpenReturns, PollNothing, PollFatal, PollRecord,
         LeaveInterrupted, SkipMessage, RaiseFromLoop, Leave, Terminate, NextIteration
<1>8. CASE CommitReturns \/ CommitRaises
  BY <1>4, <1>8 DEF CommitReturns, CommitRaises, Return, Terminate, TypeInv, TypeOK
<1> QED
  BY <1>5, <1>6, <1>7, <1>8 DEF Next, Process

\* Only an interrupted process that has written all it read exits cleanly.
LEMMA CleanExitNext ==
    ASSUME TypeInv, OrderInv, DurableInv, [Next]_vars
    PROVE  CleanExitMeansWritten'
<1> SUFFICES ASSUME OffsetReset = "earliest", pc' = "down", exit' = "clean",
                    NEW p \in Partitions, NEW o \in 0..(position'[p] - 1)
             PROVE  RowsAt(p, o)' \subseteq Durable'
  BY DEF CleanExitMeansWritten
<1>1. CASE UNCHANGED <<position, pc, exit>>
  <2>1. o \in 0..(position[p] - 1) /\ RowsAt(p, o) \subseteq Durable
    BY <1>1 DEF DurableInv, CleanExitMeansWritten
  <2> QED
    BY <2>1, BelowInsideLog, RowsStay, TableGrows
<1>2. CASE Terminate("clean") /\ Running /\ buffer = <<>> /\ cause = "interrupt"
  <2>1. ~Holding /\ Range(buffer) = {} /\ UNCHANGED position
    BY <1>2 DEF OrderInv, InHandIsLast, Terminate, Range
  <2>2. o \in 0..(position[p] - 1) /\ RowsAt(p, o) \subseteq Durable
    BY <1>2, <2>1 DEF DurableInv, NothingLost, InHand
  <2> QED
    BY <2>2, BelowInsideLog, RowsStay, TableGrows
<1>3. CASE UNCHANGED vars \/ Publish \/ OtherWriter \/ Elapse \/ Interrupt
  BY <1>1, <1>3 DEF vars, serviceVars, sinkVars, processVars, Publish, OtherWriter, Elapse,
                    SinkElapse, Interrupt
<1>4. CASE Close
  BY <1>2, <1>4 DEF Close, Terminate, ExitStatus, CallCommit, Running
<1>5. CASE CommitReturns \/ CommitRaises
  <2>1. pc = "commit" /\ buffer = <<>> /\ Return
    BY <1>5 DEF CommitReturns, CommitRaises, TypeInv, Healthy
  <2> QED
    BY <1>2, <2>1 DEF Return, Terminate, ExitStatus, Running, TypeInv, TypeOK
<1>6. CASE Crash \/ OpenRaises \/ Start \/ OpenReturns \/ PollNothing \/ PollFatal
           \/ LeaveInterrupted \/ SkipMessage \/ RaiseFromLoop \/ Tick \/ DispatchMessage
           \/ \E q \in Partitions : PollRecord(q)
  BY <1>6
     DEF Crash, OpenRaises, Start, OpenReturns, PollNothing, PollFatal, PollRecord, Tick,
         LeaveInterrupted, SkipMessage, RaiseFromLoop, DispatchMessage, Leave, Terminate,
         NextIteration, CallCommit
<1> QED
  BY <1>3, <1>4, <1>5, <1>6 DEF Next, Process

\* Every step keeps the third layer.
LEMMA DurableNext == TypeInv /\ OrderInv /\ DurableInv /\ [Next]_vars => DurableInv'
BY AckedNext, KeptNext, InFlightNext, CleanExitNext DEF DurableInv

\* The three layers hold in every state.
LEMMA DurableAlways == Spec => [](TypeInv /\ OrderInv /\ DurableInv)
BY TypeInit, TypeNext, OrderInit, OrderNext, DurableInit, DurableNext, PTL DEF Spec

\* At-least-once: what the group has acknowledged is in the table.
THEOREM AtLeastOnce == Spec => []AckedRowsDurable
<1>1. DurableInv => AckedRowsDurable
  BY DEF DurableInv
<1> QED
  BY <1>1, DurableAlways, PTL

\* A running process holds, in the table, its buffer or its hand, every row of
\* every message it has read past.
THEOREM NothingIsLost == Spec => []NothingLost
<1>1. DurableInv => NothingLost
  BY DEF DurableInv
<1> QED
  BY <1>1, DurableAlways, PTL

\* Exit status 0 is never reported over rows that were read and not written.
THEOREM CleanExitsAreComplete == Spec => []CleanExitMeansWritten
<1>1. DurableInv => CleanExitMeansWritten
  BY DEF DurableInv
<1> QED
  BY <1>1, DurableAlways, PTL
=============================================================================
