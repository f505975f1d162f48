--------------------------- MODULE DeliveryProofs ---------------------------
(***************************************************************************)
(* Proof that the consumer implements the contract of module Delivery, for *)
(* every value of the constants with auto.offset.reset "earliest", and     *)
(* that messages land whole.                                               *)
(***************************************************************************)
EXTENDS ConsumerProofs

\* Rows that are those of messages of the log, every message complete.
Whole(rows) ==
    \A r \in Range(rows) :
        /\ r.kafka_partition \in Partitions
        /\ r.kafka_offset \in Offsets(r.kafka_partition)
        /\ r \in RowsAt(r.kafka_partition, r.kafka_offset)
        /\ RowsAt(r.kafka_partition, r.kafka_offset) \subseteq Range(rows)

WholeInv ==
    /\ Whole(buffer)
    /\ \A i \in DOMAIN table : Whole(table[i])

\* No step shortens the log.
LEMMA LogGrows ==
    ASSUME TypeInv, [Next]_vars, NEW p \in Partitions
    PROVE  Len(log[p]) \in Nat /\ Len(log'[p]) \in Nat /\ Len(log[p]) <= Len(log'[p])
<1>1. log[p] \in Seq(Payloads) /\ log \in [Partitions -> Seq(Payloads)]
  BY DEF TypeInv, TypeOK
<1>2. CASE Publish
  <2>1. PICK q \in Partitions, k \in Payloads : log' = [log EXCEPT ![q] = Append(@, k)]
    BY <1>2 DEF Publish, PublishTo
  <2>2. log'[p] = log[p] \/ log'[p] = Append(log[p], k)
    BY <1>1, <2>1
  <2> QED
    BY <1>1, <2>2, AppendProperties, LenProperties
<1>3. CASE ~Publish
  <2>1. UNCHANGED log
    BY <1>3 DEF Next, Process, OtherWriter, ForeignSnapshot, Elapse, Interrupt, Crash,
                OpenRaises, Start, OpenReturns, PollRecord, PollNothing, PollFatal,
                LeaveInterrupted, Tick, SkipMessage, RaiseFromLoop, DispatchMessage,
                Close, CommitReturns, CommitRaises, serviceVars, vars
  <2> QED
    BY <1>1, <2>1, LenProperties
<1> QED
  BY <1>2, <1>3

\* Rows of whole messages remain so: the log never changes what a message says.
LEMMA WholeStays ==
    ASSUME TypeInv, [Next]_vars, NEW rows, Whole(rows)
    PROVE  \A r \in Range(rows) :
                /\ r.kafka_partition \in Partitions
                /\ r.kafka_offset \in Offsets(r.kafka_partition)'
                /\ r \in RowsAt(r.kafka_partition, r.kafka_offset)'
                /\ RowsAt(r.kafka_partition, r.kafka_offset)' \subseteq Range(rows)
<1> SUFFICES ASSUME NEW r \in Range(rows)
             PROVE  /\ r.kafka_partition \in Partitions
                    /\ r.kafka_offset \in Offsets(r.kafka_partition)'
                    /\ r \in RowsAt(r.kafka_partition, r.kafka_offset)'
                    /\ RowsAt(r.kafka_partition, r.kafka_offset)' \subseteq Range(rows)
  OBVIOUS
<1> DEFINE p == r.kafka_partition
           o == r.kafka_offset
<1>1. /\ p \in Partitions /\ o \in Offsets(p)
      /\ r \in RowsAt(p, o) /\ RowsAt(p, o) \subseteq Range(rows)
  BY DEF Whole
<1>2. RowsAt(p, o)' = RowsAt(p, o)
  BY <1>1, RowsStay
<1>3. Len(log[p]) \in Nat /\ Len(log'[p]) \in Nat /\ Len(log[p]) <= Len(log'[p])
  BY <1>1, LogGrows
<1> QED
  BY <1>1, <1>2, <1>3 DEF Offsets

\* What a call of _append leaves in the table, when the rows it got were whole.
LEMMA WholeAppended ==
    ASSUME TypeInv, WholeInv, [Next]_vars, NEW rows \in Seq(Row), Whole(rows),
           UNCHANGED table \/ table' = Append(table, rows)
    PROVE  \A i \in DOMAIN table' : Whole(table[i])'
<1> SUFFICES ASSUME NEW i \in DOMAIN table' PROVE Whole(table[i])'
  OBVIOUS
<1>1. table \in Seq(Seq(Row))
  BY DEF TypeInv, TypeOK
<1>2. PICK snapshot : Whole(snapshot) /\ table'[i] = snapshot
  <2>1. CASE UNCHANGED table
    BY <2>1 DEF WholeInv
  <2>2. CASE table' = Append(table, rows)
    <3>1. /\ i \in 1..Len(table) => i \in DOMAIN table /\ table'[i] = table[i]
          /\ i \in 1..Len(table) \/ table'[i] = rows
      BY <1>1, <2>2, AppendProperties, LenProperties
    <3> QED
      BY <3>1 DEF WholeInv
  <2> QED
    BY <2>1, <2>2
<1> QED
  BY <1>2, WholeStays DEF Whole

\* A buffer that is kept or emptied still holds whole messages.
LEMMA WholeBuffered ==
    ASSUME TypeInv, WholeInv, [Next]_vars, NEW rows, Whole(rows),
           buffer' = rows \/ buffer' = <<>>
    PROVE  Whole(buffer)'
<1>1. CASE buffer' = rows
  BY <1>1, WholeStays DEF Whole
<1>2. CASE buffer' = <<>>
  <2>1. Range(buffer') = {}
    BY <1>2 DEF Range
  <2> QED
    BY <2>1 DEF Whole
<1> QED
  BY <1>1, <1>2

\* handle() extends the buffer by all the rows of a message.
LEMMA WholeExtended ==
    ASSUME TypeInv, WholeInv, Holding,
           NEW p, NEW o, p = polled.partition, o = polled.offset
    PROVE  Extended(p, o) \in Seq(Row) /\ Whole(Extended(p, o))
<1>1. /\ p \in Partitions /\ o \in Offsets(p)
      /\ Extended(p, o) \in Seq(Row)
      /\ Range(Extended(p, o)) = Range(buffer) \cup RowsAt(p, o)
  BY ExtendedType
<1>2. \A r \in RowsAt(p, o) : r.kafka_partition = p /\ r.kafka_offset = o
  BY <1>1, RowCoordinates DEF TypeInv
<1>3. ASSUME NEW r \in Range(Extended(p, o))
      PROVE  /\ r.kafka_partition \in Partitions
             /\ r.kafka_offset \in Offsets(r.kafka_partition)
             /\ r \in RowsAt(r.kafka_partition, r.kafka_offset)
             /\ RowsAt(r.kafka_partition, r.kafka_offset) \subseteq Range(Extended(p, o))
  BY <1>1, <1>2, <1>3 DEF WholeInv, Whole
<1> QED
  BY <1>1, <1>3 DEF Whole

\* An empty table and an empty buffer hold whole messages.
LEMMA WholeInit == Init => WholeInv
<1> SUFFICES ASSUME Init PROVE WholeInv
  OBVIOUS
<1>1. Range(buffer) = {} /\ DOMAIN table = {}
  BY DEF Init, ServicesInit, Range
<1> QED
  BY <1>1 DEF WholeInv, Whole

\* The only appends are flush()'s, of the buffer or of the buffer extended by
\* the message in hand.
LEMMA AppendsAreFlushes ==
    ASSUME TypeInv, WholeInv, [Next]_vars
    PROVE  \E rows \in Seq(Row) :
              /\ Whole(rows)
              /\ UNCHANGED table \/ table' = Append(table, rows)
              /\ buffer' = rows \/ buffer' = <<>>
<1>1. ASSUME NEW rows, AppendReturns(rows) \/ AppendRaises(rows)
      PROVE  UNCHANGED table \/ table' = Append(table, rows)
  BY <1>1 DEF AppendReturns, AppendRaises, AppendConflicts, ConversionFails, AppendFails,
              AppendAnswerLost
<1>2. buffer \in Seq(Row) /\ Whole(buffer)
  BY DEF TypeInv, TypeOK, SinkTypeOK, WholeInv
<1>3. CASE Tick
  <2>1. UNCHANGED table \/ AppendReturns(buffer) \/ AppendRaises(buffer)
    BY <1>3 DEF Tick, TickWaits, TickFlushes, TickFails, FlushSucceeds, FlushFails
  <2>2. buffer' = buffer \/ buffer' = <<>>
    BY <1>3 DEF Tick, TickWaits, TickFlushes, TickFails, FlushSucceeds, FlushFails
  <2> QED
    BY <1>1, <1>2, <2>1, <2>2
<1>4. CASE DispatchMessage
  <2> DEFINE rows == Extended(polled.partition, polled.offset)
  <2>1. Holding /\ rows \in Seq(Row) /\ Whole(rows)
    BY <1>4, WholeExtended DEF DispatchMessage
  <2>2. /\ UNCHANGED table \/ AppendReturns(rows) \/ AppendRaises(rows)
        /\ buffer' = rows \/ buffer' = <<>>
    BY <1>4 DEF DispatchMessage, HandleBuffers, HandleFlushes, HandleFails, FlushSucceeds,
                FlushFails
  <2> HIDE DEF rows
  <2> QED
    BY <1>1, <2>1, <2>2
<1>5. CASE Close
  <2>1. UNCHANGED table \/ AppendReturns(buffer) \/ AppendRaises(buffer)
    BY <1>5 DEF Close, CloseFlushes, CloseRaises, FlushSucceeds
  <2>2. buffer' = buffer \/ buffer' = <<>>
    BY <1>5 DEF Close, CloseFlushes, FlushSucceeds, Terminate, FreshSink
  <2> QED
    BY <1>1, <1>2, <2>1, <2>2
<1>6. CASE ~(Tick \/ DispatchMessage \/ Close)
  <2>1. UNCHANGED table /\ (buffer' = buffer \/ buffer' = <<>>)
    BY <1>6 DEF Next, Process, Publish, PublishTo, OtherWriter, ForeignSnapshot, Elapse,
                SinkElapse, Interrupt, Crash, OpenRaises, Start, OpenReturns, PollRecord,
                PollNothing, PollFatal, LeaveInterrupted, SkipMessage, RaiseFromLoop,
                CommitReturns, CommitRaises, Return, Terminate, FreshSink,
                serviceVars, sinkVars, vars
  <2> QED
    BY <1>2, <2>1
<1> QED
  BY <1>3, <1>4, <1>5, <1>6

\* Every step keeps messages whole.
LEMMA WholeNext == TypeInv /\ WholeInv /\ [Next]_vars => WholeInv'
<1> SUFFICES ASSUME TypeInv, WholeInv, [Next]_vars PROVE WholeInv'
  OBVIOUS
<1>1. PICK rows \in Seq(Row) :
          /\ Whole(rows)
          /\ UNCHANGED table \/ table' = Append(table, rows)
          /\ buffer' = rows \/ buffer' = <<>>
  BY AppendsAreFlushes
<1>2. Whole(buffer)'
  BY <1>1, WholeBuffered
<1>3. \A i \in DOMAIN table' : Whole(table[i])'
  BY <1>1, WholeAppended
<1> QED
  BY <1>2, <1>3 DEF WholeInv

\* No snapshot of the table holds part of a message: handle() takes all rows
\* of a message at once, and flush() writes all that is buffered.
THEOREM WholeMessages == Spec => []MessagesLandWhole
<1>1. WholeInv => MessagesLandWhole
  BY DEF WholeInv, Whole, MessagesLandWhole
<1> QED
  BY <1>1, TypeInit, TypeNext, WholeInit, WholeNext, PTL DEF Spec

(***************************************************************************)
(* The refinement.                                                         *)
(***************************************************************************)
LEMMA RowsOfContract ==
    ASSUME NEW p \in Partitions, NEW o
    PROVE  Contract!Rows(p, o) = RowsAt(p, o)
<1> DEFINE n == RowCount[log[p][o + 1]]
           row(i) == [kafka_partition |-> p, kafka_offset |-> o, record_index |-> i]
<1>1. FlattenedRows(p, o) = [i \in 1..n |-> row(i)]
  BY DEF FlattenedRows, Payload
<1> HIDE DEF n
<1>2. RowsAt(p, o) = { row(i) : i \in 1..n }
  BY <1>1 DEF RowsAt, Range
<1> QED
  BY <1>2 DEF Contract!Rows, n

\* The initial states are the contract's.
LEMMA ContractInit == Init => Contract!Init
<1> SUFFICES ASSUME Init PROVE Contract!Init
  OBVIOUS
<1>1. Durable = {}
  BY DEF Init, ServicesInit, Durable
<1> QED
  BY <1>1 DEF Init, ServicesInit, Contract!Init

\* A step that leaves the topic and the group alone writes, or stutters.
LEMMA ContractWrite ==
    ASSUME TypeInv, WholeInv, [Next]_vars, UNCHANGED <<log, committed>>
    PROVE  Contract!Write
<1>1. PICK rows \in Seq(Row) :
          /\ Whole(rows)
          /\ UNCHANGED table \/ table' = Append(table, rows)
  BY AppendsAreFlushes
<1>2. Durable \subseteq Durable' /\ Durable' \subseteq Durable \cup Range(rows)
  BY <1>1, TableGrows, DurableAppend DEF Durable
<1>3. \A r \in Durable' \ Durable :
          \E p \in Partitions : \E o \in 0..(Len(log[p]) - 1) : r \in Contract!Rows(p, o)
  <2> SUFFICES ASSUME NEW r \in Range(rows)
               PROVE  \E p \in Partitions : \E o \in 0..(Len(log[p]) - 1) :
                          r \in Contract!Rows(p, o)
    BY <1>2
  <2>1. /\ r.kafka_partition \in Partitions
        /\ r.kafka_offset \in 0..(Len(log[r.kafka_partition]) - 1)
        /\ r \in RowsAt(r.kafka_partition, r.kafka_offset)
    BY <1>1 DEF Whole, Offsets
  <2> QED
    BY <2>1, RowsOfContract
<1> QED
  BY <1>2, <1>3 DEF Contract!Write

\* commit() acknowledges offsets below which all is durable, and writes nothing.
LEMMA ContractAcknowledge ==
    ASSUME OffsetReset = "earliest", TypeInv, OrderInv, DurableInv,
           CommitReturns \/ CommitRaises
    PROVE  Contract!Acknowledge
<1>1. pc = "commit" /\ UNCHANGED <<log, table>>
  BY DEF CommitReturns, CommitRaises
<1>2. /\ committed' \in [Partitions -> Nat]
      /\ \A p \in Partitions : committed'[p] <= Len(log[p])
  BY CommitEffect
<1>3. \A p \in Partitions : committed'[p] \in {committed[p], inflight[p]}
                            /\ (inflight[p] = 0 => committed'[p] = committed[p])
  BY CommitEffect
<1>4. \A p \in Partitions : committed[p] <= committed'[p]
  BY <1>1, <1>3, OrderTypes DEF OrderInv, InFlightInOrder
<1>5. ASSUME NEW p \in Partitions, NEW o \in 0..(committed'[p] - 1)
      PROVE  Contract!Rows(p, o) \subseteq Durable
  <2>1. RowsAt(p, o) \subseteq Durable
    BY <1>1, <1>3 DEF DurableInv, AckedRowsDurable, InFlightDurable
  <2> QED
    BY <2>1, RowsOfContract
<1>6. Durable' = Durable
  BY <1>1 DEF Durable
<1> QED
  BY <1>1, <1>2, <1>4, <1>5, <1>6 DEF Contract!Acknowledge, Contract!Cover

\* Every step of the consumer is one of the contract's, or a stutter.
LEMMA ContractNext ==
    ASSUME OffsetReset = "earliest", TypeInv, OrderInv, DurableInv, WholeInv, [Next]_vars
    PROVE  [Contract!Next]_Contract!vars
<1>1. CASE Publish
  <2>1. UNCHANGED <<committed, table>>
    BY <1>1 DEF Publish, PublishTo
  <2>2. Durable' = Durable
    BY <2>1 DEF Durable
  <2> QED
    BY <1>1, <2>1, <2>2 DEF Publish, PublishTo, Contract!Publish, Contract!Next
<1>2. CASE CommitReturns \/ CommitRaises
  BY <1>2, ContractAcknowledge DEF Contract!Next
<1>3. CASE ~(Publish \/ CommitReturns \/ CommitRaises)
  <2>1. UNCHANGED <<log, committed>>
    BY <1>3 DEF Next, Process, OtherWriter, ForeignSnapshot, Elapse, Interrupt, Crash,
                OpenRaises, Start, OpenReturns, PollRecord, PollNothing, PollFatal,
                LeaveInterrupted, Tick, SkipMessage, RaiseFromLoop, DispatchMessage,
                Close, serviceVars, vars
  <2> QED
    BY <2>1, ContractWrite DEF Contract!Next
<1> QED
  BY <1>1, <1>2, <1>3

\* The consumer with its sink is an at-least-once delivery from the topic into
\* the table: every step publishes, writes, acknowledges or changes nothing
\* the contract speaks of.
THEOREM ConsumerImplementsDelivery ==
    ASSUME OffsetReset = "earliest"
    PROVE  Spec => ImplementsDelivery
<1>1. TypeInv /\ OrderInv /\ DurableInv /\ WholeInv /\ [Next]_vars
          => [Contract!Next]_Contract!vars
  BY ContractNext
<1>2. Spec => []WholeInv
  BY TypeInit, TypeNext, WholeInit, WholeNext, PTL DEF Spec
<1> QED
  BY <1>1, <1>2, ContractInit, DurableAlways, PTL DEF Spec, ImplementsDelivery, Contract!Spec
=============================================================================
