------------------------------ MODULE Services ------------------------------
(***************************************************************************)
(* The two services the consumer stands between, as its code uses them:    *)
(* the Kafka-compatible event broker (one topic, one consumer group) and   *)
(* the Iceberg catalog with its table.  Both are external to the           *)
(* repository; what they may answer is what s3events/sinks/iceberg.py and  *)
(* s3_event_consumer.py are written to survive.                            *)
(*                                                                         *)
(* A message is abstracted to its payload kind: the code tells apart       *)
(* payloads that are not JSON (skipped), payloads on which flatten_event   *)
(* raises, payloads whose rows PyArrow refuses, and good payloads of one   *)
(* or more S3 records.                                                     *)
(***************************************************************************)
EXTENDS Integers, Sequences, FiniteSets, Functions

CONSTANTS
    Partitions,     \* the partitions of the one subscribed topic
    Payloads,       \* the kinds of message a producer can publish
    RowCount,       \* RowCount[k]: rows flatten_event makes of a payload
    Undecodable,    \* payloads decode_message skips: no value, or not JSON
    Raising,        \* payloads on which flatten_event raises
    Unwritable,     \* payloads with a row pa.Table.from_pylist refuses
    OffsetReset,    \* auto.offset.reset of the operator's kafka_config
    Faults,         \* the kinds of fault that may happen
    MaxFaults,      \* bound: how many faults happen in a behaviour
    MaxMessages     \* bound: how many messages are published

\* What the repository guarantees about payloads: a skipped message has no
\* rows, and flatten_event makes at least one row of any other.
ASSUME ServicesAssumption ==
    /\ RowCount \in [Payloads -> Nat]
    /\ Undecodable \subseteq Payloads
    /\ Raising \subseteq Payloads
    /\ Unwritable \subseteq Payloads
    /\ \A k \in Payloads : RowCount[k] = 0 <=> k \in Undecodable
    /\ OffsetReset \in {"earliest", "latest"}
    /\ MaxFaults \in Nat
    /\ MaxMessages \in Nat

VARIABLES
    log,            \* log[p]: the messages of partition p, oldest first
    committed,      \* committed[p]: the group's committed offset, 0 when none
    table,          \* the table's appends, one per snapshot, each a sequence of rows
    stale,          \* the sink's table handle is behind the table's metadata
    faults          \* how many more faults may happen

serviceVars == <<log, committed, table, stale, faults>>

Row == [kafka_partition : Partitions, kafka_offset : Nat, record_index : Nat]

\* Offsets of partition p that hold a message.
Offsets(p) == 0..(Len(log[p]) - 1)

Payload(p, o) == log[p][o + 1]

\* The rows flatten_event returns for one message, in order.  Every row
\* carries the coordinates of its message.
FlattenedRows(p, o) ==
    [i \in 1..RowCount[Payload(p, o)] |->
        [kafka_partition |-> p, kafka_offset |-> o, record_index |-> i]]

RowsAt(p, o) == Range(FlattenedRows(p, o))

\* The rows a reader of the table finds.
Durable == UNION { Range(table[i]) : i \in DOMAIN table }

ServicesInit ==
    /\ log = [p \in Partitions |-> <<>>]
    /\ committed = [p \in Partitions |-> 0]
    /\ table = <<>>
    /\ stale = FALSE
    /\ faults = MaxFaults

\* One fault of the given kind happens, if the behaviour still has one left.
Fault(kind) ==
    /\ kind \in Faults
    /\ faults > 0
    /\ faults' = faults - 1

Published == UNION { {p} \X Offsets(p) : p \in Partitions }

\* A producer publishes one message to one partition.
PublishTo(p, k) ==
    /\ Cardinality(Published) < MaxMessages
    /\ log' = [log EXCEPT ![p] = Append(@, k)]
    /\ UNCHANGED <<committed, table, stale, faults>>

\* Another writer of the table (maintenance, another job) commits a snapshot:
\* the handle the sink holds no longer describes the current table.
ForeignSnapshot ==
    /\ Fault("foreign")
    /\ stale' = TRUE
    /\ UNCHANGED <<log, committed, table>>

\* Where a new member of the group starts reading.
StartOffset(p) ==
    IF committed[p] > 0 THEN committed[p]
    ELSE IF OffsetReset = "earliest" THEN 0 ELSE Len(log[p])

\* Kafka records the given offsets; 0 stands for a partition not in the request.
Acknowledged(offsets) ==
    [p \in Partitions |-> IF offsets[p] > 0 THEN offsets[p] ELSE committed[p]]

\* Kafka records the offsets of some of the partitions in the request, perhaps of
\* none or all: what a commit leaves that fails, or that returns errors of single
\* partitions, which nobody looks at.
PartlyAcknowledged(offsets) ==
    { [p \in Partitions |-> IF p \in recorded THEN Acknowledged(offsets)[p] ELSE committed[p]] :
        recorded \in SUBSET Partitions }
=============================================================================
