------------------------------ MODULE Delivery ------------------------------
(***************************************************************************)
(* The abstract contract of the consumer with its Iceberg sink: at-least-  *)
(* once delivery from a partitioned log into a table.  Three pieces of     *)
(* state matter to an operator: what is on the topic, which rows are       *)
(* durable, and what the consumer group has acknowledged.  The contract    *)
(* says how they may change, and nothing about buffers, retries or         *)
(* processes: rows become durable in steps that acknowledge nothing, and   *)
(* an offset is acknowledged only when every row below it is durable.      *)
(***************************************************************************)
EXTENDS Integers, Sequences

CONSTANTS
    Partitions,     \* the partitions of the one subscribed topic
    Payloads,       \* the kinds of message a producer can publish
    RowCount        \* how many table rows a message of each kind becomes

VARIABLES
    log,            \* log[p]: the messages of partition p, oldest first
    durable,        \* the set of rows in the table
    acked           \* acked[p]: the group's committed offset, 0 when none

vars == <<log, durable, acked>>

\* The rows the message at offset o of partition p stands for.
Rows(p, o) ==
    { [kafka_partition |-> p, kafka_offset |-> o, record_index |-> i] :
        i \in 1..RowCount[log[p][o + 1]] }

Init ==
    /\ log = [p \in Partitions |-> <<>>]
    /\ durable = {}
    /\ acked = [p \in Partitions |-> 0]

\* A producer appends one message to one partition.
Publish ==
    /\ \E p \in Partitions, k \in Payloads :
            log' = [log EXCEPT ![p] = Append(@, k)]
    /\ UNCHANGED <<durable, acked>>

\* The table gains rows of messages that are on the topic; it never loses any.
Write ==
    /\ durable \subseteq durable'
    /\ \A r \in durable' \ durable :
            \E p \in Partitions : \E o \in 0..(Len(log[p]) - 1) : r \in Rows(p, o)
    /\ UNCHANGED <<log, acked>>

\* Offsets stand only over messages whose rows are all durable.
Cover ==
    /\ acked' \in [Partitions -> Nat]
    /\ \A p \in Partitions :
          /\ acked'[p] <= Len(log[p])
          /\ \A o \in 0..(acked'[p] - 1) : Rows(p, o) \subseteq durable
    /\ UNCHANGED <<log, durable>>

\* One process moves them forward.
Acknowledge == Cover /\ \A p \in Partitions : acked[p] <= acked'[p]

Next == Publish \/ Write \/ Acknowledge

Spec == Init /\ [][Next]_vars

\* Several processes that take partitions over from one another may move an
\* offset back, and have its messages written again.
SharedSpec == Init /\ [][Publish \/ Write \/ Cover]_vars
=============================================================================
