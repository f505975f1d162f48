------------------------- MODULE ConsumerProperties -------------------------
(***************************************************************************)
(* What the consumer with its Iceberg sink promises.                       *)
(***************************************************************************)
EXTENDS Consumer

PCs == {"down", "opening", "polling", "tick", "handle", "commit", "closing"}

\* Type correctness of the services, the sink and the process.
TypeOK ==
    /\ log \in [Partitions -> Seq(Payloads)]
    /\ committed \in [Partitions -> Nat]
    /\ table \in Seq(Seq(Row))
    /\ stale \in BOOLEAN
    /\ faults \in Nat
    /\ SinkTypeOK
    /\ pc \in PCs
    /\ resume \in {"polling", "handle", "down"}
    /\ polled \in [kind : {"record"}, partition : Partitions, offset : Nat]
                    \cup {Nothing, FatalError}
    /\ position \in [Partitions -> Nat]
    /\ interrupted \in BOOLEAN
    /\ cause \in {"none", "interrupt", "sinkFatal", "kafkaFatal", "raised"}
    /\ exit \in {"none", "clean", "error", "killed"}

Running == pc \notin {"down", "opening"}

InHand == IF Holding THEN RowsAt(polled.partition, polled.offset) ELSE {}

\* At-least-once: an acknowledged offset has every row below it in the table
\* (make_offset_committer is called by flush() only after the append).  With
\* auto.offset.reset "latest" a new group skips what it did not ask for.
AckedRowsDurable ==
    OffsetReset = "earliest" =>
        \A p \in Partitions : \A o \in 0..(committed[p] - 1) :
            RowsAt(p, o) \subseteq Durable

\* Nothing read is dropped by a running process: each row below the read
\* position is in the table, in the buffer, or in the message being handled.
NothingLost ==
    OffsetReset = "earliest" /\ Running =>
        \A p \in Partitions : \A o \in 0..(position[p] - 1) :
            RowsAt(p, o) \subseteq Durable \cup Range(buffer) \cup InHand

\* The offsets waiting to be committed are those of the buffered rows: the
\* highest one of each partition, and none for a partition without rows.
PendingMatchesBuffer ==
    \A p \in Partitions :
        LET offsets == { r.kafka_offset :
                            r \in { s \in Range(buffer) : s.kafka_partition = p } }
        IN IF offsets = {} THEN pending[p] = NoOffset
           ELSE pending[p] \in offsets /\ \A o \in offsets : o <= pending[p]

\* Buffered rows are replayable: a run that started now would read them again
\* (flush(): offsets never committed "remain replayable from Kafka if the
\* process ultimately gives up").
BufferedRowsReplayable ==
    \A r \in Range(buffer) : StartOffset(r.kafka_partition) <= r.kafka_offset

\* Exit status 0 means everything the process read is in the table.
CleanExitMeansWritten ==
    OffsetReset = "earliest" /\ pc = "down" /\ exit = "clean" =>
        \A p \in Partitions : \A o \in 0..(position[p] - 1) :
            RowsAt(p, o) \subseteq Durable

\* A process that is out of attempts, or at its memory limit, is on its way
\* out: it never polls another message.
GivingUpStops ==
    failures >= MaxFlushAttempts \/ Len(buffer) >= MaxBuffered =>
        pc = "closing" /\ cause # "interrupt"

\* A message's rows land together: no snapshot holds part of a message.
MessagesLandWhole ==
    \A i \in DOMAIN table : \A r \in Range(table[i]) :
        RowsAt(r.kafka_partition, r.kafka_offset) \subseteq Range(table[i])

\* Each row is in the table once.  Expected only while no process is killed
\* and no answer of a service is lost.
NoDuplicates ==
    /\ \A i \in DOMAIN table : Cardinality(Range(table[i])) = Len(table[i])
    /\ \A i, j \in DOMAIN table : i # j => Range(table[i]) \cap Range(table[j]) = {}

\* The committed offset of a partition never moves back, over crashes and
\* failed commits alike.
CommittedNeverRegresses ==
    [][\A p \in Partitions : committed[p] <= committed'[p]]_vars

\* The process is not given up lightly: out of attempts means that as many
\* calls failed.  A foreign snapshot costs one retry on reloaded metadata, not
\* a string of conflicts on a handle that stays out of date.
GivingUpIsEarned ==
    pc = "closing" /\ cause = "sinkFatal" /\ Len(buffer) < MaxBuffered =>
        MaxFaults - faults >= MaxFlushAttempts

\* No append is tried before the deadline of the last failure, whether the
\* caller is tick() or a filling batch in handle(); only shutdown may.
BackoffHonoured ==
    [][table' # table \/ failures' > failures =>
            failures = 0 \/ backoffLeft = 0 \/ pc = "closing"]_vars

\* The abstract contract, implemented.
Contract == INSTANCE Delivery WITH durable <- Durable, acked <- committed

\* Every behaviour of the consumer is one of the contract's.
ImplementsDelivery == Contract!Spec

(***************************************************************************)
(* Statements of the documentation that need not hold.                     *)
(***************************************************************************)
\* A sink that gives up makes the process stop "without committing Kafka
\* offsets" (SinkFatalError).
GivingUpCommitsNothing == [][cause = "sinkFatal" => committed' = committed]_vars

\* When the process exits with rows unwritten, "they remain on the topic and
\* will be reprocessed on the next run" (close()): the next run starts at or
\* before them.
UnwrittenRowsReplayable ==
    [][pc = "closing" /\ pc' = "down" /\ exit' = "error" => BufferedRowsReplayable]_vars

(***************************************************************************)
(* Liveness.  The process runs on its own thread and every call it makes   *)
(* ends; time passes; poll() cannot for ever return nothing while a record *)
(* is there to be fetched; and whoever operates the consumer starts it     *)
(* again.  Nothing is assumed of producers, faults or Ctrl-C.              *)
(***************************************************************************)
Fairness ==
    /\ WF_vars(Process)
    /\ \A p \in Partitions : SF_vars(PollRecord(p))
    /\ WF_vars(Elapse)
    /\ WF_vars(Start)

FairSpec == Spec /\ Fairness

Written(p, o) == o < Len(log[p]) /\ RowsAt(p, o) \subseteq Durable

\* Once the faults are over, every published message reaches the table, also
\* when the topic goes quiet with a batch half full.
EventuallyWritten ==
    \A p \in Partitions : \A o \in 0..(MaxMessages - 1) :
        o < Len(log[p]) ~> Written(p, o)

\* Ctrl-C ends the process, whatever state the sink is in.
InterruptStops == interrupted ~> pc = "down"
=============================================================================
