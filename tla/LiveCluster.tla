---------------------------- MODULE LiveCluster ----------------------------
(***************************************************************************)
(* The collectors of the dashboard (LiveCluster in scripts/demo_watch.py). *)
(* sample() submits one job per layer to a pool of threads and waits for   *)
(* the answers in turn, each with a timeout.  A job whose answer nobody    *)
(* waits for any more is not cancelled: it keeps its thread, or its place  *)
(* in the pool's queue, and what it does to the table handle.              *)
(*                                                                         *)
(* A service that is up answers a call well before the timeout; one that   *)
(* is down raises or says nothing for as long as it is down.  The services *)
(* and the pipeline they report on are the environment.                    *)
(***************************************************************************)
EXTENDS Integers, Sequences, FiniteSets, Functions

CONSTANTS
    Layers,         \* the layers in the order sample() submits their collectors
    MaxWorkers,     \* max_workers of the pool
    MaxQueue,       \* bound: jobs waiting in the pool
    MaxVersions,    \* bound: metadata versions of the table
    MaxOutages      \* bound: how often a service goes down

ASSUME ClusterAssumption ==
    /\ Layers \in Seq(STRING)
    /\ Cardinality(Range(Layers)) = Len(Layers)
    /\ "none" \notin Range(Layers)      \* what an idle thread works for
    /\ MaxWorkers \in Nat \ {0}
    /\ MaxQueue \in Nat
    /\ MaxVersions \in Nat
    /\ MaxOutages \in Nat

VARIABLES
    up,             \* the layers whose service answers
    outages,        \* how many more times a service may go down
    version,        \* the table's metadata: 0 none, n + 1 after n appends
    workers,        \* what each thread of the pool is doing
    queue,          \* the jobs no thread has taken yet
    tables,         \* the metadata in each table object loaded from the catalog
    handle,         \* _table: the table object in use, or None
    pc,             \* what the main thread is doing
    awaiting,       \* the future sample() waits for
    futures,        \* futures[l]: what became of this sample's collector of l
    reading,        \* what this sample's collectors have read
    wasDown,        \* history: the layers that were down at some time in this sample
    leftOver,       \* history: jobs of earlier samples not done when it began
    floor           \* history: version when it began

environment == <<up, outages, version>>
pool == <<workers, queue, tables, handle>>
main == <<pc, awaiting, futures, reading, wasDown, leftOver, floor>>
clusterVars == <<environment, pool, main>>

\* Mutant: one thread fewer than collectors.
FewerWorkers == 1..(MaxWorkers - 1)

Workers == 1..MaxWorkers

\* Table objects: one per thread at most, and the one in use.
Objects == 1..(MaxWorkers + 1)
None == 0

Unknown == -1       \* a field of the sample that stays None
Blank == [rows |-> Unknown, snapshots |-> Unknown]

\* A job that runs: fresh if it belongs to the current sample, what it has been
\* answered, the table object it holds, and the snapshots it has counted.
Job(layer, fresh, table) ==
    [layer |-> layer, fresh |-> fresh, stage |-> "call",
     table |-> table, answer |-> 0, snapshots |-> 0]

Free == [layer |-> "none", fresh |-> FALSE, stage |-> "free",
         table |-> None, answer |-> 0, snapshots |-> 0]

ClusterInit ==
    /\ up = Range(Layers)
    /\ outages = MaxOutages
    /\ version = 0
    /\ workers = [w \in Workers |-> Free]
    /\ queue = <<>>
    /\ tables = [o \in Objects |-> 0]
    /\ handle = None
    /\ pc = "starting"
    /\ awaiting = 1
    /\ futures = [l \in Range(Layers) |-> "pending"]
    /\ reading = Blank
    /\ wasDown = {}
    /\ leftOver = 0
    /\ floor = 0

(***************************************************************************)
(* The environment.                                                        *)
(***************************************************************************)
GoesDown(l) ==
    /\ l \in up
    /\ outages > 0
    /\ pc \notin {"closing", "exited"}
    /\ outages' = outages - 1
    /\ up' = up \ {l}
    /\ wasDown' = IF pc = "collecting" THEN wasDown \cup {l} ELSE wasDown
    /\ UNCHANGED <<version, pool>>
    /\ UNCHANGED <<pc, awaiting, futures, reading, leftOver, floor>>

ComesUp(l) ==
    /\ l \in Range(Layers) \ up
    /\ up' = up \cup {l}
    /\ UNCHANGED <<outages, version, pool, main>>

\* The consumer creates the table, or appends to it.
TableMoves ==
    /\ pc \notin {"closing", "exited"}
    /\ version < MaxVersions
    /\ version' = version + 1
    /\ UNCHANGED <<up, outages, pool, main>>

(***************************************************************************)
(* sample(): submit the collectors, wait for each, hand over the sample.   *)
(***************************************************************************)
Busy == { w \in Workers : workers[w] # Free }

BeginSample ==
    /\ Len(queue) + Len(Layers) <= MaxQueue
    /\ pc' = "collecting"
    /\ awaiting' = 1
    /\ futures' = [l \in Range(Layers) |-> "pending"]
    /\ reading' = Blank
    /\ workers' = [w \in Workers |-> [workers[w] EXCEPT !.fresh = FALSE]]
    /\ queue' = [i \in DOMAIN queue |-> [queue[i] EXCEPT !.fresh = FALSE]]
                    \o [i \in DOMAIN Layers |-> [layer |-> Layers[i], fresh |-> TRUE]]
    /\ wasDown' = Range(Layers) \ up
    /\ leftOver' = Len(queue) + Cardinality(Busy)
    /\ floor' = version
    /\ UNCHANGED <<environment, tables, handle>>

\* The loop over the futures moves on.
NextFuture ==
    /\ IF awaiting = Len(Layers)
       THEN pc' = "showing" /\ UNCHANGED awaiting
       ELSE awaiting' = awaiting + 1 /\ UNCHANGED pc
    /\ UNCHANGED <<environment, pool, wasDown, leftOver, floor>>

\* fut.result() returns or raises.
FutureDone ==
    /\ pc = "collecting"
    /\ futures[Layers[awaiting]] # "pending"
    /\ NextFuture
    /\ UNCHANGED <<futures, reading>>

\* The sample has been drawn; the model does not keep it.
ForgetSample ==
    /\ awaiting' = 1
    /\ futures' = [l \in Range(Layers) |-> "pending"]
    /\ reading' = Blank
    /\ wasDown' = {}
    /\ leftOver' = 0
    /\ floor' = 0
    /\ UNCHANGED environment

\* No thread will come to the job of layer l in time: those of layers that are
\* down hold them all.
Blocked(l) ==
    /\ [layer |-> l, fresh |-> TRUE] \in Range(queue)
    /\ \A w \in Workers : workers[w].layer \in wasDown

\* Mutant: fut.result() without a timeout.
TimeOutNever ==
    /\ pc = "unreachable"
    /\ NextFuture
    /\ UNCHANGED <<futures, reading>>

\* fut.result(timeout) gives up; the layer is left out of the sample.
TimeOut ==
    LET l == Layers[awaiting]
    IN /\ pc = "collecting"
       /\ futures[l] = "pending"
       /\ l \in wasDown \/ Blocked(l)
       /\ futures' = [futures EXCEPT ![l] = "abandoned"]
       /\ NextFuture
       /\ UNCHANGED reading

\* close(): no waiting job is started any more; the running ones go on.
CloseCluster ==
    /\ queue' = <<>>
    /\ workers' = [w \in Workers |-> [workers[w] EXCEPT !.fresh = FALSE]]
    /\ UNCHANGED <<tables, handle>>
    /\ ForgetSample

(***************************************************************************)
(* The pool's threads and the collectors they run.                         *)
(***************************************************************************)
\* A free thread takes the oldest job.  Which thread makes no difference.
Take(w) ==
    /\ queue # <<>>
    /\ workers[w] = Free
    /\ \A v \in 1..(w - 1) : workers[v] # Free
    /\ workers' = [workers EXCEPT ![w] =
            Job(Head(queue).layer, Head(queue).fresh,
                IF Head(queue).layer = "iceberg" THEN handle ELSE None)]
    /\ queue' = Tail(queue)
    /\ UNCHANGED <<environment, tables, handle, main>>

\* Mutant: a thread whose sample is over is not given back.
DoneIfAwaited(w, how, read) ==
    LET job == workers[w]
    IN /\ job.fresh /\ futures[job.layer] = "pending"
       /\ workers' = [workers EXCEPT ![w] = Free]
       /\ futures' = [futures EXCEPT ![job.layer] = how]
       /\ reading' = read
       /\ UNCHANGED <<environment, queue, tables, handle>>
       /\ UNCHANGED <<pc, awaiting, wasDown, leftOver, floor>>

\* The collector ends.  Its result is part of the sample if sample() has not
\* given up on it; in any case the thread is free again.
Done(w, how, read) ==
    LET job == workers[w]
        wanted == job.fresh /\ futures[job.layer] = "pending"
    IN /\ workers' = [workers EXCEPT ![w] = Free]
       /\ futures' = IF wanted THEN [futures EXCEPT ![job.layer] = how] ELSE futures
       /\ reading' = IF wanted THEN read ELSE reading
       /\ UNCHANGED <<environment, queue, tables, handle>>
       /\ UNCHANGED <<pc, awaiting, wasDown, leftOver, floor>>

Continue(w, job) ==
    /\ workers' = [workers EXCEPT ![w] = job]
    /\ UNCHANGED <<environment, queue, main>>

Answers(w, layer, stage) ==
    /\ workers[w].layer = layer
    /\ workers[w].stage = stage
    /\ layer \in up

\* The collectors whose first call is the last: the two S3 listings, and the
\* Iceberg one as long as there is no table.
OneCall(w) ==
    /\ \E l \in {"source", "warehouse", "iceberg"} :
        /\ Answers(w, l, "call")
        /\ l = "iceberg" => version = 0
    /\ Done(w, "answered", reading)

\* _collect_kafka, first half: the metadata and the watermarks of the topic.
Watermarks(w) ==
    /\ Answers(w, "kafka", "call")
    /\ Continue(w, [workers[w] EXCEPT !.stage = "watermarks"])
    /\ UNCHANGED <<tables, handle>>

\* Second half: the group's offsets.  An Admin call that fails costs the lag
\* and nothing else.
GroupOffsets(w) ==
    /\ Answers(w, "kafka", "watermarks")
    /\ Done(w, "answered", reading)

GroupOffsetsFail(w) ==
    /\ workers[w].layer = "kafka" /\ workers[w].stage = "watermarks" /\ "kafka" \notin up
    /\ Done(w, "answered", reading)

\* _collect_iceberg: load_table or refresh() is answered.
CatalogAnswers(w) ==
    /\ Answers(w, "iceberg", "call")
    /\ version > 0
    /\ Continue(w, [workers[w] EXCEPT !.stage = "answered", !.answer = version])
    /\ UNCHANGED <<tables, handle>>

\* An object neither _table nor another thread refers to.
NewObject == CHOOSE o \in Objects : o # handle /\ \A w \in Workers : workers[w].table # o

\* Only objects somebody refers to keep their metadata in the model.
Loaded(o, metadata, w) ==
    [x \in Objects |-> CASE x = o -> metadata
                         [] x # o /\ \E v \in Workers \ {w} : workers[v].table = x -> tables[x]
                         [] OTHER -> 0]

\* Mutant: once loaded, the table is not refreshed.
InstallFirst(w) ==
    /\ workers[w].stage = "answered"
    /\ LET o == IF workers[w].table = None THEN NewObject ELSE workers[w].table
       IN /\ tables' = IF workers[w].table = None
                       THEN Loaded(o, workers[w].answer, w) ELSE tables
          /\ handle' = o
    /\ Continue(w, [workers[w] EXCEPT !.stage = "installed", !.table = None, !.answer = 0])

\* A refresh changes the object in place, whoever else reads it; a load makes a
\* new one.  Either becomes _table.
Install(w) ==
    /\ workers[w].stage = "answered"
    /\ LET o == IF workers[w].table = None THEN NewObject ELSE workers[w].table
       IN /\ tables' = Loaded(o, workers[w].answer, w)
          /\ handle' = o
    /\ Continue(w, [workers[w] EXCEPT !.stage = "installed", !.table = None, !.answer = 0])

\* iceberg_metrics_from_table(self._table): the snapshots are listed first, the
\* current one is looked up in the same object afterwards.
CountSnapshots(w) ==
    /\ workers[w].stage = "installed"
    /\ Continue(w, [workers[w] EXCEPT !.stage = "counted", !.table = handle,
                                      !.snapshots = tables[handle] - 1])
    /\ UNCHANGED <<tables, handle>>

CurrentSnapshot(w) ==
    /\ workers[w].stage = "counted"
    /\ Done(w, "answered", [reading EXCEPT !.snapshots = workers[w].snapshots,
                                           !.rows = tables[workers[w].table] - 1])

\* A call raises: a failed refresh() is followed by load_table, any other
\* exception is the future's.
CallRaises(w) ==
    /\ workers[w].stage = "call"
    /\ workers[w].layer \notin up
    /\ IF workers[w].table # None
       THEN /\ Continue(w, [workers[w] EXCEPT !.table = None])
            /\ UNCHANGED <<tables, handle>>
       ELSE Done(w, "raised", reading)

\* What a thread does when the services let it.
Work(w) ==
    \/ Take(w)
    \/ OneCall(w)
    \/ Watermarks(w)
    \/ GroupOffsets(w)
    \/ CatalogAnswers(w)
    \/ Install(w)
    \/ CountSnapshots(w)
    \/ CurrentSnapshot(w)

Environment ==
    \/ \E l \in Range(Layers) : GoesDown(l) \/ ComesUp(l)
    \/ TableMoves
    \/ \E w \in Workers : GroupOffsetsFail(w) \/ CallRaises(w)

Await == FutureDone \/ TimeOut
=============================================================================
