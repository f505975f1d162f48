---------------------------- MODULE WatchProofs ----------------------------
(***************************************************************************)
(* Proofs about the dashboard, for every number of layers, threads, table  *)
(* versions and outages, and every batch size of the synthetic pipeline.   *)
(*                                                                         *)
(* SampleInv accounts for the jobs of the pool: at most one job of the     *)
(* current sample per layer, the older ones in front of the queue and no   *)
(* more of them than when the sample began.  HealthyLayersShown follows by *)
(* counting threads.  IcebergInv is what one collector alone makes of the  *)
(* table object; Cascade is the synthetic pipeline's.                      *)
(***************************************************************************)
EXTENDS Watch, SequenceTheorems, FiniteSetTheorems, TLAPS

(***************************************************************************)
(* Types.                                                                  *)
(***************************************************************************)
\* The stages of a job, and "free" for none.
Stages == {"free", "call", "watermarks", "answered", "installed", "counted"}

Jobs == [layer : Range(Layers) \cup {"none"}, fresh : BOOLEAN, stage : Stages,
         table : 0..(MaxWorkers + 1), answer : Nat, snapshots : Int]

Outcomes == {"pending", "answered", "raised", "abandoned"}

Readings == [rows : Int, snapshots : Int]

\* What its stage says of a job: only the Iceberg collector gets past the
\* watermarks, and one that has counted holds a table object.
JobOK(job) ==
    /\ job.stage = "free" => job = Free
    /\ job.stage # "free" => job.layer \in Range(Layers)
    /\ job.stage \in {"answered", "installed", "counted"} => job.layer = "iceberg"
    /\ job.stage = "counted" => job.table # None

\* Types of the pool; _table, once set, stays set.
PoolOK ==
    /\ workers \in [Workers -> Jobs]
    /\ \A w \in Workers : JobOK(workers[w])
    /\ queue \in Seq([layer : Range(Layers), fresh : BOOLEAN])
    /\ tables \in [Objects -> Nat]
    /\ handle \in 0..(MaxWorkers + 1)
    /\ \A w \in Workers : workers[w].stage = "installed" => handle # None

\* Types of the sample and of the environment.
SampleOK ==
    /\ up \subseteq Range(Layers)
    /\ wasDown \subseteq Range(Layers)
    /\ version \in Nat
    /\ floor \in Nat
    /\ leftOver \in Nat
    /\ awaiting \in Nat
    /\ futures \in [Range(Layers) -> Outcomes]
    /\ reading \in Readings

\* A load finds a table object nobody refers to: there is one more of them than
\* threads, and the thread that loads refers to none.
LEMMA NewObjectIsFree ==
  ASSUME PoolOK, NEW w \in Workers, workers[w].table = None
  PROVE  NewObject \in Objects
<1>0. MaxWorkers \in Nat
  BY ClusterAssumption
<1> DEFINE f == [i \in 0..MaxWorkers |-> IF i = 0 THEN handle ELSE workers[i].table]
           S == 0..MaxWorkers
           T == 0..(MaxWorkers + 1)
<1>1. f \in [S -> T]
  <2> SUFFICES ASSUME NEW i \in S, i # 0 PROVE workers[i].table \in T
    BY DEF PoolOK
  <2> QED BY <1>0 DEF PoolOK, Jobs, Workers
<1>2. IsFiniteSet(S) /\ Cardinality(S) = MaxWorkers + 1 /\ Cardinality(T) = MaxWorkers + 2
  BY <1>0, FS_Interval
<1>3. PICK o \in T : \A i \in S : f[i] # o
  <2>1. f \notin Surjection(S, T)
    <3> HIDE DEF f, S, T
    <3> QED BY <1>0, <1>2, FS_Surjection
  <2> HIDE DEF f, S, T
  <2> QED BY <1>1, <2>1 DEF Surjection
<1>4. o # handle /\ \A v \in Workers : workers[v].table # o
  <2>1. 0 \in S /\ \A v \in Workers : v \in S /\ v # 0
    BY <1>0 DEF Workers
  <2> QED BY <1>3, <2>1
<1>5. o # None
  BY <1>4
<1>6. o \in Objects
  BY <1>0, <1>3, <1>5 DEF Objects, None
<1> HIDE DEF f, S, T
<1> QED BY <1>4, <1>6 DEF NewObject

\* A job that waits.
QueuedJobs == [layer : Range(Layers), fresh : BOOLEAN]

\* A thread whose record is replaced by a proper one leaves the pool well typed.
LEMMA ReplaceKeepsPool ==
  ASSUME PoolOK, NEW w \in Workers, NEW job \in Jobs, JobOK(job),
         workers' = [workers EXCEPT ![w] = job],
         queue' \in Seq(QueuedJobs), tables' \in [Objects -> Nat], handle' \in 0..(MaxWorkers + 1),
         job.stage = "installed" => handle' # None,
         handle # None => handle' # None
  PROVE  /\ PoolOK'
         /\ workers'[w] = job
         /\ \A v \in Workers \ {w} : workers'[v] = workers[v]
<1>1. workers' \in [Workers -> Jobs]
  BY DEF PoolOK
<1>2. workers'[w] = job /\ \A v \in Workers \ {w} : workers'[v] = workers[v]
  BY DEF PoolOK
<1>3. \A v \in Workers : JobOK(workers'[v])
  BY <1>2 DEF PoolOK
<1>4. \A v \in Workers : workers'[v].stage = "installed" => handle' # None
  BY <1>2 DEF PoolOK
<1> QED BY <1>1, <1>2, <1>3, <1>4 DEF PoolOK, QueuedJobs

\* How a job goes on: it stays the job of its layer and its sample.
GoesOn(w, job) ==
    /\ Continue(w, job)
    /\ job \in Jobs /\ JobOK(job)
    /\ workers[w].stage # "free" /\ job.stage # "free"
    /\ job.layer = workers[w].layer /\ job.fresh = workers[w].fresh

\* How it ends: raised only by a service that is down.
Ends(w, how, read) ==
    /\ Done(w, how, read)
    /\ workers[w].stage # "free"
    /\ how \in {"answered", "raised"}
    /\ how = "raised" => workers[w].layer \notin up
    /\ read \in Readings

\* The fields of what a thread is doing.
LEMMA JobType ==
  ASSUME PoolOK, NEW w \in Workers
  PROVE  /\ workers[w] \in Jobs /\ JobOK(workers[w])
         /\ workers[w].layer \in Range(Layers) \cup {"none"} /\ workers[w].fresh \in BOOLEAN
         /\ workers[w].stage \in Stages /\ workers[w].table \in 0..(MaxWorkers + 1)
         /\ workers[w].answer \in Nat /\ workers[w].snapshots \in Int
BY DEF PoolOK, Jobs

\* The actions that end a job: the single calls,
LEMMA OneCallEnds ==
  ASSUME PoolOK, SampleOK, NEW w \in Workers, OneCall(w)
  PROVE  Ends(w, "answered", reading)
BY DEF OneCall, Ends, Answers, SampleOK

\* the group's offsets, had or not,
LEMMA GroupOffsetsEnds ==
  ASSUME PoolOK, SampleOK, NEW w \in Workers, GroupOffsets(w) \/ GroupOffsetsFail(w)
  PROVE  Ends(w, "answered", reading)
BY DEF GroupOffsets, GroupOffsetsFail, Ends, Answers, SampleOK

\* The actions that take a job further: the watermarks,
LEMMA WatermarksGoesOn ==
  ASSUME PoolOK, NEW w \in Workers, Watermarks(w)
  PROVE  GoesOn(w, [workers[w] EXCEPT !.stage = "watermarks"])
<1> DEFINE job == [workers[w] EXCEPT !.stage = "watermarks"]
<1>1. workers[w] \in Jobs /\ JobOK(workers[w])
  BY JobType
<1>2. job \in Jobs
  BY <1>1 DEF Jobs, Stages
<1>3. /\ job.layer = workers[w].layer /\ job.fresh = workers[w].fresh
      /\ job.stage = "watermarks" /\ workers[w].stage = "call"
  BY <1>1 DEF Jobs, Watermarks, Answers
<1>4. JobOK(job)
  BY <1>1, <1>3 DEF JobOK
<1> QED BY <1>2, <1>3, <1>4 DEF GoesOn, Watermarks

\* the catalog's answer,
LEMMA CatalogAnswersGoesOn ==
  ASSUME PoolOK, SampleOK, NEW w \in Workers, CatalogAnswers(w)
  PROVE  GoesOn(w, [workers[w] EXCEPT !.stage = "answered", !.answer = version])
<1> DEFINE job == [workers[w] EXCEPT !.stage = "answered", !.answer = version]
<1>1. workers[w] \in Jobs /\ JobOK(workers[w]) /\ version \in Nat
  BY JobType DEF SampleOK
<1>2. job \in Jobs
  BY <1>1 DEF Jobs, Stages
<1>3. /\ job.layer = workers[w].layer /\ job.fresh = workers[w].fresh
      /\ job.stage = "answered" /\ workers[w].stage = "call" /\ workers[w].layer = "iceberg"
  BY <1>1 DEF Jobs, CatalogAnswers, Answers
<1>4. JobOK(job)
  BY <1>1, <1>3 DEF JobOK
<1> QED BY <1>2, <1>3, <1>4 DEF GoesOn, CatalogAnswers

\* the table object that becomes _table and bears the answer's metadata,
LEMMA InstallGoesOn ==
  ASSUME PoolOK, NEW w \in Workers, Install(w)
  PROVE  /\ GoesOn(w, [workers[w] EXCEPT !.stage = "installed", !.table = None, !.answer = 0])
         /\ handle' \in Objects /\ tables' \in [Objects -> Nat]
         /\ tables'[handle'] = workers[w].answer
<1> DEFINE job == [workers[w] EXCEPT !.stage = "installed", !.table = None, !.answer = 0]
           o == IF workers[w].table = None THEN NewObject ELSE workers[w].table
<1>0. MaxWorkers \in Nat
  BY ClusterAssumption
<1>1. /\ workers[w] \in Jobs /\ JobOK(workers[w]) /\ workers[w].answer \in Nat
      /\ workers[w].table \in 0..(MaxWorkers + 1)
  BY JobType
<1>2. job \in Jobs
  <2>1. 0 \in 0..(MaxWorkers + 1)
    BY <1>0
  <2> QED BY <1>1, <2>1 DEF Jobs, Stages, None
<1>3. /\ job.layer = workers[w].layer /\ job.fresh = workers[w].fresh
      /\ job.stage = "installed" /\ workers[w].stage = "answered"
  BY <1>1 DEF Jobs, Install
<1>4. JobOK(job)
  BY <1>1, <1>3 DEF JobOK
<1>5. o \in Objects
  <2>1. CASE workers[w].table = None
    BY <2>1, NewObjectIsFree
  <2>2. CASE workers[w].table # None
    BY <1>0, <1>1, <2>2 DEF Objects, None
  <2> QED BY <2>1, <2>2
<1>6. tables' = Loaded(o, workers[w].answer, w) /\ handle' = o
  BY DEF Install
<1>7. tables \in [Objects -> Nat]
  BY DEF PoolOK
<1> HIDE DEF o
<1>8. tables' \in [Objects -> Nat] /\ tables'[o] = workers[w].answer
  BY <1>1, <1>5, <1>6, <1>7 DEF Loaded
<1> QED BY <1>2, <1>3, <1>4, <1>5, <1>6, <1>8 DEF GoesOn, Install

\* the first look at the table.
LEMMA CountGoesOn ==
  ASSUME PoolOK, NEW w \in Workers, CountSnapshots(w)
  PROVE  /\ GoesOn(w, [workers[w] EXCEPT !.stage = "counted", !.table = handle,
                                         !.snapshots = tables[handle] - 1])
         /\ handle \in Objects
<1> DEFINE job == [workers[w] EXCEPT !.stage = "counted", !.table = handle,
                                     !.snapshots = tables[handle] - 1]
<1>0. MaxWorkers \in Nat
  BY ClusterAssumption
<1>1. workers[w] \in Jobs /\ JobOK(workers[w]) /\ workers[w].stage = "installed"
  BY JobType DEF CountSnapshots
<1>2. handle \in 0..(MaxWorkers + 1) /\ handle # None
  BY <1>1 DEF PoolOK
<1>3. handle \in Objects
  BY <1>0, <1>2 DEF Objects, None
<1>4. tables[handle] - 1 \in Int
  BY <1>3 DEF PoolOK
<1>5. job \in Jobs
  BY <1>1, <1>2, <1>4 DEF Jobs, Stages
<1>6. /\ job.layer = workers[w].layer /\ job.fresh = workers[w].fresh
      /\ job.stage = "counted" /\ job.table = handle
  BY <1>1 DEF Jobs
<1>7. JobOK(job)
  BY <1>1, <1>2, <1>6 DEF JobOK
<1> QED BY <1>1, <1>3, <1>5, <1>6, <1>7 DEF GoesOn, CountSnapshots

\* the second look at the table.
LEMMA CurrentEnds ==
  ASSUME PoolOK, SampleOK, NEW w \in Workers, CurrentSnapshot(w)
  PROVE  Ends(w, "answered", [reading EXCEPT !.snapshots = workers[w].snapshots,
                                             !.rows = tables[workers[w].table] - 1])
<1>0. MaxWorkers \in Nat
  BY ClusterAssumption
<1>1. /\ workers[w] \in Jobs /\ JobOK(workers[w]) /\ workers[w].stage = "counted"
      /\ workers[w].table \in 0..(MaxWorkers + 1) /\ workers[w].snapshots \in Int
  BY JobType DEF CurrentSnapshot
<1>2. workers[w].table \in Objects
  BY <1>0, <1>1 DEF JobOK, Objects, None
<1>3. tables[workers[w].table] - 1 \in Int
  BY <1>2 DEF PoolOK
<1>4. reading \in Readings
  BY DEF SampleOK
<1>5. [reading EXCEPT !.snapshots = workers[w].snapshots,
                      !.rows = tables[workers[w].table] - 1] \in Readings
  BY <1>1, <1>3, <1>4 DEF Readings
<1> QED BY <1>1, <1>5 DEF Ends, CurrentSnapshot

\* A call that raises ends the job, or is repeated without the old table object.
LEMMA RaisesEffect ==
  ASSUME PoolOK, SampleOK, NEW w \in Workers, CallRaises(w)
  PROVE  \/ Ends(w, "raised", reading)
         \/ /\ GoesOn(w, [workers[w] EXCEPT !.table = None])
            /\ UNCHANGED <<tables, handle>>
            /\ workers[w].stage = "call"
<1>1. workers[w] \in Jobs /\ JobOK(workers[w]) /\ workers[w].stage = "call"
  BY JobType DEF CallRaises
<1>2. CASE workers[w].table = None
  BY <1>1, <1>2 DEF CallRaises, Ends, SampleOK
<1>3. CASE workers[w].table # None
  <2> DEFINE job == [workers[w] EXCEPT !.table = None]
  <2>1. job \in Jobs
    BY <1>1, ClusterAssumption DEF Jobs, None
  <2>2. /\ job.layer = workers[w].layer /\ job.fresh = workers[w].fresh
        /\ job.stage = "call"
    BY <1>1 DEF Jobs
  <2>3. JobOK(job)
    BY <1>1, <2>2 DEF JobOK
  <2> QED BY <1>1, <1>3, <2>1, <2>2, <2>3 DEF CallRaises, GoesOn
<1> QED BY <1>2, <1>3

(***************************************************************************)
(* The account of the jobs.                                                *)
(***************************************************************************)
\* One job of the current sample per layer, in a thread or in the queue.
OneFreshJob ==
    /\ \A v, w \in Workers :
        workers[v].fresh /\ workers[w].fresh /\ workers[v].layer = workers[w].layer => v = w
    /\ \A i, j \in DOMAIN queue :
        queue[i].fresh /\ queue[j].fresh /\ queue[i].layer = queue[j].layer => i = j
    /\ \A w \in Workers, i \in DOMAIN queue :
        workers[w].fresh /\ queue[i].fresh => workers[w].layer # queue[i].layer

InSample == pc \in {"collecting", "showing"}

\* The threads that work for an earlier sample.
Older == { w \in Workers : workers[w].stage # "free" /\ ~workers[w].fresh }

\* The queue's older jobs come first; with those that run they are no more than
\* the sample found when it began.
OldJobsCounted ==
    InSample => \E k \in 0..Len(queue) :
        /\ \A i \in DOMAIN queue : queue[i].fresh <=> i > k
        /\ Cardinality(Older) + k <= leftOver

\* A layer that is down has been seen to be; the futures the loop has passed are
\* settled, all of them once the sample is shown.
Awaited ==
    /\ pc = "collecting" => /\ Range(Layers) \ up \subseteq wasDown
                            /\ \A i \in 1..Len(Layers) : i < awaiting => futures[Layers[i]] # "pending"
    /\ pc = "showing" => \A l \in Range(Layers) : futures[l] # "pending"

\* HealthyLayersShown while the sample is still being collected.
LayersShown ==
    InSample /\ leftOver + Cardinality(wasDown) < MaxWorkers =>
        \A l \in Range(Layers) \ wasDown : futures[l] \in {"pending", "answered"}

\* There are MaxWorkers threads.
LEMMA WorkersFinite ==
  IsFiniteSet(Workers) /\ Cardinality(Workers) = MaxWorkers
<1>1. MaxWorkers \in Nat /\ MaxWorkers > 0 /\ MaxWorkers - 1 + 1 = MaxWorkers
  BY ClusterAssumption
<1>2. IsFiniteSet(1..MaxWorkers) /\ Cardinality(1..MaxWorkers) = MaxWorkers
  BY <1>1, FS_Interval
<1> QED BY <1>2 DEF Workers

\* How many of them work for an earlier sample is a number, smaller for a subset.
LEMMA OlderFinite ==
  /\ IsFiniteSet(Older) /\ Cardinality(Older) \in Nat
  /\ Older' \subseteq Older => Cardinality(Older') <= Cardinality(Older) /\ Cardinality(Older') \in Nat
<1>1. Older \subseteq Workers /\ Older' \subseteq Workers
  BY DEF Older
<1>2. IsFiniteSet(Older) /\ Cardinality(Older) \in Nat /\ IsFiniteSet(Older') /\ Cardinality(Older') \in Nat
  BY <1>1, WorkersFinite, FS_Subset, FS_CardinalityType
<1>3. ASSUME Older' \subseteq Older PROVE Cardinality(Older') <= Cardinality(Older)
  BY <1>2, <1>3, FS_Subset
<1> QED BY <1>2, <1>3

\* A thread that goes on with its job, or drops it, disturbs no account of the jobs.
LEMMA ReplaceKeepsJobs ==
  ASSUME PoolOK, SampleOK, OneFreshJob, OldJobsCounted,
         NEW w \in Workers, NEW job \in Jobs, workers' = [workers EXCEPT ![w] = job],
         UNCHANGED <<queue, pc, leftOver>>,
         job.fresh => workers[w].fresh /\ job.layer = workers[w].layer,
         job.stage # "free" /\ ~job.fresh => workers[w].stage # "free" /\ ~workers[w].fresh
  PROVE  OneFreshJob' /\ OldJobsCounted'
<1>1. workers'[w] = job /\ \A v \in Workers \ {w} : workers'[v] = workers[v]
  BY DEF PoolOK
<1>2. OneFreshJob'
  <2>1. \A u, v \in Workers : workers'[u].fresh /\ workers'[v].fresh
                              /\ workers'[u].layer = workers'[v].layer => u = v
    BY <1>1 DEF OneFreshJob
  <2>2. \A u \in Workers, i \in DOMAIN queue :
            workers'[u].fresh /\ queue[i].fresh => workers'[u].layer # queue[i].layer
    BY <1>1 DEF OneFreshJob
  <2> QED BY <2>1, <2>2 DEF OneFreshJob
<1>3. OldJobsCounted'
  <2> SUFFICES ASSUME InSample
               PROVE  \E k \in 0..Len(queue) :
                        /\ \A i \in DOMAIN queue : queue[i].fresh <=> i > k
                        /\ Cardinality(Older') + k <= leftOver
    BY DEF OldJobsCounted, InSample
  <2>1. PICK k \in 0..Len(queue) :
            /\ \A i \in DOMAIN queue : queue[i].fresh <=> i > k
            /\ Cardinality(Older) + k <= leftOver
    BY DEF OldJobsCounted
  <2>2. Older' \subseteq Older
    BY <1>1 DEF Older
  <2>3. Cardinality(Older') + k <= leftOver
    BY <2>1, <2>2, OlderFinite DEF SampleOK
  <2> QED BY <2>1, <2>3
<1> QED BY <1>2, <1>3

SampleInv == PoolOK /\ SampleOK /\ OneFreshJob /\ OldJobsCounted /\ Awaited /\ LayersShown

\* A job that goes on preserves the invariant.
LEMMA GoesOnKeeps ==
  ASSUME SampleInv, NEW w \in Workers, NEW job, GoesOn(w, job),
         tables' \in [Objects -> Nat], handle' \in 0..(MaxWorkers + 1),
         job.stage = "installed" => handle' # None,
         handle # None => handle' # None
  PROVE  /\ SampleInv'
         /\ workers'[w] = job
         /\ \A v \in Workers \ {w} : workers'[v] = workers[v]
<1>1. /\ job \in Jobs /\ JobOK(job) /\ workers' = [workers EXCEPT ![w] = job]
      /\ workers[w].stage # "free" /\ job.stage # "free"
      /\ job.layer = workers[w].layer /\ job.fresh = workers[w].fresh
      /\ UNCHANGED <<environment, queue, main>>
  BY DEF GoesOn, Continue
<1>2. queue' \in Seq(QueuedJobs)
  BY <1>1 DEF SampleInv, PoolOK, QueuedJobs
<1>3. /\ PoolOK' /\ workers'[w] = job
      /\ \A v \in Workers \ {w} : workers'[v] = workers[v]
  BY <1>1, <1>2, ReplaceKeepsPool DEF SampleInv
<1>4. OneFreshJob' /\ OldJobsCounted'
  BY <1>1, ReplaceKeepsJobs DEF SampleInv, main
<1>5. SampleOK' /\ Awaited' /\ LayersShown'
  BY <1>1 DEF SampleInv, SampleOK, Awaited, LayersShown, InSample, environment, main
<1> QED BY <1>3, <1>4, <1>5 DEF SampleInv

\* A job that ends does: it raises only for a layer that was down in this sample.
LEMMA EndsKeeps ==
  ASSUME SampleInv, NEW w \in Workers, NEW how, NEW read, Ends(w, how, read)
  PROVE  /\ SampleInv'
         /\ workers'[w] = Free
         /\ \A v \in Workers \ {w} : workers'[v] = workers[v]
<1> DEFINE layer == workers[w].layer
           wanted == workers[w].fresh /\ futures[workers[w].layer] = "pending"
<1>0. MaxWorkers \in Nat
  BY ClusterAssumption
<1>1. /\ workers' = [workers EXCEPT ![w] = Free]
      /\ UNCHANGED <<environment, queue, tables, handle, pc, awaiting, wasDown, leftOver, floor>>
      /\ workers[w].stage # "free" /\ read \in Readings
  BY DEF Ends, Done
<1>a. how \in {"answered", "raised"} /\ (how = "raised" => layer \notin up)
  BY DEF Ends
<1>b. wanted => futures' = [futures EXCEPT ![layer] = how] /\ reading' = read
  BY DEF Ends, Done
<1>c. ~wanted => futures' = futures /\ reading' = reading
  BY DEF Ends, Done
<1>d. wanted => futures[layer] = "pending"
  OBVIOUS
<1>2. layer \in Range(Layers)
  BY <1>1, JobType DEF SampleInv, JobOK
<1> HIDE DEF wanted, layer
<1>3. Free \in Jobs /\ JobOK(Free) /\ ~Free.fresh /\ Free.stage = "free"
  BY <1>0 DEF Free, Jobs, Stages, None, JobOK
<1>4. queue' \in Seq(QueuedJobs) /\ tables' \in [Objects -> Nat] /\ handle' \in 0..(MaxWorkers + 1)
  BY <1>1 DEF SampleInv, PoolOK, QueuedJobs
<1>5. /\ PoolOK' /\ workers'[w] = Free
      /\ \A v \in Workers \ {w} : workers'[v] = workers[v]
  BY <1>1, <1>3, <1>4, ReplaceKeepsPool DEF SampleInv
<1>6. OneFreshJob' /\ OldJobsCounted'
  BY <1>1, <1>3, ReplaceKeepsJobs DEF SampleInv
<1>8. \A l \in Range(Layers) : \/ futures'[l] = futures[l]
                               \/ l = layer /\ wanted /\ futures'[l] = how
  BY <1>2, <1>b, <1>c DEF SampleInv, SampleOK
<1>7. SampleOK'
  <2>1. futures' \in [Range(Layers) -> Outcomes]
    <3>1. futures \in [Range(Layers) -> Outcomes] /\ how \in Outcomes
      BY <1>a DEF SampleInv, SampleOK, Outcomes
    <3> QED BY <3>1, <1>b, <1>c, <1>2
  <2>2. reading' \in Readings
    BY <1>1, <1>b, <1>c DEF SampleInv, SampleOK
  <2> QED BY <1>1, <2>1, <2>2 DEF SampleInv, SampleOK, environment
<1>9. Awaited'
  <2>1. \A l \in Range(Layers) : futures[l] # "pending" => futures'[l] # "pending"
    BY <1>8, <1>a
  <2>2. \A i \in 1..Len(Layers) : Layers[i] \in Range(Layers)
    BY ClusterAssumption DEF Range
  <2> QED BY <1>1, <2>1, <2>2 DEF SampleInv, Awaited, environment
<1>10. LayersShown'
  <2> SUFFICES ASSUME InSample, leftOver + Cardinality(wasDown) < MaxWorkers,
                      NEW l \in Range(Layers) \ wasDown
               PROVE  futures'[l] \in {"pending", "answered"}
    BY <1>1 DEF LayersShown, InSample
  <2>1. futures[l] \in {"pending", "answered"}
    BY DEF SampleInv, LayersShown
  <2>2. CASE l = layer /\ wanted /\ futures'[l] = how
    <3>1. pc = "collecting"
      BY <2>2, <1>d, <1>2 DEF SampleInv, InSample, Awaited
    <3>2. l \in up
      BY <3>1 DEF SampleInv, Awaited
    <3> QED BY <1>a, <2>2, <3>2
  <2> QED BY <1>8, <2>1, <2>2
<1> QED BY <1>5, <1>6, <1>7, <1>9, <1>10 DEF SampleInv

\* A job taken from the queue does: it is the oldest, and moves from one side of
\* the account to the other.
LEMMA TakeKeeps ==
  ASSUME SampleInv, NEW w \in Workers, Take(w)
  PROVE  /\ SampleInv'
         /\ workers'[w].stage = "call"
         /\ \A v \in Workers \ {w} : workers'[v] = workers[v]
<1> DEFINE job == Job(Head(queue).layer, Head(queue).fresh,
                      IF Head(queue).layer = "iceberg" THEN handle ELSE None)
<1>0. MaxWorkers \in Nat
  BY ClusterAssumption
<1>1. /\ queue # <<>> /\ workers[w] = Free
      /\ workers' = [workers EXCEPT ![w] = job] /\ queue' = Tail(queue)
      /\ UNCHANGED <<environment, tables, handle, main>>
  BY DEF Take
<1>2. queue \in Seq(QueuedJobs)
  BY DEF SampleInv, PoolOK, QueuedJobs
<1>3. /\ Len(queue) \in Nat /\ Len(queue) > 0 /\ DOMAIN queue = 1..Len(queue)
      /\ queue' \in Seq(QueuedJobs) /\ Len(queue') = Len(queue) - 1 /\ DOMAIN queue' = 1..Len(queue')
      /\ \A i \in 1..(Len(queue) - 1) : queue'[i] = queue[i + 1]
      /\ Head(queue) = queue[1] /\ queue[1] \in QueuedJobs
  BY <1>1, <1>2, EmptySeq, HeadTailProperties
<1>4. queue[1].layer \in Range(Layers) /\ queue[1].fresh \in BOOLEAN /\ handle \in 0..(MaxWorkers + 1)
      /\ None \in 0..(MaxWorkers + 1)
  BY <1>0, <1>3 DEF QueuedJobs, SampleInv, PoolOK, None
<1>5. /\ job \in Jobs /\ job.stage = "call"
      /\ job.layer = queue[1].layer /\ job.fresh = queue[1].fresh
  BY <1>3, <1>4 DEF Job, Jobs, Stages
<1>6. JobOK(job)
  BY <1>4, <1>5 DEF JobOK
<1> HIDE DEF job
<1>7. /\ PoolOK' /\ workers'[w] = job
      /\ \A v \in Workers \ {w} : workers'[v] = workers[v]
  <2>1. tables' \in [Objects -> Nat] /\ handle' = handle /\ handle' \in 0..(MaxWorkers + 1)
    BY <1>1, <1>4 DEF SampleInv, PoolOK
  <2> QED BY <1>1, <1>3, <1>5, <1>6, <2>1, ReplaceKeepsPool DEF SampleInv
<1>8. OneFreshJob'
  <2>0. 1 \in DOMAIN queue /\ \A i \in DOMAIN queue' : i + 1 \in DOMAIN queue /\ i + 1 # 1 /\ i \in Int
    BY <1>3
  <2>1. \A u, v \in Workers : workers'[u].fresh /\ workers'[v].fresh
                              /\ workers'[u].layer = workers'[v].layer => u = v
    <3> SUFFICES ASSUME NEW u \in Workers, NEW v \in Workers, workers'[u].fresh, workers'[v].fresh,
                        workers'[u].layer = workers'[v].layer, u # v
                 PROVE  FALSE
      OBVIOUS
    <3>1. CASE u # w /\ v # w
      BY <1>7, <3>1 DEF SampleInv, OneFreshJob
    <3>2. CASE u = w
      BY <1>5, <1>7, <2>0, <3>2 DEF SampleInv, OneFreshJob
    <3>3. CASE v = w
      BY <1>5, <1>7, <2>0, <3>3 DEF SampleInv, OneFreshJob
    <3> QED BY <3>1, <3>2, <3>3
  <2>2. \A i, j \in DOMAIN queue' :
            queue'[i].fresh /\ queue'[j].fresh /\ queue'[i].layer = queue'[j].layer => i = j
    <3> SUFFICES ASSUME NEW i \in DOMAIN queue', NEW j \in DOMAIN queue', queue'[i].fresh,
                        queue'[j].fresh, queue'[i].layer = queue'[j].layer
                 PROVE  i = j
      OBVIOUS
    <3>1. queue'[i] = queue[i + 1] /\ queue'[j] = queue[j + 1]
      BY <1>3
    <3>2. i + 1 = j + 1
      BY <2>0, <3>1 DEF SampleInv, OneFreshJob
    <3> QED BY <2>0, <3>2
  <2>3. \A v \in Workers, i \in DOMAIN queue' :
            workers'[v].fresh /\ queue'[i].fresh => workers'[v].layer # queue'[i].layer
    <3> SUFFICES ASSUME NEW v \in Workers, NEW i \in DOMAIN queue', workers'[v].fresh, queue'[i].fresh,
                        workers'[v].layer = queue'[i].layer
                 PROVE  FALSE
      OBVIOUS
    <3>1. queue'[i] = queue[i + 1]
      BY <1>3
    <3>2. CASE v = w
      BY <1>5, <1>7, <2>0, <3>1, <3>2 DEF SampleInv, OneFreshJob
    <3>3. CASE v # w
      BY <1>7, <2>0, <3>1, <3>3 DEF SampleInv, OneFreshJob
    <3> QED BY <3>2, <3>3
  <2> QED BY <2>1, <2>2, <2>3 DEF OneFreshJob
<1>9. OldJobsCounted'
  <2> SUFFICES ASSUME InSample
               PROVE  \E k \in 0..Len(queue') :
                        /\ \A i \in DOMAIN queue' : queue'[i].fresh <=> i > k
                        /\ Cardinality(Older') + k <= leftOver
    BY <1>1 DEF OldJobsCounted, InSample, main
  <2>1. PICK k \in 0..Len(queue) :
            /\ \A i \in DOMAIN queue : queue[i].fresh <=> i > k
            /\ Cardinality(Older) + k <= leftOver
    BY DEF SampleInv, OldJobsCounted
  <2>2. 1 \in DOMAIN queue /\ \A i \in DOMAIN queue' : i + 1 \in DOMAIN queue /\ i \in Int
    BY <1>3
  <2>3. w \notin Older
    BY <1>1 DEF Older, Free
  <2>4. leftOver \in Nat /\ k \in Nat
    BY <1>3, <2>1 DEF SampleInv, SampleOK
  <2>5. CASE queue[1].fresh
    <3>1. k = 0
      BY <2>1, <2>2, <2>4, <2>5
    <3>2. Older' \subseteq Older
      BY <1>5, <1>7, <2>5 DEF Older
    <3>3. Cardinality(Older') + k <= leftOver
      BY <2>1, <2>4, <3>2, OlderFinite
    <3>4. \A i \in DOMAIN queue' : queue'[i].fresh <=> i > k
      BY <1>3, <2>1, <2>2, <3>1
    <3>5. k \in 0..Len(queue')
      BY <1>3, <3>1
    <3> QED BY <3>3, <3>4, <3>5
  <2>6. CASE ~queue[1].fresh
    <3>1. k > 0
      BY <2>1, <2>2, <2>4, <2>6
    <3>2. Older' = Older \cup {w}
      BY <1>5, <1>7, <2>6 DEF Older
    <3>3. Cardinality(Older') = Cardinality(Older) + 1
      BY <2>3, <3>2, OlderFinite, FS_AddElement
    <3>4. Cardinality(Older') + (k - 1) <= leftOver
      BY <2>1, <2>4, <3>3, OlderFinite
    <3>5. \A i \in DOMAIN queue' : queue'[i].fresh <=> i > k - 1
      <4> TAKE i \in DOMAIN queue'
      <4>1. queue'[i] = queue[i + 1] /\ i + 1 \in DOMAIN queue /\ i \in Int
        BY <1>3, <2>2
      <4>2. (i > k - 1) <=> (i + 1 > k)
        BY <2>4, <4>1
      <4> QED BY <2>1, <4>1, <4>2
    <3>6. k - 1 \in 0..Len(queue')
      BY <1>3, <2>1, <2>4, <3>1
    <3> QED BY <3>4, <3>5, <3>6
  <2> QED BY <2>5, <2>6
<1>10. SampleOK' /\ Awaited' /\ LayersShown'
  BY <1>1 DEF SampleInv, SampleOK, Awaited, LayersShown, InSample, environment, main
<1> QED BY <1>5, <1>7, <1>8, <1>9, <1>10 DEF SampleInv

\* Each layer has one place in the order of submission.
LEMMA LayersDistinct ==
  /\ Len(Layers) \in Nat /\ DOMAIN Layers = 1..Len(Layers)
  /\ \A i \in 1..Len(Layers) : Layers[i] \in Range(Layers)
  /\ \A l \in Range(Layers) : \E i \in 1..Len(Layers) : l = Layers[i]
  /\ \A i, j \in 1..Len(Layers) : Layers[i] = Layers[j] => i = j
<1>1. Len(Layers) \in Nat /\ DOMAIN Layers = 1..Len(Layers) /\ Layers \in [1..Len(Layers) -> STRING]
  BY ClusterAssumption, LenProperties
<1>2. /\ \A i \in 1..Len(Layers) : Layers[i] \in Range(Layers)
      /\ \A l \in Range(Layers) : \E i \in 1..Len(Layers) : l = Layers[i]
  BY <1>1 DEF Range
<1> DEFINE S == 1..Len(Layers)
           T == Range(Layers)
<1>3. Layers \in Surjection(S, T)
  <2>1. Layers \in [S -> T]
    BY <1>1, <1>2
  <2> QED BY <1>2, <2>1 DEF Surjection
<1>4. IsFiniteSet(S) /\ Cardinality(S) = Len(Layers)
  <2>1. IsFiniteSet(1..Len(Layers)) /\ Cardinality(1..Len(Layers)) = IF 1 > Len(Layers) THEN 0 ELSE Len(Layers) - 1 + 1
    BY <1>1, FS_Interval
  <2> QED BY <1>1, <2>1
<1>5. Layers \in Injection(S, T)
  <2>1. Cardinality(T) = Cardinality(S)
    BY <1>4, ClusterAssumption
  <2> HIDE DEF S, T
  <2> QED BY <1>3, <1>4, <2>1, FS_SurjSameCardinalityImpliesInj
<1>6. \A i, j \in 1..Len(Layers) : Layers[i] = Layers[j] => i = j
  BY <1>5 DEF Injection, IsInjective
<1> QED BY <1>1, <1>2, <1>6

\* A job of an earlier sample is a job like any other.
LEMMA OldJobOK ==
  ASSUME PoolOK, NEW w \in Workers
  PROVE  LET old == [workers[w] EXCEPT !.fresh = FALSE]
         IN old \in Jobs /\ JobOK(old) /\ ~old.fresh /\ old.stage = workers[w].stage
<1> DEFINE old == [workers[w] EXCEPT !.fresh = FALSE]
<1>1. workers[w] \in Jobs /\ JobOK(workers[w])
  BY JobType
<1>2. old \in Jobs /\ ~old.fresh
  BY <1>1 DEF Jobs
<1>3. old.stage = workers[w].stage /\ old.layer = workers[w].layer /\ old.table = workers[w].table
  BY <1>1 DEF Jobs
<1>4. workers[w] = Free => old = Free
  <2>1. Free.fresh = FALSE
    BY DEF Free
  <2> QED BY <1>1, <2>1 DEF Jobs
<1>5. JobOK(old)
  BY <1>1, <1>3, <1>4 DEF JobOK
<1> QED BY <1>2, <1>3, <1>5

\* A sample that begins establishes the account: what it finds is what is left over.
LEMMA BeginKeeps ==
  ASSUME SampleInv, BeginSample
  PROVE  SampleInv' /\ Older' = Busy
<1>1. /\ pc' = "collecting" /\ awaiting' = 1 /\ reading' = Blank
      /\ futures' = [l \in Range(Layers) |-> "pending"]
      /\ workers' = [w \in Workers |-> [workers[w] EXCEPT !.fresh = FALSE]]
      /\ wasDown' = Range(Layers) \ up /\ leftOver' = Len(queue) + Cardinality(Busy)
      /\ floor' = version /\ UNCHANGED <<environment, tables, handle>>
  BY DEF BeginSample
<1> DEFINE old == [i \in DOMAIN queue |-> [queue[i] EXCEPT !.fresh = FALSE]]
           new == [i \in DOMAIN Layers |-> [layer |-> Layers[i], fresh |-> TRUE]]
<1>2. queue' = old \o new
  BY DEF BeginSample
<1>3. queue \in Seq(QueuedJobs) /\ Len(queue) \in Nat /\ DOMAIN queue = 1..Len(queue)
      /\ \A i \in 1..Len(queue) : queue[i] \in QueuedJobs
  <2>1. queue \in Seq(QueuedJobs)
    BY DEF SampleInv, PoolOK, QueuedJobs
  <2> QED BY <2>1, LenProperties, ElementOfSeq
<1>4. old \in Seq(QueuedJobs) /\ Len(old) = Len(queue) /\ \A i \in 1..Len(queue) : ~old[i].fresh
  <2>1. \A i \in 1..Len(queue) : [queue[i] EXCEPT !.fresh = FALSE] \in QueuedJobs
                                 /\ ~[queue[i] EXCEPT !.fresh = FALSE].fresh
    BY <1>3 DEF QueuedJobs
  <2>2. old \in [1..Len(queue) -> QueuedJobs]
    BY <1>3, <2>1
  <2>3. \A i \in 1..Len(queue) : ~old[i].fresh
    BY <1>3, <2>1
  <2> HIDE DEF old
  <2>4. old \in Seq(QueuedJobs)
    BY <1>3, <2>2, SeqDef
  <2>5. Len(old) = Len(queue)
    BY <1>3, <2>2, <2>4, LenProperties
  <2> QED BY <2>3, <2>4, <2>5
<1>5. new \in Seq(QueuedJobs) /\ Len(new) = Len(Layers)
      /\ \A i \in 1..Len(Layers) : new[i].fresh /\ new[i].layer = Layers[i]
  <2>1. new \in [1..Len(Layers) -> QueuedJobs]
    BY LayersDistinct DEF QueuedJobs
  <2> QED BY <2>1, LayersDistinct, SeqDef, LenProperties
<1> HIDE DEF old, new
<1>6. /\ queue' \in Seq(QueuedJobs) /\ Len(queue') = Len(queue) + Len(Layers)
      /\ DOMAIN queue' = 1..Len(queue') /\ Len(queue') \in Nat
      /\ \A i \in 1..Len(queue') : queue'[i] = IF i <= Len(queue) THEN old[i] ELSE new[i - Len(queue)]
  <2>1. /\ queue' \in Seq(QueuedJobs) /\ Len(queue') = Len(old) + Len(new)
        /\ \A i \in 1..(Len(old) + Len(new)) :
                queue'[i] = IF i <= Len(old) THEN old[i] ELSE new[i - Len(old)]
    <3>1. old \in Seq(QueuedJobs) /\ new \in Seq(QueuedJobs)
      BY <1>4, <1>5
    <3>2. /\ old \o new \in Seq(QueuedJobs) /\ Len(old \o new) = Len(old) + Len(new)
          /\ \A i \in 1..(Len(old) + Len(new)) :
                (old \o new)[i] = IF i <= Len(old) THEN old[i] ELSE new[i - Len(old)]
      BY <3>1, ConcatProperties
    <3> QED BY <1>2, <3>2
  <2>2. DOMAIN queue' = 1..Len(queue') /\ Len(queue') \in Nat
    BY <2>1, LenProperties
  <2> QED BY <1>4, <1>5, <2>1, <2>2
<1>7. \A i \in 1..Len(queue') :
        /\ queue'[i].fresh <=> i > Len(queue)
        /\ i > Len(queue) => i - Len(queue) \in 1..Len(Layers)
                             /\ queue'[i].layer = Layers[i - Len(queue)]
  <2> SUFFICES ASSUME NEW i \in 1..Len(queue')
               PROVE  /\ queue'[i].fresh <=> i > Len(queue)
                      /\ i > Len(queue) => i - Len(queue) \in 1..Len(Layers)
                                           /\ queue'[i].layer = Layers[i - Len(queue)]
    OBVIOUS
  <2>1. CASE i <= Len(queue)
    <3>1. i \in 1..Len(queue) /\ ~(i > Len(queue)) /\ queue'[i] = old[i]
      BY <1>3, <1>6, <2>1
    <3> QED BY <1>4, <3>1
  <2>2. CASE ~(i <= Len(queue))
    <3>1. i - Len(queue) \in 1..Len(Layers) /\ i > Len(queue) /\ queue'[i] = new[i - Len(queue)]
      BY <1>3, <1>6, <2>2, LayersDistinct
    <3> QED BY <1>5, <3>1
  <2> QED BY <2>1, <2>2
<1>8. \A w \in Workers :
        /\ workers'[w] \in Jobs /\ JobOK(workers'[w]) /\ ~workers'[w].fresh
        /\ workers'[w].stage = workers[w].stage
  BY <1>1, OldJobOK DEF SampleInv
<1>9. PoolOK'
  <2>1. workers' \in [Workers -> Jobs]
    BY <1>1, <1>8
  <2>2. \A w \in Workers : workers'[w].stage = "installed" => handle' # None
    BY <1>1, <1>8 DEF SampleInv, PoolOK
  <2> QED BY <1>1, <1>6, <1>8, <2>1, <2>2 DEF SampleInv, PoolOK, QueuedJobs
<1>10. Older' = Busy
  <2>1. \A w \in Workers : workers[w].stage # "free" <=> workers[w] # Free
    <3> TAKE w \in Workers
    <3>1. workers[w].stage = "free" => workers[w] = Free
      BY JobType DEF SampleInv, JobOK
    <3>2. Free.stage = "free"
      BY DEF Free
    <3> QED BY <3>1, <3>2
  <2> QED BY <1>8, <2>1 DEF Older, Busy
<1>11. Cardinality(Busy) \in Nat
  BY WorkersFinite, FS_Subset, FS_CardinalityType DEF Busy
<1>12. SampleOK'
  <2>1. up \subseteq Range(Layers) /\ version \in Nat
    BY DEF SampleInv, SampleOK
  <2>2. futures' \in [Range(Layers) -> Outcomes] /\ reading' \in Readings
    BY <1>1 DEF Outcomes, Readings, Blank, Unknown
  <2>3. leftOver' \in Nat
    BY <1>1, <1>3, <1>11
  <2> QED BY <1>1, <2>1, <2>2, <2>3 DEF SampleOK, environment
<1>13. OneFreshJob'
  <2>1. ASSUME NEW i \in DOMAIN queue', NEW j \in DOMAIN queue', queue'[i].fresh, queue'[j].fresh,
               queue'[i].layer = queue'[j].layer
        PROVE  i = j
    <3>1. i \in Int /\ j \in Int
      BY <1>6
    <3>2. i - Len(queue) = j - Len(queue)
      BY <1>6, <1>7, <2>1, LayersDistinct
    <3> QED BY <1>3, <3>1, <3>2
  <2> QED BY <1>8, <2>1 DEF OneFreshJob
<1>14. OldJobsCounted'
  <2>1. Len(queue) \in 0..Len(queue')
    BY <1>3, <1>6, LayersDistinct
  <2>2. Cardinality(Older') + Len(queue) <= leftOver'
    BY <1>1, <1>3, <1>10, <1>11
  <2> QED BY <1>6, <1>7, <2>1, <2>2 DEF OldJobsCounted
<1>15. Awaited' /\ LayersShown'
  <2>1. \A i \in 1..Len(Layers) : ~(i < 1)
    BY LayersDistinct
  <2> QED BY <1>1, <2>1 DEF Awaited, LayersShown, environment
<1> QED BY <1>9, <1>10, <1>12, <1>13, <1>14, <1>15 DEF SampleInv

\* There are finitely many layers,
LEMMA LayersFinite ==
  IsFiniteSet(Range(Layers))
<1>1. IsFiniteSet(1..Len(Layers))
  BY LayersDistinct, FS_Interval
<1>2. Layers \in Surjection(1..Len(Layers), Range(Layers))
  <2>1. Layers \in [1..Len(Layers) -> STRING]
    BY ClusterAssumption, LenProperties
  <2>2. Layers \in [1..Len(Layers) -> Range(Layers)]
    BY <2>1, LayersDistinct
  <2> QED BY <2>2, LayersDistinct DEF Surjection
<1> QED BY <1>1, <1>2, FS_Surjection

\* and finitely many of them were down.
LEMMA WasDownFinite ==
  ASSUME SampleOK
  PROVE  IsFiniteSet(wasDown) /\ Cardinality(wasDown) \in Nat
BY LayersFinite, FS_Subset, FS_CardinalityType DEF SampleOK

\* A job no thread comes to in time means that every thread is held by a left-over
\* job or by a layer that was down: each layer holds one at most.
LEMMA BlockedTakesAll ==
  ASSUME SampleInv, InSample, NEW l, Blocked(l)
  PROVE  leftOver + Cardinality(wasDown) >= MaxWorkers
<1> DEFINE Fresh == Workers \ Older
           f == [w \in Fresh |-> workers[w].layer]
<1>0. MaxWorkers \in Nat
  BY ClusterAssumption
<1>1. \A w \in Workers : workers[w].layer \in wasDown /\ workers[w].stage # "free"
  <2>1. wasDown \subseteq Range(Layers) /\ "none" \notin Range(Layers)
    BY ClusterAssumption DEF SampleInv, SampleOK
  <2>2. \A w \in Workers : workers[w].layer \in wasDown
    BY DEF Blocked
  <2>3. \A w \in Workers : workers[w].stage = "free" => workers[w].layer = "none"
    BY JobType DEF SampleInv, JobOK, Free
  <2> QED BY <2>1, <2>2, <2>3
<1>2. \A w \in Fresh : w \in Workers /\ workers[w].fresh
  BY <1>1 DEF Older
<1>3. f \in Injection(Fresh, wasDown)
  <2>1. f \in [Fresh -> wasDown]
    BY <1>1, <1>2
  <2>2. \A v, w \in Fresh : f[v] = f[w] => v = w
    BY <1>2 DEF SampleInv, OneFreshJob
  <2> HIDE DEF f, Fresh
  <2> QED BY <2>1, <2>2 DEF Injection, IsInjective
<1>4. IsFiniteSet(wasDown) /\ Cardinality(wasDown) \in Nat
  BY WasDownFinite DEF SampleInv
<1>5. Cardinality(Fresh) <= Cardinality(wasDown) /\ Cardinality(Fresh) \in Nat
  <2>1. IsFiniteSet(Fresh)
    BY WorkersFinite, FS_Difference
  <2> HIDE DEF f, Fresh
  <2> QED BY <1>3, <1>4, <2>1, FS_Injection, FS_CardinalityType
<1>6. Cardinality(Fresh) = MaxWorkers - Cardinality(Older)
  <2>1. Workers \cap Older = Older
    BY DEF Older
  <2> QED BY <2>1, WorkersFinite, FS_Difference
<1>7. Cardinality(Older) <= leftOver /\ leftOver \in Nat
  <2>1. PICK k \in 0..Len(queue) : Cardinality(Older) + k <= leftOver
    BY DEF SampleInv, OldJobsCounted
  <2>2. k \in Nat
    BY <2>1
  <2> QED BY <2>1, <2>2, OlderFinite DEF SampleInv, SampleOK
<1> HIDE DEF Fresh
<1> QED BY <1>0, <1>4, <1>5, <1>6, <1>7, OlderFinite

\* The pool's part of the invariant when the pool does not move.
LEMMA PoolStays ==
  ASSUME PoolOK, OneFreshJob, UNCHANGED pool
  PROVE  PoolOK' /\ OneFreshJob' /\ Older' = Older
BY DEF PoolOK, OneFreshJob, Older, pool

\* The loop over the futures preserves the invariant: it gives up only on a layer
\* that was down or when all threads are held.
LEMMA CollectKeeps ==
  ASSUME SampleInv, Await
  PROVE  SampleInv'
<1>1. /\ pc = "collecting" /\ NextFuture
      /\ UNCHANGED <<environment, pool, wasDown, leftOver, floor, reading>>
  BY DEF Await, FutureDone, TimeOut, NextFuture
<1>2. PoolOK' /\ OneFreshJob' /\ Older' = Older
  BY <1>1, PoolStays DEF SampleInv
<1>3. OldJobsCounted'
  <2>1. InSample
    BY <1>1 DEF InSample
  <2> QED BY <1>1, <1>2, <2>1 DEF SampleInv, OldJobsCounted, pool
<1>4. awaiting' \in Nat
  BY <1>1 DEF NextFuture, SampleInv, SampleOK
<1> DEFINE l == Layers[awaiting]
<1>5. /\ \A x \in Range(Layers) : x # l => futures'[x] = futures[x]
      /\ awaiting \in 1..Len(Layers) => futures'[l] # "pending"
      /\ futures' \in [Range(Layers) -> Outcomes]
      /\ \A x \in Range(Layers) :
            \/ futures'[x] = futures[x]
            \/ x \in wasDown \/ Blocked(x)
  <2>1. CASE FutureDone
    BY <2>1 DEF FutureDone, SampleInv, SampleOK
  <2>2. CASE TimeOut
    <3>1. /\ futures' = [futures EXCEPT ![l] = "abandoned"] /\ (l \in wasDown \/ Blocked(l))
          /\ futures \in [Range(Layers) -> Outcomes]
      BY <2>2 DEF TimeOut, SampleInv, SampleOK
    <3>2. awaiting \in 1..Len(Layers) => l \in Range(Layers)
      BY LayersDistinct
    <3> HIDE DEF l
    <3>3. futures' \in [Range(Layers) -> Outcomes]
      BY <3>1 DEF Outcomes
    <3>4. \A x \in Range(Layers) : x # l => futures'[x] = futures[x]
      BY <3>1
    <3>5. awaiting \in 1..Len(Layers) => futures'[l] # "pending"
      BY <3>1, <3>2
    <3> QED BY <3>1, <3>3, <3>4, <3>5
  <2> QED BY <2>1, <2>2 DEF Await
<1>6. SampleOK'
  BY <1>1, <1>4, <1>5 DEF SampleInv, SampleOK, environment
<1>7. \A i \in 1..Len(Layers) : i <= awaiting => futures'[Layers[i]] # "pending"
  <2> SUFFICES ASSUME NEW i \in 1..Len(Layers), i <= awaiting
               PROVE  futures'[Layers[i]] # "pending"
    OBVIOUS
  <2>1. Layers[i] \in Range(Layers) /\ awaiting \in Nat /\ i \in Nat
    BY LayersDistinct DEF SampleInv, SampleOK
  <2>2. CASE i = awaiting
    BY <1>5, <2>2
  <2>3. CASE i # awaiting
    <3>1. i < awaiting
      BY <2>1, <2>3
    <3>2. futures[Layers[i]] # "pending"
      BY <1>1, <3>1 DEF SampleInv, Awaited
    <3>3. CASE Layers[i] # l
      BY <1>5, <2>1, <3>2, <3>3
    <3>4. CASE Layers[i] = l
      <4>1. \/ futures'[Layers[i]] = futures[Layers[i]]
            \/ futures'[Layers[i]] = "abandoned"
        BY <2>1, <1>1 DEF Await, FutureDone, TimeOut, SampleInv, SampleOK
      <4> QED BY <3>2, <4>1
    <3> QED BY <3>3, <3>4
  <2> QED BY <2>2, <2>3
<1>8. Awaited'
  <2>1. CASE awaiting = Len(Layers)
    <3>1. pc' = "showing"
      BY <1>1, <2>1 DEF NextFuture
    <3>2. \A x \in Range(Layers) : futures'[x] # "pending"
      <4> TAKE x \in Range(Layers)
      <4>1. PICK i \in 1..Len(Layers) : x = Layers[i]
        BY LayersDistinct
      <4>2. i <= awaiting
        BY <2>1, LayersDistinct
      <4> QED BY <1>7, <4>1, <4>2
    <3> QED BY <3>1, <3>2 DEF Awaited
  <2>2. CASE awaiting # Len(Layers)
    <3>1. awaiting' = awaiting + 1 /\ pc' = pc /\ awaiting \in Nat
      BY <1>1, <2>2 DEF NextFuture, SampleInv, SampleOK
    <3>2. \A i \in 1..Len(Layers) : i < awaiting' => i <= awaiting
      BY <3>1, LayersDistinct
    <3> QED BY <1>1, <1>7, <3>1, <3>2 DEF SampleInv, Awaited, environment
  <2> QED BY <2>1, <2>2
<1>9. LayersShown'
  <2> SUFFICES ASSUME leftOver + Cardinality(wasDown) < MaxWorkers, NEW x \in Range(Layers) \ wasDown
               PROVE  futures'[x] \in {"pending", "answered"}
    BY <1>1 DEF LayersShown
  <2>1. InSample
    BY <1>1 DEF InSample
  <2>2. futures[x] \in {"pending", "answered"}
    BY <2>1 DEF SampleInv, LayersShown
  <2>3. ~Blocked(x)
    <3>1. leftOver \in Nat /\ MaxWorkers \in Nat /\ Cardinality(wasDown) \in Nat
      BY ClusterAssumption, WasDownFinite DEF SampleInv, SampleOK
    <3>2. ~(leftOver + Cardinality(wasDown) >= MaxWorkers)
      BY <3>1
    <3> QED BY <2>1, <3>2, BlockedTakesAll
  <2> QED BY <1>5, <2>2, <2>3
<1> QED BY <1>2, <1>3, <1>6, <1>8, <1>9 DEF SampleInv

\* Services that fail and recover, and a table that moves, preserve it.
LEMMA EnvironmentKeeps ==
  ASSUME SampleInv, (\E l \in Range(Layers) : GoesDown(l) \/ ComesUp(l)) \/ TableMoves
  PROVE  SampleInv'
<1>1. UNCHANGED <<pool, pc, awaiting, futures, reading, leftOver, floor>>
  BY DEF GoesDown, ComesUp, TableMoves, main
<1>2. PoolOK' /\ OneFreshJob' /\ Older' = Older
  BY <1>1, PoolStays DEF SampleInv
<1>3. OldJobsCounted'
  BY <1>1, <1>2 DEF SampleInv, OldJobsCounted, InSample, pool
<1>4. SampleOK'
  BY <1>1 DEF GoesDown, ComesUp, TableMoves, main, SampleInv, SampleOK
<1>5. /\ wasDown \subseteq wasDown'
      /\ pc = "collecting" => Range(Layers) \ up' \subseteq wasDown' \/ ~(Range(Layers) \ up \subseteq wasDown)
  BY DEF GoesDown, ComesUp, TableMoves, main
<1>6. Awaited'
  BY <1>1, <1>5 DEF SampleInv, Awaited
<1>7. LayersShown'
  <2>1. Cardinality(wasDown) <= Cardinality(wasDown')
        /\ Cardinality(wasDown) \in Nat /\ Cardinality(wasDown') \in Nat
    <3>1. IsFiniteSet(wasDown')
      BY <1>4, LayersFinite, FS_Subset DEF SampleOK
    <3> QED BY <1>5, <3>1, FS_Subset, FS_CardinalityType, WasDownFinite DEF SampleInv
  <2>2. leftOver + Cardinality(wasDown') < MaxWorkers => leftOver + Cardinality(wasDown) < MaxWorkers
    BY <2>1, ClusterAssumption DEF SampleInv, SampleOK
  <2> QED BY <1>1, <1>5, <2>2 DEF SampleInv, LayersShown, InSample
<1> QED BY <1>2, <1>3, <1>4, <1>6, <1>7 DEF SampleInv

\* Outside a sample there is nothing to account for.
LEMMA BetweenSamples ==
  ASSUME PoolOK', SampleOK', OneFreshJob', pc' \notin {"collecting", "showing"}
  PROVE  SampleInv'
BY DEF SampleInv, OldJobsCounted, Awaited, LayersShown, InSample

\* A sample that is forgotten is a blank one.
LEMMA ForgetKeeps ==
  ASSUME SampleInv, ForgetSample
  PROVE  SampleOK'
BY DEF ForgetSample, SampleInv, SampleOK, environment, Outcomes, Readings, Blank, Unknown

\* Drawing preserves the invariant,
LEMMA DrawKeeps ==
  ASSUME SampleInv, Draw
  PROVE  SampleInv'
<1>1. PoolOK' /\ OneFreshJob'
  BY PoolStays DEF Draw, SampleInv
<1> QED BY <1>1, ForgetKeeps, BetweenSamples DEF Draw

\* so does closing the pool, which drops the queue,
LEMMA QuitKeeps ==
  ASSUME SampleInv, Quit
  PROVE  SampleInv'
<1>1. /\ pc' = "closing" /\ ForgetSample /\ queue' = <<>> /\ UNCHANGED <<tables, handle>>
      /\ workers' = [w \in Workers |-> [workers[w] EXCEPT !.fresh = FALSE]]
  BY DEF Quit, CloseCluster
<1>2. \A w \in Workers :
        /\ workers'[w] \in Jobs /\ JobOK(workers'[w]) /\ ~workers'[w].fresh
        /\ workers'[w].stage = workers[w].stage
  BY <1>1, OldJobOK DEF SampleInv
<1>3. PoolOK'
  <2>1. workers' \in [Workers -> Jobs]
    BY <1>1, <1>2
  <2>2. \A w \in Workers : workers'[w].stage = "installed" => handle' # None
    BY <1>1, <1>2 DEF SampleInv, PoolOK
  <2>3. queue' \in Seq([layer : Range(Layers), fresh : BOOLEAN])
    BY <1>1
  <2> QED BY <1>1, <1>2, <2>1, <2>2, <2>3 DEF SampleInv, PoolOK
<1>4. OneFreshJob'
  <2>1. DOMAIN queue' = {}
    BY <1>1
  <2> QED BY <1>2, <2>1 DEF OneFreshJob
<1> QED BY <1>1, <1>3, <1>4, ForgetKeeps, BetweenSamples

\* and every step in which only the main thread's place in its loop changes.
LEMMA ClusterStays ==
  ASSUME SampleInv, UNCHANGED <<environment, pool, awaiting, futures, reading, wasDown, leftOver, floor>>,
         pc' \in {"resting", "exited"} \/ pc' = pc
  PROVE  SampleInv'
<1>1. PoolOK' /\ OneFreshJob' /\ Older' = Older
  BY PoolStays DEF SampleInv
<1>2. SampleOK'
  BY DEF SampleInv, SampleOK, environment
<1>3. CASE pc' \in {"resting", "exited"}
  BY <1>1, <1>2, <1>3, BetweenSamples
<1>4. CASE pc' = pc
  BY <1>1, <1>2, <1>4 DEF SampleInv, OldJobsCounted, Awaited, LayersShown, InSample, environment, pool
<1> QED BY <1>3, <1>4

\* The dashboard starts in the invariant.
LEMMA InitSample ==
  ASSUME Init
  PROVE  SampleInv
<1>0. MaxWorkers \in Nat
  BY ClusterAssumption
<1>1. ClusterInit
  BY DEF Init
<1>2. Free \in Jobs /\ JobOK(Free) /\ Free.stage = "free" /\ ~Free.fresh
  BY <1>0 DEF Free, Jobs, Stages, None, JobOK
<1>3. \A w \in Workers : workers[w] = Free
  BY <1>1 DEF ClusterInit
<1>4. PoolOK
  <2>1. workers \in [Workers -> Jobs]
    BY <1>1, <1>2 DEF ClusterInit
  <2>2. queue \in Seq([layer : Range(Layers), fresh : BOOLEAN])
    BY <1>1 DEF ClusterInit
  <2>3. tables \in [Objects -> Nat] /\ handle \in 0..(MaxWorkers + 1)
    BY <1>0, <1>1 DEF ClusterInit, None
  <2> QED BY <1>2, <1>3, <2>1, <2>2, <2>3 DEF PoolOK
<1>5. SampleOK
  BY <1>1 DEF ClusterInit, SampleOK, Outcomes, Readings, Blank, Unknown
<1>6. OneFreshJob
  <2>1. DOMAIN queue = {}
    BY <1>1 DEF ClusterInit
  <2> QED BY <1>2, <1>3, <2>1 DEF OneFreshJob
<1> QED BY <1>1, <1>4, <1>5, <1>6 DEF ClusterInit, SampleInv, OldJobsCounted, Awaited, LayersShown, InSample

\* Whatever a thread does preserves it,
LEMMA WorkKeeps ==
  ASSUME SampleInv, NEW w \in Workers, Work(w)
  PROVE  SampleInv'
<1>0. /\ PoolOK /\ SampleOK
      /\ tables \in [Objects -> Nat] /\ handle \in 0..(MaxWorkers + 1)
  BY DEF SampleInv, PoolOK
<1>1. CASE Take(w)
  BY <1>1, TakeKeeps
<1>2. CASE OneCall(w)
  BY <1>0, <1>2, OneCallEnds, EndsKeeps
<1>3. CASE Watermarks(w)
  <2>1. UNCHANGED <<tables, handle>>
    BY <1>3 DEF Watermarks
  <2>2. [workers[w] EXCEPT !.stage = "watermarks"].stage = "watermarks"
    BY <1>0, JobType DEF Jobs
  <2> QED BY <1>0, <1>3, <2>1, <2>2, WatermarksGoesOn, GoesOnKeeps
<1>4. CASE GroupOffsets(w)
  BY <1>0, <1>4, GroupOffsetsEnds, EndsKeeps
<1>5. CASE CatalogAnswers(w)
  <2>1. UNCHANGED <<tables, handle>>
    BY <1>5 DEF CatalogAnswers
  <2>2. [workers[w] EXCEPT !.stage = "answered", !.answer = version].stage = "answered"
    BY <1>0, JobType DEF Jobs
  <2> QED BY <1>0, <1>5, <2>1, <2>2, CatalogAnswersGoesOn, GoesOnKeeps
<1>6. CASE Install(w)
  <2>1. handle' \in 0..(MaxWorkers + 1) /\ handle' # None /\ tables' \in [Objects -> Nat]
    <3>1. handle' \in Objects /\ tables' \in [Objects -> Nat]
      BY <1>0, <1>6, InstallGoesOn
    <3>2. MaxWorkers \in Nat
      BY ClusterAssumption
    <3> QED BY <3>1, <3>2 DEF Objects, None
  <2> QED BY <1>0, <1>6, <2>1, InstallGoesOn, GoesOnKeeps
<1>7. CASE CountSnapshots(w)
  <2>1. UNCHANGED <<tables, handle>>
    BY <1>7 DEF CountSnapshots
  <2>2. [workers[w] EXCEPT !.stage = "counted", !.table = handle,
                           !.snapshots = tables[handle] - 1].stage = "counted"
    BY <1>0, JobType DEF Jobs
  <2> QED BY <1>0, <1>7, <2>1, <2>2, CountGoesOn, GoesOnKeeps
<1>8. CASE CurrentSnapshot(w)
  BY <1>0, <1>8, CurrentEnds, EndsKeeps
<1> QED BY <1>1, <1>2, <1>3, <1>4, <1>5, <1>6, <1>7, <1>8 DEF Work

\* whatever fails,
LEMMA FailureKeeps ==
  ASSUME SampleInv, NEW w \in Workers, GroupOffsetsFail(w) \/ CallRaises(w)
  PROVE  SampleInv'
<1>0. /\ PoolOK /\ SampleOK
      /\ tables \in [Objects -> Nat] /\ handle \in 0..(MaxWorkers + 1)
  BY DEF SampleInv, PoolOK
<1>1. CASE GroupOffsetsFail(w)
  BY <1>0, <1>1, GroupOffsetsEnds, EndsKeeps
<1>2. CASE CallRaises(w)
  <2>1. CASE Ends(w, "raised", reading)
    BY <2>1, EndsKeeps
  <2>2. CASE GoesOn(w, [workers[w] EXCEPT !.table = None]) /\ UNCHANGED <<tables, handle>> /\ workers[w].stage = "call"
    <3>1. [workers[w] EXCEPT !.table = None].stage = "call"
      BY <1>0, <2>2, JobType DEF Jobs
    <3> QED BY <1>0, <2>2, <3>1, GoesOnKeeps
  <2> QED BY <1>0, <1>2, <2>1, <2>2, RaisesEffect
<1> QED BY <1>1, <1>2

\* and every step.
LEMMA NextKeepsSample ==
  ASSUME SampleInv, [Next]_vars
  PROVE  SampleInv'
<1>1. CASE LiveSample
  BY <1>1, BeginKeeps DEF LiveSample
<1>2. CASE Collect
  BY <1>2, CollectKeeps DEF Collect
<1>3. CASE Draw
  BY <1>3, DrawKeeps
<1>4. CASE Exit \/ SyntheticSample
  BY <1>4, ClusterStays DEF Exit, SyntheticSample
<1>5. CASE Quit
  BY <1>5, QuitKeeps
<1>6. ASSUME NEW w \in Workers, Thread(w) PROVE SampleInv'
  BY <1>6, WorkKeeps DEF Thread
<1>7. CASE Outside
  <2>1. CASE \E l \in Range(Layers) : GoesDown(l) \/ ComesUp(l)
    BY <2>1, EnvironmentKeeps
  <2>2. CASE TableMoves
    BY <2>2, EnvironmentKeeps
  <2>3. CASE \E w \in Workers : GroupOffsetsFail(w) \/ CallRaises(w)
    BY <2>3, FailureKeeps
  <2> QED BY <1>7, <2>1, <2>2, <2>3 DEF Outside, Environment
<1>8. CASE UNCHANGED vars
  BY <1>8, ClusterStays DEF vars, clusterVars, main
<1> QED BY <1>1, <1>2, <1>3, <1>4, <1>5, <1>6, <1>7, <1>8 DEF Next, Main

\* The account of the jobs holds in every state (sample() and its pool).
THEOREM SampleInvariant == Spec => []SampleInv
<1>1. Init => SampleInv
  BY InitSample
<1>2. SampleInv /\ [Next]_vars => SampleInv'
  BY NextKeepsSample
<1> QED BY <1>1, <1>2, PTL DEF Spec

\* A layer whose service answered throughout the sample is in what is shown, unless
\* left-over jobs and layers that were down could take every thread (LiveCluster.sample).
THEOREM HealthyLayersAreShown == Spec => []HealthyLayersShown
<1>1. SampleInv => HealthyLayersShown
  BY DEF SampleInv, LayersShown, Awaited, InSample, HealthyLayersShown
<1> QED BY <1>1, SampleInvariant, PTL

(***************************************************************************)
(* The table object.                                                       *)
(***************************************************************************)
\* What the Iceberg collector has in hand is not older than the sample, and what
\* it has counted is what its table object still says.
AnswerCurrent(job) ==
    /\ job.stage = "answered" => job.answer \in floor..version
    /\ job.stage = "installed" => tables[handle] \in floor..version
    /\ job.stage = "counted" => /\ tables[job.table] \in floor..version
                                /\ job.snapshots = tables[job.table] - 1

AnswersCurrent ==
    pc = "collecting" /\ leftOver = 0 =>
        \A w \in Workers : workers[w].fresh => AnswerCurrent(workers[w])

ReadingCurrent ==
    InSample /\ leftOver = 0 =>
        \/ reading.rows = Unknown
        \/ reading.rows = reading.snapshots /\ reading.rows \in (floor - 1)..(version - 1)

IcebergInv ==
    /\ InSample => floor <= version
    /\ AnswersCurrent
    /\ ReadingCurrent

\* With no job left over, at most one thread runs the Iceberg collector.
LEMMA OneReader ==
  ASSUME SampleInv, InSample, leftOver = 0, NEW v \in Workers, NEW w \in Workers,
         workers[v].layer = "iceberg", workers[w].layer = "iceberg"
  PROVE  v = w
<1>1. Older = {}
  <2>1. PICK k \in 0..Len(queue) : Cardinality(Older) + k <= leftOver
    BY DEF SampleInv, OldJobsCounted
  <2>2. k \in Nat
    BY <2>1
  <2>3. Cardinality(Older) = 0
    BY <2>1, <2>2, OlderFinite
  <2> QED BY <2>3, OlderFinite, FS_EmptySet
<1>2. ASSUME NEW u \in Workers, workers[u].layer = "iceberg" PROVE workers[u].fresh
  <2>1. CASE workers[u].stage = "free"
    <3>1. workers[u] = Free
      BY <2>1, JobType DEF SampleInv, JobOK
    <3> QED BY <1>2, <3>1 DEF Free
  <2>2. CASE workers[u].stage # "free"
    BY <1>1, <2>2 DEF Older
  <2> QED BY <2>1, <2>2
<1> QED BY <1>2 DEF SampleInv, OneFreshJob

\* A step that leaves the table and the reading alone keeps them current.
LEMMA TableStays ==
  ASSUME SampleInv, IcebergInv, NEW w \in Workers,
         UNCHANGED <<tables, handle, version, floor, leftOver, pc>>,
         \A v \in Workers \ {w} : workers'[v] = workers[v],
         workers'[w].stage \in {"free", "call", "watermarks"} \/ AnswerCurrent(workers'[w]),
         UNCHANGED reading \/ pc \notin {"collecting", "showing"} \/ leftOver # 0
  PROVE  IcebergInv'
<1>1. AnswersCurrent'
  <2> SUFFICES ASSUME pc = "collecting", leftOver = 0, NEW v \in Workers, workers'[v].fresh
               PROVE  AnswerCurrent(workers[v])'
    BY DEF AnswersCurrent
  <2>1. CASE v = w
    BY <2>1 DEF AnswerCurrent
  <2>2. CASE v # w
    BY <2>2 DEF IcebergInv, AnswersCurrent, AnswerCurrent
  <2> QED BY <2>1, <2>2
<1> QED BY <1>1 DEF IcebergInv, ReadingCurrent, InSample

\* The reading a collector hands over is of the table object it has counted.
LEMMA EndsCurrent ==
  ASSUME SampleInv, IcebergInv, NEW w \in Workers, NEW how, NEW read, Ends(w, how, read),
         read = reading \/ (/\ workers[w].stage = "counted"
                            /\ read.snapshots = workers[w].snapshots
                            /\ read.rows = tables[workers[w].table] - 1)
  PROVE  IcebergInv'
<1> DEFINE wanted == workers[w].fresh /\ futures[workers[w].layer] = "pending"
<1>1. /\ workers'[w] = Free /\ Free.stage = "free"
      /\ \A v \in Workers \ {w} : workers'[v] = workers[v]
      /\ UNCHANGED <<tables, handle, version, floor, leftOver, pc>>
  BY EndsKeeps DEF Ends, Done, Free, environment
<1>2. wanted => reading' = read
  BY DEF Ends, Done
<1>3. ~wanted => reading' = reading
  BY DEF Ends, Done
<1>4. wanted /\ pc = "showing" => FALSE
  <2>1. workers[w].layer \in Range(Layers)
    BY JobType DEF Ends, SampleInv, JobOK
  <2> QED BY <2>1 DEF SampleInv, Awaited
<1>5. wanted => workers[w].fresh
  OBVIOUS
<1> HIDE DEF wanted
<1>6. CASE UNCHANGED reading \/ pc \notin {"collecting", "showing"} \/ leftOver # 0
  BY <1>1, <1>6, TableStays
<1>7. CASE pc = "collecting" /\ leftOver = 0 /\ wanted /\ read # reading
  <2>1. AnswerCurrent(workers[w]) /\ workers[w].stage = "counted"
    BY <1>5, <1>7 DEF IcebergInv, AnswersCurrent
  <2>2. reading'.rows = reading'.snapshots /\ reading'.rows \in (floor - 1)..(version - 1)
    <3>1. tables[workers[w].table] \in floor..version
      BY <2>1 DEF AnswerCurrent
    <3>2. floor \in Nat /\ version \in Nat
      BY DEF SampleInv, SampleOK
    <3>3. reading'.rows = tables[workers[w].table] - 1 /\ reading'.snapshots = tables[workers[w].table] - 1
      BY <1>2, <1>7, <2>1 DEF AnswerCurrent
    <3> HIDE DEF AnswerCurrent
    <3> QED BY <3>1, <3>2, <3>3
  <2>3. AnswersCurrent'
    <3> SUFFICES ASSUME NEW v \in Workers, workers'[v].fresh
                 PROVE  AnswerCurrent(workers[v])'
      BY DEF AnswersCurrent
    <3>1. CASE v = w
      BY <1>1, <3>1 DEF AnswerCurrent
    <3>2. CASE v # w
      BY <1>1, <1>7, <3>2 DEF IcebergInv, AnswersCurrent, AnswerCurrent
    <3> QED BY <3>1, <3>2
  <2> QED BY <1>1, <2>2, <2>3 DEF IcebergInv, ReadingCurrent, InSample
<1> QED BY <1>2, <1>3, <1>4, <1>6, <1>7

\* An answer that is installed is not older than the sample.
LEMMA InstallCurrent ==
  ASSUME SampleInv, IcebergInv, NEW w \in Workers, Install(w)
  PROVE  IcebergInv'
<1>0. PoolOK
  BY DEF SampleInv
<1> DEFINE job == [workers[w] EXCEPT !.stage = "installed", !.table = None, !.answer = 0]
<1>1. GoesOn(w, job) /\ tables'[handle'] = workers[w].answer
  BY <1>0, InstallGoesOn
<1>2. /\ workers[w] \in Jobs /\ JobOK(workers[w]) /\ workers[w].stage = "answered"
  BY <1>0, JobType DEF Install
<1>3. job.stage = "installed" /\ job.fresh = workers[w].fresh
  BY <1>2 DEF Jobs
<1>4. workers[w].layer = "iceberg"
  BY <1>2 DEF JobOK
<1> HIDE DEF job
<1>5. /\ workers' = [workers EXCEPT ![w] = job]
      /\ UNCHANGED <<environment, queue, main>>
  BY <1>1 DEF GoesOn, Continue
<1>6. workers'[w] = job /\ \A v \in Workers \ {w} : workers'[v] = workers[v]
  BY <1>0, <1>5 DEF PoolOK
<1>7. AnswersCurrent'
  <2> SUFFICES ASSUME pc = "collecting", leftOver = 0, NEW v \in Workers, workers'[v].fresh
               PROVE  AnswerCurrent(workers[v])'
    BY <1>5 DEF AnswersCurrent, main
  <2>1. CASE v = w
    <3>1. workers[w].answer \in floor..version
      BY <1>2, <1>3, <1>6, <2>1 DEF IcebergInv, AnswersCurrent, AnswerCurrent
    <3> QED BY <1>1, <1>3, <1>5, <1>6, <2>1, <3>1 DEF AnswerCurrent, main, environment
  <2>2. CASE v # w
    <3>1. workers[v].layer # "iceberg"
      BY <1>4, <2>2, OneReader DEF InSample
    <3>2. workers[v].stage \notin {"answered", "installed", "counted"}
      BY <1>0, <3>1, JobType DEF JobOK
    <3> QED BY <1>6, <2>2, <3>2 DEF AnswerCurrent
  <2> QED BY <2>1, <2>2
<1> QED BY <1>5, <1>7 DEF IcebergInv, ReadingCurrent, InSample, main, environment

\* Whatever a thread does keeps the collector's view current,
LEMMA WorkCurrent ==
  ASSUME SampleInv, IcebergInv, NEW w \in Workers, Work(w)
  PROVE  IcebergInv'
<1>0. PoolOK /\ SampleOK
  BY DEF SampleInv
<1>g. ASSUME NEW job, GoesOn(w, job), UNCHANGED <<tables, handle>>,
             job.stage \in {"free", "call", "watermarks"} \/ AnswerCurrent(job)
      PROVE  IcebergInv'
  <2>1. workers'[w] = job /\ \A v \in Workers \ {w} : workers'[v] = workers[v]
    BY <1>0, <1>g DEF GoesOn, Continue, PoolOK
  <2>2. UNCHANGED <<version, floor, leftOver, pc, reading>>
    BY <1>g DEF GoesOn, Continue, main, environment
  <2> QED BY <1>g, <2>1, <2>2, TableStays
<1>1. CASE Take(w)
  <2>1. UNCHANGED <<tables, handle, version, floor, leftOver, pc, reading>>
    BY <1>1 DEF Take, main, environment
  <2> QED BY <1>1, <2>1, TakeKeeps, TableStays
<1>2. CASE OneCall(w)
  BY <1>0, <1>2, OneCallEnds, EndsCurrent
<1>3. CASE Watermarks(w)
  <2>1. UNCHANGED <<tables, handle>>
    BY <1>3 DEF Watermarks
  <2>2. [workers[w] EXCEPT !.stage = "watermarks"].stage = "watermarks"
    BY <1>0, JobType DEF Jobs
  <2> QED BY <1>0, <1>3, <1>g, <2>1, <2>2, WatermarksGoesOn
<1>4. CASE GroupOffsets(w)
  BY <1>0, <1>4, GroupOffsetsEnds, EndsCurrent
<1>5. CASE CatalogAnswers(w)
  <2> DEFINE job == [workers[w] EXCEPT !.stage = "answered", !.answer = version]
  <2>1. UNCHANGED <<tables, handle>>
    BY <1>5 DEF CatalogAnswers
  <2>2. job.stage = "answered" /\ job.answer = version
    BY <1>0, JobType DEF Jobs
  <2>3. GoesOn(w, job)
    BY <1>0, <1>5, CatalogAnswersGoesOn
  <2> HIDE DEF job
  <2>4. CASE InSample
    <3>1. version \in floor..version
      BY <1>0, <2>4 DEF IcebergInv, SampleOK
    <3>2. AnswerCurrent(job)
      BY <2>2, <3>1 DEF AnswerCurrent
    <3> QED BY <1>g, <2>1, <2>3, <3>2
  <2>5. CASE ~InSample
    BY <2>3, <2>5 DEF GoesOn, Continue, main, InSample, IcebergInv, AnswersCurrent, ReadingCurrent
  <2> QED BY <2>4, <2>5
<1>6. CASE Install(w)
  BY <1>6, InstallCurrent
<1>7. CASE CountSnapshots(w)
  <2> DEFINE job == [workers[w] EXCEPT !.stage = "counted", !.table = handle,
                                       !.snapshots = tables[handle] - 1]
  <2>1. UNCHANGED <<tables, handle>> /\ workers[w].stage = "installed"
    BY <1>7 DEF CountSnapshots
  <2>2. /\ job.stage = "counted" /\ job.table = handle /\ job.snapshots = tables[handle] - 1
        /\ job.fresh = workers[w].fresh
    BY <1>0, JobType DEF Jobs
  <2>3. GoesOn(w, job)
    BY <1>0, <1>7, CountGoesOn
  <2> HIDE DEF job
  <2>4. CASE pc = "collecting" /\ leftOver = 0 /\ workers[w].fresh
    <3>1. tables[handle] \in floor..version
      BY <2>1, <2>4 DEF IcebergInv, AnswersCurrent, AnswerCurrent
    <3>2. AnswerCurrent(job)
      BY <2>2, <3>1 DEF AnswerCurrent
    <3> QED BY <1>g, <2>1, <2>3, <3>2
  <2>5. CASE ~(pc = "collecting" /\ leftOver = 0 /\ workers[w].fresh)
    <3>1. workers'[w] = job /\ \A v \in Workers \ {w} : workers'[v] = workers[v]
      BY <1>0, <2>3 DEF GoesOn, Continue, PoolOK
    <3>2. UNCHANGED <<version, floor, leftOver, pc, reading>>
      BY <2>3 DEF GoesOn, Continue, main, environment
    <3>3. AnswersCurrent'
      <4> SUFFICES ASSUME pc = "collecting", leftOver = 0, NEW v \in Workers, workers'[v].fresh
                   PROVE  AnswerCurrent(workers[v])'
        BY <3>2 DEF AnswersCurrent
      <4>1. v # w
        BY <2>2, <2>5, <3>1
      <4> QED BY <2>1, <3>1, <3>2, <4>1 DEF IcebergInv, AnswersCurrent, AnswerCurrent
    <3> QED BY <3>2, <3>3 DEF IcebergInv, ReadingCurrent, InSample
  <2> QED BY <2>4, <2>5
<1>8. CASE CurrentSnapshot(w)
  <2> DEFINE read == [reading EXCEPT !.snapshots = workers[w].snapshots,
                                     !.rows = tables[workers[w].table] - 1]
  <2>1. read.snapshots = workers[w].snapshots /\ read.rows = tables[workers[w].table] - 1
    BY <1>0 DEF SampleOK, Readings
  <2>2. Ends(w, "answered", read) /\ workers[w].stage = "counted"
    BY <1>0, <1>8, CurrentEnds DEF CurrentSnapshot
  <2> HIDE DEF read
  <2> QED BY <2>1, <2>2, EndsCurrent
<1> QED BY <1>1, <1>2, <1>3, <1>4, <1>5, <1>6, <1>7, <1>8 DEF Work

\* whatever fails,
LEMMA FailureCurrent ==
  ASSUME SampleInv, IcebergInv, NEW w \in Workers, GroupOffsetsFail(w) \/ CallRaises(w)
  PROVE  IcebergInv'
<1>0. PoolOK /\ SampleOK
  BY DEF SampleInv
<1>1. CASE GroupOffsetsFail(w)
  BY <1>0, <1>1, GroupOffsetsEnds, EndsCurrent
<1>2. CASE Ends(w, "raised", reading)
  BY <1>2, EndsCurrent
<1>3. CASE GoesOn(w, [workers[w] EXCEPT !.table = None]) /\ UNCHANGED <<tables, handle>> /\ workers[w].stage = "call"
  <2>1. [workers[w] EXCEPT !.table = None].stage = "call"
    BY <1>0, <1>3, JobType DEF Jobs
  <2> DEFINE job == [workers[w] EXCEPT !.table = None]
  <2> HIDE DEF job
  <2>2. workers'[w] = job /\ \A v \in Workers \ {w} : workers'[v] = workers[v]
    BY <1>0, <1>3 DEF GoesOn, Continue, PoolOK, job
  <2>3. UNCHANGED <<version, floor, leftOver, pc, reading>>
    BY <1>3 DEF GoesOn, Continue, main, environment
  <2> QED BY <1>3, <2>1, <2>2, <2>3, TableStays DEF job
<1> QED BY <1>0, <1>1, <1>2, <1>3, RaisesEffect

\* and every step.
LEMMA NextCurrent ==
  ASSUME SampleInv, IcebergInv, [Next]_vars
  PROVE  IcebergInv'
<1>0. PoolOK /\ SampleOK /\ version \in Nat /\ floor \in Nat
  BY DEF SampleInv, SampleOK
<1>1. CASE LiveSample
  <2>1. /\ pc' = "collecting" /\ reading' = Blank /\ floor' = version /\ version' = version
        /\ workers' = [w \in Workers |-> [workers[w] EXCEPT !.fresh = FALSE]]
    BY <1>1 DEF LiveSample, BeginSample, environment
  <2>2. \A w \in Workers : ~workers'[w].fresh
    BY <1>0, <2>1, OldJobOK
  <2> QED BY <1>0, <2>1, <2>2 DEF IcebergInv, AnswersCurrent, ReadingCurrent, Blank
<1>2. CASE Collect
  <2>1. /\ pc = "collecting" /\ pc' \in {"collecting", "showing"}
        /\ UNCHANGED <<environment, pool, leftOver, floor, reading>>
    BY <1>2 DEF Collect, Await, FutureDone, TimeOut, NextFuture
  <2> QED BY <2>1 DEF IcebergInv, AnswersCurrent, AnswerCurrent, ReadingCurrent, InSample, environment, pool
<1>3. CASE Draw \/ Exit \/ SyntheticSample \/ Quit
  <2>1. pc' \notin {"collecting", "showing"}
    BY <1>3 DEF Draw, Exit, SyntheticSample, Quit
  <2> QED BY <2>1 DEF IcebergInv, AnswersCurrent, ReadingCurrent, InSample
<1>4. ASSUME NEW w \in Workers, Thread(w) PROVE IcebergInv'
  BY <1>4, WorkCurrent DEF Thread
<1>5. CASE Outside
  <2>1. CASE (\E l \in Range(Layers) : GoesDown(l) \/ ComesUp(l)) \/ TableMoves
    <3>1. /\ UNCHANGED <<pool, pc, leftOver, floor, reading>>
          /\ floor' = floor /\ version' \in Nat /\ version <= version'
      BY <1>0, <2>1 DEF GoesDown, ComesUp, TableMoves, main
    <3>2. /\ \A n \in floor..version : n \in floor'..version'
          /\ \A n \in (floor - 1)..(version - 1) : n \in (floor' - 1)..(version' - 1)
      <4>1. \A f, u, v \in Nat : u <= v => /\ \A n \in f..u : n \in f..v
                                        /\ \A n \in (f - 1)..(u - 1) : n \in (f - 1)..(v - 1)
        OBVIOUS
      <4>2. floor' = floor
        BY <3>1
      <4>3. \A n \in floor..version : n \in floor..version'
        BY <1>0, <3>1, <4>1
      <4>4. \A n \in (floor - 1)..(version - 1) : n \in (floor - 1)..(version' - 1)
        BY <1>0, <3>1, <4>1
      <4> QED BY <4>2, <4>3, <4>4
    <3>3. AnswersCurrent'
      BY <3>1, <3>2 DEF IcebergInv, AnswersCurrent, AnswerCurrent, pool
    <3>4. ReadingCurrent'
      BY <3>1, <3>2 DEF IcebergInv, ReadingCurrent, InSample
    <3>5. InSample' => floor' <= version'
      BY <1>0, <3>1 DEF IcebergInv, InSample
    <3> QED BY <3>3, <3>4, <3>5 DEF IcebergInv
  <2>2. CASE \E w \in Workers : GroupOffsetsFail(w) \/ CallRaises(w)
    BY <2>2, FailureCurrent
  <2> QED BY <1>5, <2>1, <2>2 DEF Outside, Environment
<1>6. CASE UNCHANGED vars
  BY <1>6 DEF IcebergInv, AnswersCurrent, AnswerCurrent, ReadingCurrent, InSample, vars, clusterVars, main, environment, pool
<1> QED BY <1>1, <1>2, <1>3, <1>4, <1>5, <1>6 DEF Next, Main

\* The row count shown belongs to the snapshots counted beside it and is not older
\* than the sample, unless a collector was left over (_collect_iceberg).
THEOREM IcebergAlwaysCurrent == Spec => []IcebergIsCurrent
<1>1. Init => IcebergInv
  BY DEF Init, ClusterInit, IcebergInv, AnswersCurrent, ReadingCurrent, InSample
<1>2. SampleInv /\ IcebergInv /\ [Next]_vars => IcebergInv'
  BY NextCurrent
<1>3. IcebergInv => IcebergIsCurrent
  BY DEF IcebergInv, ReadingCurrent, InSample, IcebergIsCurrent
<1> QED BY <1>1, <1>2, <1>3, SampleInvariant, PTL DEF Spec

(***************************************************************************)
(* The synthetic pipeline.                                                 *)
(***************************************************************************)
\* SyntheticCascade and the type of the counters.
Cascade(s) ==
    /\ s \in [Counters -> Int]
    /\ s["kafka"] = s["rows"] + s["buffered"]
    /\ s["buffered"] \in 0..(SimBatch - 1)
    /\ s["objects"] - s["kafka"] \in 0..2
    /\ s["rows"] \in s["files"]..(s["files"] * SimBatch)

\* i full batches at once.
After(s, i) ==
    [c \in Counters |-> CASE c = "buffered" -> s[c] - i * SimBatch
                          [] c = "rows"     -> s[c] + i * SimBatch
                          [] c = "files"    -> s[c] + i
                          [] c = "since"    -> IF i = 0 THEN s[c] ELSE 0
                          [] OTHER          -> s[c]]

\* Every set of naturals that has an element has a least one: the induction that
\* the recursive function below needs, had from the order of finite sets.
LEMMA LeastNatural ==
  ASSUME NEW T \in SUBSET Nat, T # {}
  PROVE \E x \in T : \A y \in T : x <= y
<1> DEFINE Below(x) == 0..x
           B == { Below(x) : x \in T }
<1>1. \A x \in T : Below(x) \in FiniteSubsetsOf(Nat)
  <2> TAKE x \in T
  <2>1. IsFiniteSet(0..x)
    BY FS_Interval
  <2> QED BY <2>1 DEF FiniteSubsetsOf
<1>2. B \subseteq FiniteSubsetsOf(Nat) /\ B # {}
  BY <1>1
<1>3. \E b \in B : \A c \in B : <<c, b>> \notin StrictSubsetOrdering(Nat)
  <2>1. IsWellFoundedOn(StrictSubsetOrdering(Nat), FiniteSubsetsOf(Nat))
    BY FS_StrictSubsetOrderingWellFounded
  <2> HIDE DEF B
  <2> QED BY <1>2, <2>1, WFMin
<1>4. PICK x \in T : \A y \in T : <<Below(y), Below(x)>> \notin StrictSubsetOrdering(Nat)
  BY <1>3
<1>5. ASSUME NEW y \in T, ~(x <= y)
      PROVE FALSE
  <2>1. Below(y) \subseteq Below(x) /\ x \in Below(x) /\ x \notin Below(y)
    BY <1>5
  <2>2. Below(x) \in SUBSET Nat /\ Below(y) \in SUBSET Nat
    OBVIOUS
  <2>3. <<Below(y), Below(x)>> \in StrictSubsetOrdering(Nat)
    <3> HIDE DEF Below
    <3> QED BY <2>1, <2>2 DEF StrictSubsetOrdering
  <2> QED BY <1>4, <2>3
<1> QED BY <1>5

\* One more full batch.
LEMMA AfterOne ==
  ASSUME NEW s \in [Counters -> Int], NEW i \in Nat
  PROVE  /\ After(s, 0) = s
         /\ Commit(After(s, i), SimBatch) = After(s, i + 1)
<1>0. SimBatch \in Nat
  BY SimulatorAssumption
<1>1. After(s, 0) = s
  BY <1>0 DEF After, Counters
<1>2. (i + 1) * SimBatch = i * SimBatch + SimBatch /\ i * SimBatch \in Int
  BY <1>0
<1> DEFINE k == i * SimBatch
           k1 == (i + 1) * SimBatch
<1>3. k1 = k + SimBatch /\ k \in Int
  BY <1>2
<1>5. /\ After(s, i) = [c \in Counters |-> CASE c = "buffered" -> s[c] - k
                          [] c = "rows"     -> s[c] + k
                          [] c = "files"    -> s[c] + i
                          [] c = "since"    -> IF i = 0 THEN s[c] ELSE 0
                          [] OTHER          -> s[c]]
      /\ After(s, i + 1) = [c \in Counters |-> CASE c = "buffered" -> s[c] - k1
                          [] c = "rows"     -> s[c] + k1
                          [] c = "files"    -> s[c] + (i + 1)
                          [] c = "since"    -> IF i + 1 = 0 THEN s[c] ELSE 0
                          [] OTHER          -> s[c]]
  BY DEF After
<1> HIDE DEF k, k1
<1>4. Commit(After(s, i), SimBatch) = After(s, i + 1)
  BY <1>0, <1>3, <1>5 DEF Commit, Counters
<1> QED BY <1>1, <1>4

\* The recursive function of Delivered, and its defining equation.
Batches(g, s, b) == [i \in 0..b |-> IF i = 0 THEN s ELSE Commit(g[i - 1], SimBatch)]
IsDrain(f, s, b) == f = CHOOSE g : g = Batches(g, s, b)

\* The loop of full batches, a recursive function in the model, commits b batches:
\* there is no first place where it would do otherwise.
LEMMA Drained ==
  ASSUME NEW s \in [Counters -> Int], NEW b \in Nat, NEW f, IsDrain(f, s, b)
  PROVE  f[b] = After(s, b)
<1> DEFINE h == [i \in 0..b |-> After(s, i)]
<1>1. h = Batches(h, s, b)
  <2> SUFFICES ASSUME NEW i \in 0..b
               PROVE  After(s, i) = IF i = 0 THEN s ELSE Commit(h[i - 1], SimBatch)
    BY DEF Batches
  <2>1. CASE i = 0
    BY <2>1, AfterOne
  <2>2. CASE i # 0
    <3>1. i - 1 \in Nat /\ i - 1 \in 0..b /\ (i - 1) + 1 = i
      BY <2>2
    <3>2. h[i - 1] = After(s, i - 1)
      BY <3>1
    <3>3. Commit(After(s, i - 1), SimBatch) = After(s, (i - 1) + 1)
      BY <3>1, AfterOne
    <3> HIDE DEF h
    <3> QED BY <2>2, <3>1, <3>2, <3>3
  <2> QED BY <2>1, <2>2
<1> HIDE DEF h
<1>2. f = Batches(f, s, b)
  BY <1>1 DEF IsDrain
<1> DEFINE T == { i \in 0..b : f[i] # After(s, i) }
<1>3. ASSUME T # {} PROVE FALSE
  <2>1. PICK i \in T : \A j \in T : i <= j
    <3>1. T \in SUBSET Nat
      OBVIOUS
    <3> HIDE DEF T
    <3> QED BY <1>3, <3>1, LeastNatural
  <2>2. f[i] # After(s, i) /\ i \in 0..b
    BY <2>1
  <2>3. f[i] = IF i = 0 THEN s ELSE Commit(f[i - 1], SimBatch)
    BY <1>2, <2>2 DEF Batches
  <2>4. i # 0
    BY <2>2, <2>3, AfterOne
  <2>5. i - 1 \in 0..b /\ i - 1 \in Nat /\ (i - 1) + 1 = i /\ ~(i <= i - 1)
    BY <2>2, <2>4
  <2>6. f[i - 1] = After(s, i - 1)
    BY <2>1, <2>5
  <2>7. Commit(After(s, i - 1), SimBatch) = After(s, (i - 1) + 1)
    BY <2>5, AfterOne
  <2> HIDE DEF T
  <2> QED BY <2>2, <2>3, <2>4, <2>5, <2>6, <2>7
<1>4. b \in 0..b /\ b \notin T
  BY <1>3
<1> QED BY <1>4

\* A step of the pipeline leaves a state a consumer could be in.
LEMMA StepCascade ==
  ASSUME Cascade(sim), NEW dt \in Nat, NEW puts \in Nat, Step(dt, puts)
  PROVE  Cascade(sim')
<1> DEFINE e == Elapsed(sim, dt)
<1>0. SimBatch \in Nat /\ SimBatch > 0 /\ SimFlush \in Nat
  BY SimulatorAssumption
<1>1. Cascade(e)
  <2> DEFINE later == [sim EXCEPT !["since"] = IF @ + dt < SimFlush THEN @ + dt ELSE SimFlush]
  <2>1. Cascade(later)
    BY <1>0 DEF Cascade, Counters
  <2>2. CASE later["buffered"] > 0 /\ later["since"] >= SimFlush
    <3>1. e = Commit(later, later["buffered"])
      BY <2>2 DEF Elapsed
    <3>2. later["buffered"] \in 1..SimBatch
      BY <2>1, <2>2, <1>0 DEF Cascade
    <3>3. (later["files"] + 1) * SimBatch = later["files"] * SimBatch + SimBatch
      BY <1>0, <2>1 DEF Cascade, Counters
    <3> HIDE DEF later, e
    <3>4. /\ e \in [Counters -> Int]
          /\ e["buffered"] = 0 /\ e["kafka"] = later["kafka"] /\ e["objects"] = later["objects"]
          /\ e["rows"] = later["rows"] + later["buffered"]
          /\ e["files"] = later["files"] + 1
      BY <2>1, <3>1 DEF Cascade, Commit, Counters
    <3>5. /\ later["rows"] \in Int /\ later["files"] \in Int /\ later["buffered"] \in Int
          /\ later["kafka"] \in Int /\ later["objects"] \in Int
      BY <2>1 DEF Cascade, Counters
    <3>6. later["files"] * SimBatch \in Int
      BY <3>5, <1>0
    <3>7. e["files"] * SimBatch = later["files"] * SimBatch + SimBatch
      BY <3>3, <3>4
    <3>8. e["rows"] \in e["files"]..(e["files"] * SimBatch)
      BY <1>0, <2>1, <3>2, <3>4, <3>5, <3>6, <3>7 DEF Cascade
    <3>9. /\ e["kafka"] = e["rows"] + e["buffered"]
          /\ e["buffered"] \in 0..(SimBatch - 1)
          /\ e["objects"] - e["kafka"] \in 0..2
      BY <1>0, <2>1, <3>4, <3>5 DEF Cascade
    <3> QED BY <3>4, <3>8, <3>9 DEF Cascade
  <2>3. CASE ~(later["buffered"] > 0 /\ later["since"] >= SimFlush)
    BY <2>1, <2>3 DEF Elapsed
  <2> QED BY <2>2, <2>3
<1>2. PICK n \in Deliveries(e["objects"] + puts - e["kafka"]) : sim' = Delivered(e, puts, n)
  BY DEF Step
<1> HIDE DEF e
<1> DEFINE received == [e EXCEPT !["objects"] = @ + puts, !["kafka"] = @ + n, !["buffered"] = @ + n]
           batches == received["buffered"] \div SimBatch
<1>3. /\ e["rows"] \in Int /\ e["files"] \in Int /\ e["buffered"] \in Int
      /\ e["kafka"] \in Int /\ e["objects"] \in Int /\ e["since"] \in Int
  BY <1>1 DEF Cascade, Counters
<1>4. n \in Nat /\ e["objects"] + puts - e["kafka"] - n \in 0..2
  BY <1>1, <1>3 DEF Deliveries, Cascade
<1>5. /\ received \in [Counters -> Int]
      /\ received["objects"] = e["objects"] + puts /\ received["kafka"] = e["kafka"] + n
      /\ received["buffered"] = e["buffered"] + n
      /\ received["rows"] = e["rows"] /\ received["files"] = e["files"]
  BY <1>1, <1>3, <1>4 DEF Cascade, Counters
<1>6. received["buffered"] \in Nat
  BY <1>1, <1>3, <1>4, <1>5, <1>0 DEF Cascade
<1>7. batches \in Nat /\ received["buffered"] - batches * SimBatch \in 0..(SimBatch - 1)
  BY <1>0, <1>6
<1>8. sim' = After(received, batches)
  <2> DEFINE f == CHOOSE g : g = Batches(g, received, batches)
  <2>1. Delivered(e, puts, n) = f[batches] /\ IsDrain(f, received, batches)
    BY DEF Delivered, Batches, IsDrain
  <2> HIDE DEF received, batches
  <2>2. f[batches] = After(received, batches)
    BY <1>5, <1>7, <2>1, Drained
  <2> HIDE DEF f
  <2> QED BY <1>2, <2>1, <2>2
<1> HIDE DEF received, batches
<1> DEFINE k == batches * SimBatch
<1>9. k \in Nat /\ batches <= k
  BY <1>7, <1>0
<1>10. (e["files"] + batches) * SimBatch = e["files"] * SimBatch + k
  BY <1>7, <1>3, <1>0
<1>11. received["buffered"] - k \in 0..(SimBatch - 1) /\ After(received, batches) = [c \in Counters |->
                          CASE c = "buffered" -> received[c] - k
                          [] c = "rows"     -> received[c] + k
                          [] c = "files"    -> received[c] + batches
                          [] c = "since"    -> IF batches = 0 THEN received[c] ELSE 0
                          [] OTHER          -> received[c]]
  BY <1>7 DEF After
<1> HIDE DEF k
<1>12. /\ sim' \in [Counters -> Int]
       /\ sim'["objects"] = received["objects"] /\ sim'["kafka"] = received["kafka"]
       /\ sim'["buffered"] = received["buffered"] - k
       /\ sim'["rows"] = received["rows"] + k
       /\ sim'["files"] = received["files"] + batches
  BY <1>5, <1>7, <1>8, <1>9, <1>11 DEF Counters
<1>13. e["files"] * SimBatch \in Int /\ sim'["files"] * SimBatch = e["files"] * SimBatch + k
  BY <1>0, <1>3, <1>5, <1>10, <1>12
<1>14. /\ sim'["kafka"] = sim'["rows"] + sim'["buffered"]
       /\ sim'["buffered"] \in 0..(SimBatch - 1)
       /\ sim'["objects"] - sim'["kafka"] \in 0..2
  BY <1>0, <1>1, <1>3, <1>4, <1>5, <1>9, <1>11, <1>12 DEF Cascade
<1>15. sim'["rows"] \in sim'["files"]..(sim'["files"] * SimBatch)
  BY <1>0, <1>1, <1>3, <1>5, <1>7, <1>9, <1>12, <1>13 DEF Cascade
<1> QED BY <1>12, <1>14, <1>15 DEF Cascade

\* As a predicate of the state.
SyntheticInv == Cascade(sim)

\* The synthetic pipeline never shows what a consumer could not: every event
\* is in a row or in the buffer, the buffer is below a batch, no file is empty
\* or holds more than a batch (IngestSimulator.step and _commit).
THEOREM SyntheticCascadeHolds == Spec => []SyntheticCascade
<1>1. Init => SyntheticInv
  BY SimulatorAssumption DEF Init, SimInit, SyntheticInv, Cascade, Counters
<1>2. SyntheticInv /\ [Next]_vars => SyntheticInv'
  <2> SUFFICES ASSUME Cascade(sim), [Next]_vars
               PROVE  Cascade(sim')
    BY DEF SyntheticInv
  <2>1. CASE SyntheticSample
    <3>1. PICK dt \in 1..SimFlush, puts \in 0..(SimBatch + 1) : Step(dt, puts)
      BY <2>1 DEF SyntheticSample
    <3>2. dt \in Nat /\ puts \in Nat
      BY SimulatorAssumption
    <3> QED BY <3>1, <3>2, StepCascade
  <2>2. CASE LiveSample \/ Collect \/ Draw \/ Quit \/ Exit \/ (\E w \in Workers : Thread(w)) \/ Outside
    BY <2>2 DEF LiveSample, Collect, Draw, Quit, Exit, Thread, Outside
  <2>3. CASE UNCHANGED vars
    BY <2>3 DEF vars
  <2> QED BY <2>1, <2>2, <2>3 DEF Next, Main
<1>3. SyntheticInv => SyntheticCascade
  BY DEF SyntheticInv, Cascade, SyntheticCascade
<1> QED BY <1>1, <1>2, <1>3, PTL DEF Spec
=============================================================================
