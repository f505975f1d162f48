------------------------------- MODULE Watch -------------------------------
(***************************************************************************)
(* The dashboard (main() of scripts/demo_watch.py): one sample after the   *)
(* other, of the live cluster or of the synthetic pipeline, until "q".     *)
(***************************************************************************)
EXTENDS LiveCluster, IngestSimulator

VARIABLE synthetic      \* --synthetic

vars == <<clusterVars, sim, synthetic>>

Init ==
    /\ ClusterInit
    /\ SimInit
    /\ synthetic \in BOOLEAN

LiveSample ==
    /\ ~synthetic
    /\ pc \in {"starting", "resting"}
    /\ BeginSample
    /\ UNCHANGED <<sim, synthetic>>

Collect ==
    /\ Await
    /\ UNCHANGED <<sim, synthetic>>

\* take_sample() with a simulator: the step is the sample.  The interval is a
\* setting of the command line and of the keys, the puts are drawn.
SyntheticSample ==
    /\ synthetic
    /\ pc \in {"starting", "resting"}
    /\ pc' = "resting"
    /\ \E dt \in 1..SimFlush, puts \in 0..(SimBatch + 1) : Step(dt, puts)
    /\ UNCHANGED <<environment, pool, awaiting, futures, reading, wasDown, leftOver, floor>>
    /\ UNCHANGED <<synthetic>>

\* render_tui() or render_plain(): a frame of this sample.
Draw ==
    /\ pc = "showing"
    /\ pc' = "resting"
    /\ ForgetSample
    /\ UNCHANGED <<pool, sim, synthetic>>

\* "q" between two samples, the end of --once, or an interrupt at any time.
Quit ==
    /\ pc \in {"collecting", "resting"}
    /\ pc' = "closing"
    /\ CloseCluster
    /\ UNCHANGED <<sim, synthetic>>

\* The interpreter joins the pool's threads before it ends.
Exit ==
    /\ pc = "closing"
    /\ Busy = {}
    /\ pc' = "exited"
    /\ UNCHANGED <<environment, pool, awaiting, futures, reading, wasDown, leftOver, floor>>
    /\ UNCHANGED <<sim, synthetic>>

Thread(w) ==
    /\ Work(w)
    /\ UNCHANGED <<sim, synthetic>>

Outside ==
    /\ ~synthetic
    /\ Environment
    /\ UNCHANGED <<sim, synthetic>>

\* What the main thread does of itself.
Main == LiveSample \/ Collect \/ Draw \/ Exit

Next ==
    \/ Main
    \/ SyntheticSample
    \/ Quit
    \/ \E w \in Workers : Thread(w)
    \/ Outside

Spec == Init /\ [][Next]_vars

\* The main thread and the pool's threads run; nothing is assumed of the
\* services, of the pipeline or of whoever sits at the keyboard.
Fairness == WF_vars(Main) /\ WF_vars(\E w \in Workers : Thread(w))

FairSpec == Spec /\ Fairness

-----------------------------------------------------------------------------
\* A layer whose service answered throughout the sample is part of what is
\* shown, as long as the jobs left over from earlier samples and those of the
\* layers that were down do not take every thread of the pool.
HealthyLayersShown ==
    pc = "showing" /\ leftOver + Cardinality(wasDown) < MaxWorkers =>
        \A l \in Range(Layers) \ wasDown : futures[l] = "answered"

\* The table's row count belongs to the snapshots counted beside it and is not
\* older than the sample, unless a collector of an earlier sample was still
\* using the same table handle.
IcebergIsCurrent ==
    pc = "showing" /\ leftOver = 0 /\ reading.rows # Unknown =>
        /\ reading.rows = reading.snapshots
        /\ reading.rows \in (floor - 1)..(version - 1)

\* What the synthetic pipeline shows is a state of a consumer: every event is
\* in a row or in the buffer, the buffer is below a batch, up to two objects
\* have no event yet, and no file holds more than a batch.
SyntheticCascade ==
    /\ sim["kafka"] = sim["rows"] + sim["buffered"]
    /\ sim["buffered"] \in 0..(SimBatch - 1)
    /\ sim["objects"] - sim["kafka"] \in 0..2
    /\ sim["rows"] \in sim["files"]..(sim["files"] * SimBatch)

\* A sample ends whatever the services do.
SampleEnds == pc = "collecting" ~> pc # "collecting"

\* Once every service answers for good, complete samples are shown again: what
\* a long outage has left in the pool does not stay there.
CompleteAgain ==
    <>[](~synthetic /\ up = Range(Layers) /\ pc \notin {"closing", "exited"}) =>
        []<>(pc = "showing" /\ \A l \in Range(Layers) : futures[l] = "answered")

\* A dashboard that was told to quit ends once every service answers; until
\* then a collector that hangs keeps the process alive.
QuitEnds == <>[](up = Range(Layers)) => (pc = "closing" ~> pc = "exited")
=============================================================================
