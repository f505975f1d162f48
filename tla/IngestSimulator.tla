-------------------------- MODULE IngestSimulator --------------------------
(***************************************************************************)
(* The synthetic pipeline of scripts/demo_watch.py --synthetic: objects,   *)
(* the events made of them, and commits of whole batches, or of what is    *)
(* left once the flush interval is over.                                   *)
(***************************************************************************)
EXTENDS Integers

CONSTANTS
    SimBatch,       \* batch_size
    SimFlush,       \* flush_interval
    MaxObjects      \* bound: objects put

ASSUME SimulatorAssumption ==
    SimBatch \in Nat \ {0} /\ SimFlush \in Nat \ {0} /\ MaxObjects \in Nat

VARIABLE sim        \* SimState

Counters == {"objects", "kafka", "buffered", "rows", "files", "since"}

SimInit == sim = [c \in Counters |-> 0]

\* Mutant: a commit takes what is buffered, be it more than it says.
CommitAll(s, n) ==
    [s EXCEPT !["buffered"] = 0, !["rows"] = @ + n, !["files"] = @ + 1, !["since"] = 0]

\* _commit
Commit(s, n) ==
    [s EXCEPT !["buffered"] = @ - n, !["rows"] = @ + n, !["files"] = @ + 1, !["since"] = 0]

\* Time passes first (since_flush only as far as it is compared): a remainder is committed when the interval is over.
Elapsed(s, dt) ==
    LET later == [s EXCEPT !["since"] = IF @ + dt < SimFlush THEN @ + dt ELSE SimFlush]
    IN IF later["buffered"] > 0 /\ later["since"] >= SimFlush
       THEN Commit(later, later["buffered"]) ELSE later

\* Up to two of the objects may not have an event yet.
Deliveries(pending) == IF pending <= 2 THEN {pending} ELSE (pending - 2)..pending

\* The events of this step, and then every full batch, one after the other.
Delivered(s, puts, n) ==
    LET received == [s EXCEPT !["objects"] = @ + puts, !["kafka"] = @ + n, !["buffered"] = @ + n]
        batches == received["buffered"] \div SimBatch
        drain[i \in 0..batches] ==
            IF i = 0 THEN received ELSE Commit(drain[i - 1], SimBatch)
    IN drain[batches]

Step(dt, puts) ==
    /\ sim["objects"] + puts <= MaxObjects
    /\ LET s == Elapsed(sim, dt)
       IN \E n \in Deliveries(s["objects"] + puts - s["kafka"]) : sim' = Delivered(s, puts, n)
=============================================================================
