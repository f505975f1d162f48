------------------------------ MODULE Consumer ------------------------------
(***************************************************************************)
(* The consumer process (s3_event_consumer.py): main(), the poll loop of   *)
(* consume(), handle_message() and the shutdown path, around the Iceberg   *)
(* sink.  The dispatcher calls the console sink first and the Iceberg sink *)
(* second; the console sink keeps no state and its failures are logged and *)
(* swallowed, so a dispatched call is the call of the Iceberg sink, with   *)
(* SinkFatalError passing through (module Dispatcher models the fan-out).  *)
(*                                                                         *)
(* Every step between two calls to another service is one action.  The     *)
(* process may be killed between any two of them.  Whoever operates it     *)
(* starts it again after it has stopped.                                   *)
(***************************************************************************)
EXTENDS IcebergSink

VARIABLES
    pc,             \* where the process is
    resume,         \* where commit() returns to
    polled,         \* what poll() returned in this iteration
    position,       \* position[p]: the offset the next record of p is read from
    interrupted,    \* _interrupted: Ctrl-C has been seen
    cause,          \* why consume() was left
    exit            \* how the last run of the process ended

processVars == <<pc, resume, polled, position, interrupted, cause, exit>>

vars == <<serviceVars, sinkVars, processVars>>

Nothing == [kind |-> "nothing"]        \* a timeout, an end of partition, a non-fatal error
FatalError == [kind |-> "fatal"]       \* an error() that is fatal()
Record(p, o) == [kind |-> "record", partition |-> p, offset |-> o]

Holding == polled.kind = "record"

Init ==
    /\ ServicesInit
    /\ buffer = <<>>
    /\ pending = NoOffsets
    /\ failures = 0
    /\ sinceFlush = 0
    /\ backoffLeft = 0
    /\ needsReload = FALSE
    /\ inflight = NoCommit
    /\ pc = "down"
    /\ resume = "polling"
    /\ polled = Nothing
    /\ position = [p \in Partitions |-> 0]
    /\ interrupted = FALSE
    /\ cause = "none"
    /\ exit = "none"

(***************************************************************************)
(* The outside world.                                                      *)
(***************************************************************************)
Publish ==
    /\ \E p \in Partitions, k \in Payloads : PublishTo(p, k)
    /\ UNCHANGED <<sinkVars, processVars>>

OtherWriter ==
    /\ ForeignSnapshot
    /\ UNCHANGED <<sinkVars, processVars>>

Elapse ==
    /\ pc # "down"
    /\ SinkElapse
    /\ UNCHANGED <<serviceVars, processVars>>

\* request_stop: Ctrl-C only sets a flag, wherever the process is.
Interrupt ==
    /\ pc # "down"
    /\ ~interrupted
    /\ Fault("interrupt")
    /\ interrupted' = TRUE
    /\ UNCHANGED <<log, committed, table, stale, sinkVars>>
    /\ UNCHANGED <<pc, resume, polled, position, cause, exit>>

(***************************************************************************)
(* The end of a run.  What the process held in memory is gone.             *)
(***************************************************************************)
Terminate(how) ==
    /\ FreshSink
    /\ pc' = "down"
    /\ resume' = "polling"
    /\ polled' = Nothing
    /\ interrupted' = FALSE
    /\ cause' = "none"
    /\ exit' = how
    /\ UNCHANGED position

\* The process is killed.
Crash ==
    /\ pc # "down"
    /\ Fault("crash")
    /\ Terminate("killed")
    /\ UNCHANGED <<log, committed, table, stale>>

\* main() leaves consume() and enters its finally clause.
Leave(why) ==
    /\ pc' = "closing"
    /\ cause' = why
    /\ UNCHANGED <<resume, position, interrupted, exit>>

(***************************************************************************)
(* Starting: build the consumer and the sinks, open them, subscribe.       *)
(***************************************************************************)
Start ==
    /\ pc = "down"
    /\ pc' = "opening"
    /\ UNCHANGED <<resume, polled, position, interrupted, cause, exit>>
    /\ UNCHANGED <<serviceVars, sinkVars>>

\* Mutant: every run reads the topic from its beginning.
OpenReturnsAtBeginning ==
    /\ pc = "opening"
    /\ pc' = "polling"
    /\ position' = [p \in Partitions |-> 0]
    /\ exit' = "none"
    /\ stale' = FALSE
    /\ FreshSink
    /\ UNCHANGED <<log, committed, table, faults>>
    /\ UNCHANGED <<resume, polled, interrupted, cause>>

\* The sink loads the table; the consumer joins the group.  The first tick finds
\* the buffer empty and restarts the interval, so the time open() took is not
\* kept.
OpenReturns ==
    /\ pc = "opening"
    /\ pc' = "polling"
    /\ position' = [p \in Partitions |-> StartOffset(p)]
    /\ exit' = "none"
    /\ stale' = FALSE
    /\ FreshSink
    /\ UNCHANGED <<log, committed, table, faults>>
    /\ UNCHANGED <<resume, polled, interrupted, cause>>

\* A sink that cannot start ends the process before any Kafka state is touched.
OpenRaises ==
    /\ pc = "opening"
    /\ Fault("openFails")
    /\ Terminate("error")
    /\ UNCHANGED <<log, committed, table, stale>>

(***************************************************************************)
(* The poll loop: poll, then tick, then handle the message.                *)
(***************************************************************************)
PollRecord(p) ==
    /\ pc = "polling"
    /\ ~interrupted
    /\ position[p] \in Offsets(p)
    /\ polled' = Record(p, position[p])
    /\ position' = [position EXCEPT ![p] = @ + 1]
    /\ pc' = "tick"
    /\ UNCHANGED <<resume, interrupted, cause, exit>>
    /\ UNCHANGED <<serviceVars, sinkVars>>

PollNothing ==
    /\ pc = "polling"
    /\ ~interrupted
    /\ pc' = "tick"
    /\ UNCHANGED <<resume, polled, position, interrupted, cause, exit>>
    /\ UNCHANGED <<serviceVars, sinkVars>>

PollFatal ==
    /\ pc = "polling"
    /\ ~interrupted
    /\ Fault("pollFatal")
    /\ polled' = FatalError
    /\ pc' = "tick"
    /\ UNCHANGED <<resume, position, interrupted, cause, exit>>
    /\ UNCHANGED <<log, committed, table, stale, sinkVars>>

\* Mutant: Ctrl-C waits for an empty buffer.
LeaveInterruptedWhenDrained ==
    /\ pc = "polling"
    /\ interrupted
    /\ buffer = <<>>
    /\ Leave("interrupt")
    /\ UNCHANGED <<polled, serviceVars, sinkVars>>

\* The flag is looked at only here, at the top of the loop.
LeaveInterrupted ==
    /\ pc = "polling"
    /\ interrupted
    /\ Leave("interrupt")
    /\ UNCHANGED <<polled, serviceVars, sinkVars>>

\* The sink waits for commit(), which then returns to the given place.
CallCommit(from) ==
    /\ pc' = "commit"
    /\ resume' = from
    /\ UNCHANGED <<position, interrupted, exit>>

\* dispatcher.tick(), before the polled message is looked at.
Tick ==
    /\ pc = "tick"
    /\ UNCHANGED <<log, committed>>
    /\ \/ /\ TickWaits
          /\ pc' = "handle"
          /\ UNCHANGED <<resume, polled, position, interrupted, cause, exit>>
       \/ /\ TickFlushes
          /\ CallCommit("handle")
          /\ UNCHANGED <<polled, cause>>
       \/ /\ TickFails
          /\ IF Exhausted
             THEN Leave("sinkFatal") /\ UNCHANGED polled
             ELSE /\ pc' = "handle"
                  /\ UNCHANGED <<resume, polled, position, interrupted, cause, exit>>

\* Back to the top of the loop.
NextIteration ==
    /\ pc' = "polling"
    /\ UNCHANGED <<resume, position, interrupted, cause, exit>>

\* No message, or one that decode_message skips.
SkipMessage ==
    /\ pc = "handle"
    /\ \/ polled = Nothing
       \/ Holding /\ Payload(polled.partition, polled.offset) \in Undecodable
    /\ polled' = Nothing
    /\ NextIteration
    /\ UNCHANGED <<serviceVars, sinkVars>>

\* A fatal Kafka error, or an exception nothing between here and main() catches.
RaiseFromLoop ==
    /\ pc = "handle"
    /\ \/ polled = FatalError /\ Leave("kafkaFatal")
       \/ /\ Holding
          /\ Payload(polled.partition, polled.offset) \in Raising \ Undecodable
          /\ Leave("raised")
    /\ UNCHANGED <<polled, serviceVars, sinkVars>>

\* A usable message goes to the sink, whose business it is from then on.
DispatchMessage ==
    /\ pc = "handle"
    /\ Holding
    /\ polled' = Nothing
    /\ UNCHANGED <<log, committed>>
    /\ LET p == polled.partition
           o == polled.offset
       IN /\ Payload(p, o) \notin Undecodable \cup Raising
          /\ \/ /\ HandleBuffers(p, o)
                /\ IF OverLimit THEN Leave("sinkFatal") ELSE NextIteration
             \/ /\ HandleFlushes(p, o)
                /\ CallCommit("polling")
                /\ UNCHANGED cause
             \/ /\ HandleFails(p, o)
                /\ IF Exhausted \/ OverLimit THEN Leave("sinkFatal") ELSE NextIteration

(***************************************************************************)
(* Shutdown: close the sink, then the Kafka consumer.                      *)
(***************************************************************************)
ExitStatus == IF cause = "interrupt" THEN "clean" ELSE "error"

\* Mutant: a failed last flush does not spoil the exit status.
CloseIgnoringFailure ==
    /\ pc = "closing"
    /\ UNCHANGED <<log, committed>>
    /\ \/ /\ buffer = <<>>
          /\ Terminate(ExitStatus)
          /\ UNCHANGED <<table, stale, faults>>
       \/ /\ CloseFlushes
          /\ CallCommit("down")
          /\ UNCHANGED <<polled, cause>>
       \/ CloseRaises /\ Terminate(ExitStatus)

Close ==
    /\ pc = "closing"
    /\ UNCHANGED <<log, committed>>
    /\ \/ /\ buffer = <<>>
          /\ Terminate(ExitStatus)
          /\ UNCHANGED <<table, stale, faults>>
       \/ /\ CloseFlushes
          /\ CallCommit("down")
          /\ UNCHANGED <<polled, cause>>
       \/ CloseRaises /\ Terminate("error")

(***************************************************************************)
(* consumer.commit(), called synchronously by the sink.  A failure is only *)
(* logged; the broker may have recorded the offsets all the same, of every *)
(* partition or of some.                                                   *)
(***************************************************************************)
Return ==
    IF resume = "down"
    THEN Terminate(ExitStatus)
    ELSE /\ inflight' = NoCommit
         /\ pc' = resume
         /\ UNCHANGED <<buffer, pending, failures, sinceFlush, backoffLeft, needsReload>>
         /\ UNCHANGED <<resume, polled, position, interrupted, cause, exit>>

\* Mutant: commit() without offsets, which acknowledges what was read.
CommitReturnsPosition ==
    /\ pc = "commit"
    /\ committed' = position
    /\ Return
    /\ UNCHANGED <<log, table, stale, faults>>

CommitReturns ==
    /\ pc = "commit"
    /\ committed' = Acknowledged(inflight)
    /\ Return
    /\ UNCHANGED <<log, table, stale, faults>>

CommitRaises ==
    /\ pc = "commit"
    /\ Fault("commitFails")
    /\ committed' \in PartlyAcknowledged(inflight)
    /\ Return
    /\ UNCHANGED <<log, table, stale>>

Process ==
    \/ OpenReturns
    \/ \E p \in Partitions : PollRecord(p)
    \/ PollNothing
    \/ LeaveInterrupted
    \/ Tick
    \/ SkipMessage
    \/ RaiseFromLoop
    \/ DispatchMessage
    \/ CommitReturns
    \/ Close

Next ==
    \/ Process
    \/ Start
    \/ Publish
    \/ OtherWriter
    \/ Elapse
    \/ Interrupt
    \/ Crash
    \/ OpenRaises
    \/ PollFatal
    \/ CommitRaises

Spec == Init /\ [][Next]_vars
=============================================================================
