----------------------------- MODULE Dispatcher -----------------------------
(***************************************************************************)
(* The fan-out to several sinks (s3events/sinks/base.py) and the part of   *)
(* main() and consume() that drives it.  A sink is anything with open,     *)
(* handle, tick and close; each call may return, raise an exception the    *)
(* consumer can live with, or raise SinkFatalError.  Calls of sinks are    *)
(* the atomic steps; everything else of the process is between them.       *)
(***************************************************************************)
EXTENDS Integers, Sequences

CONSTANTS
    NumSinks,       \* how many sinks the dispatcher was built with
    MaxEvents,      \* bound: how many messages are dispatched
    UnwindOutcomes  \* how a sink's close() may end while open() unwinds

Outcomes == {"returns", "raises", "fatal"}

ASSUME DispatcherAssumption ==
    /\ NumSinks \in Nat \ {0}
    /\ MaxEvents \in Nat
    /\ UnwindOutcomes \subseteq Outcomes

Sinks == 1..NumSinks

VARIABLES
    pc,             \* the dispatcher call in progress: "open", "unwind", ...
    next,           \* the sink it calls next
    opened,         \* the sinks whose open() has returned
    calls,          \* calls[s]: the messages sink s has been given, in order
    shut,           \* the sinks whose close() has been called
    failedClose,    \* the sinks whose close() did not return
    event,          \* the message being dispatched, 0 before the first
    stopping,       \* a SinkFatalError is on its way to main()
    exitCode        \* main()'s exit code so far

vars == <<pc, next, opened, calls, shut, failedClose, event, stopping, exitCode>>

Init ==
    /\ pc = "open"
    /\ next = 1
    /\ opened = {}
    /\ calls = [s \in Sinks |-> <<>>]
    /\ shut = {}
    /\ failedClose = {}
    /\ event = 0
    /\ stopping = FALSE
    /\ exitCode = 0

(***************************************************************************)
(* open(): every sink in order; a failure closes the opened ones, last     *)
(* first, and is raised again.                                             *)
(***************************************************************************)
OpenReturns ==
    /\ pc = "open"
    /\ opened' = opened \cup {next}
    /\ IF next = NumSinks
       THEN pc' = "poll" /\ next' = 1
       ELSE pc' = "open" /\ next' = next + 1
    /\ UNCHANGED <<calls, shut, failedClose, event, stopping, exitCode>>

OpenRaises ==
    /\ pc = "open"
    /\ exitCode' = 1
    /\ next' = next - 1
    /\ pc' = IF next = 1 THEN "exited" ELSE "unwind"
    /\ UNCHANGED <<opened, calls, shut, failedClose, event, stopping>>

\* close() of the sink whose turn it is; the one before it comes next.
Shut(outcome) ==
    /\ shut' = shut \cup {next}
    /\ failedClose' = IF outcome = "returns" THEN failedClose ELSE failedClose \cup {next}
    /\ next' = next - 1
    /\ UNCHANGED <<opened, calls, event, stopping>>

\* Mutant: the unwinding stops at the first sink that fails to close.
UnwindGivesUp(outcome) ==
    /\ pc = "unwind"
    /\ Shut(outcome)
    /\ pc' = IF outcome # "returns" \/ next = 1 THEN "exited" ELSE "unwind"
    /\ UNCHANGED exitCode

\* _safely lets a SinkFatalError through here: it ends the unwinding.
Unwind(outcome) ==
    /\ pc = "unwind"
    /\ Shut(outcome)
    /\ pc' = IF outcome = "fatal" \/ next = 1 THEN "exited" ELSE "unwind"
    /\ UNCHANGED exitCode

(***************************************************************************)
(* consume(): poll, tick every sink, then hand the message to every sink.  *)
(***************************************************************************)
Poll ==
    /\ pc = "poll"
    /\ next' = 1
    /\ \/ /\ event < MaxEvents
          /\ event' = event + 1
          /\ pc' = "tick"
       \/ /\ pc' = "idle"
          /\ UNCHANGED event
    /\ UNCHANGED <<opened, calls, shut, failedClose, stopping, exitCode>>

\* Ctrl-C, seen at the top of the loop, or a fatal Kafka error from poll().
LeaveLoop ==
    /\ pc = "poll"
    /\ pc' = "close"
    /\ next' = NumSinks
    /\ exitCode' \in {0, 1}
    /\ UNCHANGED <<opened, calls, shut, failedClose, event, stopping>>

\* Mutant: an ordinary exception of one sink ends the round for the others.
AfterCallSkipping(outcome, then) ==
    /\ stopping' = (outcome = "fatal")
    /\ CASE outcome = "fatal" -> pc' = "close" /\ next' = NumSinks /\ exitCode' = 1
         [] outcome = "returns" /\ next < NumSinks -> next' = next + 1 /\ UNCHANGED <<pc, exitCode>>
         [] OTHER -> pc' = then /\ next' = 1 /\ UNCHANGED exitCode

\* Mutant: a SinkFatalError is logged like any other exception.
AfterCallSwallowing(outcome, then) ==
    /\ stopping' = (outcome = "fatal" \/ stopping)
    /\ IF next < NumSinks
       THEN next' = next + 1 /\ UNCHANGED <<pc, exitCode>>
       ELSE pc' = then /\ next' = 1 /\ UNCHANGED exitCode

\* _safely: an exception is logged and the next sink called, or the round is
\* over; a SinkFatalError leaves the loop at once, and main() closes the sinks.
AfterCall(outcome, then) ==
    /\ stopping' = (outcome = "fatal")
    /\ CASE outcome = "fatal" -> pc' = "close" /\ next' = NumSinks /\ exitCode' = 1
         [] outcome # "fatal" /\ next < NumSinks -> next' = next + 1 /\ UNCHANGED <<pc, exitCode>>
         [] OTHER -> pc' = then /\ next' = 1 /\ UNCHANGED exitCode

\* tick(), with a message polled or without one.
Tick(outcome) ==
    /\ pc \in {"tick", "idle"}
    /\ AfterCall(outcome, IF pc = "tick" THEN "handle" ELSE "poll")
    /\ UNCHANGED <<opened, calls, shut, failedClose, event>>

\* dispatch(): whatever the sink makes of the message, it has been given it.
Handle(outcome) ==
    /\ pc = "handle"
    /\ calls' = [calls EXCEPT ![next] = Append(@, event)]
    /\ AfterCall(outcome, "poll")
    /\ UNCHANGED <<opened, shut, failedClose, event>>

(***************************************************************************)
(* close(): every sink, last first, whatever the others did.               *)
(***************************************************************************)
\* Mutant: only the sink closed last decides the exit code.
CloseSinkForgetting(outcome) ==
    /\ pc = "close"
    /\ Shut(outcome)
    /\ pc' = IF next = 1 THEN "exited" ELSE "close"
    /\ exitCode' = IF outcome # "returns" /\ next = 1 THEN 1 ELSE exitCode

CloseSink(outcome) ==
    /\ pc = "close"
    /\ Shut(outcome)
    /\ pc' = IF next = 1 THEN "exited" ELSE "close"
    /\ exitCode' = IF outcome = "returns" THEN exitCode ELSE 1

Next ==
    \/ OpenReturns
    \/ OpenRaises
    \/ Poll
    \/ LeaveLoop
    \/ \E outcome \in Outcomes : Tick(outcome) \/ Handle(outcome) \/ CloseSink(outcome)
    \/ \E outcome \in UnwindOutcomes : Unwind(outcome)

Spec == Init /\ [][Next]_vars

(***************************************************************************)
(* Properties.                                                             *)
(***************************************************************************)
\* One sink's trouble is not another's: between two rounds every sink has been
\* given every message, in order, whatever exceptions the others raised.
SinksIsolated ==
    pc = "poll" => \A s \in Sinks : calls[s] = [i \in 1..event |-> i]

\* A sink that must stop stops the process: no sink is given a message or
\* ticked after a SinkFatalError, and the exit code is not 0.
FatalStopsEverything ==
    stopping => pc \in {"close", "exited"} /\ exitCode = 1

\* However the process ends, each sink that was opened has been closed, and no
\* other one ("closing any already opened if one fails"; "every sink gets its
\* chance to shut down").
OpenedSinksAreClosed == pc = "exited" => shut = opened

\* Exit code 0 is the word of every sink: all were closed, none failed, all
\* saw every message.
ExitZeroIsClean ==
    pc = "exited" /\ exitCode = 0 =>
        /\ shut = Sinks /\ failedClose = {}
        /\ \A s \in Sinks : calls[s] = [i \in 1..event |-> i]
=============================================================================
