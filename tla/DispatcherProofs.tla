-------------------------- MODULE DispatcherProofs --------------------------
(***************************************************************************)
(* Proofs, for any number of sinks and messages and whatever each call     *)
(* does, of what the dispatcher promises main().                           *)
(***************************************************************************)
EXTENDS Dispatcher, SequenceTheorems, TLAPS

\* The messages up to the n-th.
UpTo(n) == [i \in 1..n |-> i]

Running == {"poll", "idle", "tick", "handle"}

\* How many messages sink s has been given.
Given(s) == IF pc = "tick" \/ (pc = "handle" /\ s >= next) THEN event - 1 ELSE event

Types ==
    /\ pc \in Running \cup {"open", "unwind", "close", "exited"}
    /\ next \in Nat
    /\ event \in Nat
    /\ exitCode \in {0, 1}

\* Before the loop: the sinks opened are those before the next one, and the
\* unwinding takes them back one by one.
OpeningInv ==
    /\ pc = "open" =>
          /\ next \in 1..NumSinks
          /\ opened = 1..(next - 1) /\ shut = {} /\ failedClose = {}
          /\ event = 0 /\ stopping = FALSE /\ exitCode = 0
          /\ calls = [s \in Sinks |-> UpTo(0)]
    /\ pc = "unwind" =>
          /\ next \in Sinks /\ opened \subseteq Sinks
          /\ opened = shut \cup 1..next
          /\ stopping = FALSE /\ exitCode = 1

\* In the loop every sink has been given what its turn says.
LoopInv ==
    pc \in Running =>
        /\ next \in Sinks /\ opened = Sinks /\ shut = {} /\ failedClose = {}
        /\ stopping = FALSE /\ exitCode = 0
        /\ pc \in {"tick", "handle"} => event > 0
        /\ calls = [s \in Sinks |-> UpTo(Given(s))]

\* Closing: what is not shut yet lies before the next one.
ClosingInv ==
    /\ pc \in {"close", "exited"} =>
          /\ stopping \in BOOLEAN
          /\ stopping => exitCode = 1
          /\ exitCode = 0 => failedClose = {} /\ calls = [s \in Sinks |-> UpTo(event)]
    /\ pc = "close" =>
          /\ next \in Sinks /\ opened = Sinks
          /\ shut = (next + 1)..NumSinks
    /\ pc = "exited" =>
          /\ "fatal" \notin UnwindOutcomes => shut = opened
          /\ exitCode = 0 => shut = Sinks

IInv == Types /\ OpeningInv /\ LoopInv /\ ClosingInv

\* The sinks called so far, when the next one has been called.
LEMMA UpToGrows ==
    ASSUME NEW n \in Nat
    PROVE  Append(UpTo(n), n + 1) = UpTo(n + 1)
<1>1. UpTo(n) \in Seq(Nat) /\ Len(UpTo(n)) = n
  <2>1. UpTo(n) \in [1..n -> Nat]
    BY DEF UpTo
  <2>2. UpTo(n) \in Seq(Nat)
    BY <2>1, SeqDef
  <2>3. DOMAIN UpTo(n) = 1..n
    BY DEF UpTo
  <2> QED
    BY <2>2, <2>3, LenProperties
<1>2. /\ Append(UpTo(n), n + 1) \in Seq(Nat)
      /\ Len(Append(UpTo(n), n + 1)) = n + 1
      /\ Append(UpTo(n), n + 1)[n + 1] = n + 1
      /\ \A i \in 1..n : Append(UpTo(n), n + 1)[i] = i
  BY <1>1, AppendProperties DEF UpTo
<1>3. \A i \in 1..(n + 1) : Append(UpTo(n), n + 1)[i] = i
  BY <1>2
<1> DEFINE longer == Append(UpTo(n), n + 1)
<1>4. longer \in [1..(n + 1) -> Nat] /\ \A i \in 1..(n + 1) : longer[i] = i
  BY <1>2, <1>3, LenProperties
<1> HIDE DEF longer
<1>5. longer = [i \in 1..(n + 1) |-> i]
  BY <1>4
<1> QED
  BY <1>5 DEF longer, UpTo

\* A call ends the round, by SinkFatalError, or passes on to what follows.
LEMMA AfterCallEffect ==
    ASSUME NEW outcome \in Outcomes, NEW then, next \in Sinks, AfterCall(outcome, then)
    PROVE  \/ /\ stopping' = TRUE /\ exitCode' = 1
              /\ pc' = "close" /\ next' = NumSinks
           \/ /\ stopping' = FALSE /\ exitCode' = exitCode
              /\ next < NumSinks /\ next' = next + 1 /\ pc' = pc
           \/ /\ stopping' = FALSE /\ exitCode' = exitCode
              /\ next = NumSinks /\ next' = 1 /\ pc' = then
<1>1. NumSinks \in Nat \ {0} /\ next \in Nat /\ next <= NumSinks
  BY DispatcherAssumption DEF Sinks
<1>2. CASE outcome = "fatal"
  BY <1>2 DEF AfterCall
<1>3. CASE outcome # "fatal" /\ next < NumSinks
  BY <1>3 DEF AfterCall
<1>4. CASE outcome # "fatal" /\ next = NumSinks
  BY <1>1, <1>4 DEF AfterCall
<1>5. next < NumSinks \/ next = NumSinks
  BY <1>1
<1> QED
  BY <1>2, <1>3, <1>4, <1>5

\* No sink has been opened.
LEMMA InvInit == Init => IInv
<1> SUFFICES ASSUME Init PROVE IInv
  OBVIOUS
<1>1. UpTo(0) = <<>>
  BY DEF UpTo
<1> QED
  BY <1>1, DispatcherAssumption
  DEF Init, IInv, Types, OpeningInv, LoopInv, ClosingInv, Running, Sinks

\* Opening takes the sinks in order.
LEMMA InvOpen == IInv /\ (OpenReturns \/ OpenRaises) => IInv'
<1> SUFFICES ASSUME IInv, OpenReturns \/ OpenRaises PROVE IInv'
  OBVIOUS
<1>1. /\ pc = "open" /\ next \in 1..NumSinks /\ NumSinks \in Nat \ {0}
      /\ opened = 1..(next - 1) /\ shut = {} /\ failedClose = {}
      /\ event = 0 /\ stopping = FALSE /\ exitCode = 0
      /\ calls = [s \in Sinks |-> UpTo(0)]
  BY DispatcherAssumption DEF IInv, OpeningInv, OpenReturns, OpenRaises
<1>2. CASE OpenReturns
  <2>1. /\ opened' = 1..next
        /\ UNCHANGED <<calls, shut, failedClose, event, stopping, exitCode>>
    BY <1>1, <1>2 DEF OpenReturns
  <2>2. CASE next = NumSinks
    <3>1. pc' = "poll" /\ next' = 1
      BY <1>2, <2>2 DEF OpenReturns
    <3>2. \A s : Given(s)' = 0
      BY <1>1, <2>1, <3>1 DEF Given
    <3> QED
      BY <1>1, <2>1, <2>2, <3>1, <3>2
      DEF IInv, Types, OpeningInv, LoopInv, ClosingInv, Running, Sinks
  <2>3. CASE next # NumSinks
    <3>1. pc' = "open" /\ next' = next + 1
      BY <1>2, <2>3 DEF OpenReturns
    <3> QED
      BY <1>1, <2>1, <2>3, <3>1
      DEF IInv, Types, OpeningInv, LoopInv, ClosingInv, Running, Sinks
  <2> QED
    BY <2>2, <2>3
<1>3. CASE OpenRaises
  <2>1. /\ exitCode' = 1 /\ next' = next - 1
        /\ pc' = IF next = 1 THEN "exited" ELSE "unwind"
        /\ UNCHANGED <<opened, calls, shut, failedClose, event, stopping>>
    BY <1>3 DEF OpenRaises
  <2>2. CASE next = 1
    <3>1. /\ pc' = "exited" /\ next' = 0 /\ event' = 0 /\ stopping' = FALSE /\ exitCode' = 1
          /\ opened' = {} /\ shut' = {}
      BY <1>1, <2>1, <2>2
    <3>2. Types' /\ OpeningInv' /\ LoopInv'
      BY <3>1 DEF Types, OpeningInv, LoopInv, Running
    <3>3. ClosingInv'
      <4>1. stopping' \in BOOLEAN /\ ~stopping'
        BY <3>1, Zenon
      <4>2. exitCode' # 0 /\ pc' # "close" /\ shut' = opened'
        BY <3>1
      <4> QED
        BY <4>1, <4>2, Zenon DEF ClosingInv
    <3> QED
      BY <3>2, <3>3 DEF IInv
  <2>3. CASE next # 1
    <3>1. next' \in Sinks /\ opened' = shut' \cup 1..next' /\ opened' \subseteq Sinks
      BY <1>1, <2>1, <2>3 DEF Sinks
    <3> QED
      BY <1>1, <2>1, <2>3, <3>1 DEF IInv, Types, OpeningInv, LoopInv, ClosingInv, Running, Sinks
  <2> QED
    BY <2>2, <2>3
<1> QED
  BY <1>2, <1>3

\* The unwinding closes the opened sinks, last first.
LEMMA InvUnwind ==
    ASSUME IInv, NEW outcome \in UnwindOutcomes, Unwind(outcome)
    PROVE  IInv'
<1>1. /\ pc = "unwind" /\ next \in Sinks /\ NumSinks \in Nat \ {0}
      /\ opened \subseteq Sinks /\ opened = shut \cup 1..next
      /\ stopping = FALSE /\ exitCode = 1
  BY DispatcherAssumption DEF IInv, OpeningInv, Unwind
<1>2. /\ shut' = shut \cup {next} /\ next' = next - 1
      /\ pc' = IF outcome = "fatal" \/ next = 1 THEN "exited" ELSE "unwind"
      /\ UNCHANGED <<opened, calls, event, stopping, exitCode>>
  BY DEF Unwind, Shut
<1>3. next \in Nat /\ next >= 1 /\ next <= NumSinks
  BY <1>1 DEF Sinks
<1>4. opened' = shut' \cup 1..next'
  BY <1>1, <1>2, <1>3
<1>5. CASE pc' = "unwind"
  <2>1. next' \in Sinks
    BY <1>1, <1>2, <1>3, <1>5 DEF Sinks
  <2> QED
    BY <1>1, <1>2, <1>4, <1>5, <2>1
    DEF IInv, Types, OpeningInv, LoopInv, ClosingInv, Running, Sinks
<1>6. CASE pc' = "exited"
  <2>1. "fatal" \notin UnwindOutcomes => next = 1
    BY <1>2, <1>6
  <2>2. "fatal" \notin UnwindOutcomes => shut' = opened'
    BY <1>2, <1>4, <2>1
  <2>3. next' \in Nat /\ event' \in Nat /\ stopping' = FALSE /\ exitCode' = 1
    BY <1>1, <1>2, <1>3 DEF IInv, Types
  <2>4. Types' /\ OpeningInv' /\ LoopInv'
    BY <1>6, <2>3 DEF Types, OpeningInv, LoopInv, Running
  <2>5. ClosingInv'
    <3>1. stopping' \in BOOLEAN /\ ~stopping'
      BY <2>3, Zenon
    <3>2. exitCode' # 0 /\ pc' # "close"
      BY <1>6, <2>3
    <3> QED
      BY <2>2, <3>1, <3>2, Zenon DEF ClosingInv
  <2> QED
    BY <2>4, <2>5 DEF IInv
<1> QED
  BY <1>2, <1>5, <1>6

\* A round begins with no sink called.
LEMMA InvPoll == IInv /\ (Poll \/ LeaveLoop) => IInv'
<1> SUFFICES ASSUME IInv, Poll \/ LeaveLoop PROVE IInv'
  OBVIOUS
<1>1. /\ pc = "poll" /\ opened = Sinks /\ shut = {} /\ failedClose = {}
      /\ stopping = FALSE /\ exitCode = 0 /\ event \in Nat /\ NumSinks \in Nat \ {0}
      /\ calls = [s \in Sinks |-> UpTo(event)]
  BY DispatcherAssumption DEF IInv, Types, LoopInv, Running, Given, Poll, LeaveLoop
<1>2. CASE Poll
  <2>1. next' = 1 /\ UNCHANGED <<opened, calls, shut, failedClose, stopping, exitCode>>
        /\ \/ event' = event + 1 /\ pc' = "tick"
           \/ event' = event /\ pc' = "idle"
    BY <1>2 DEF Poll
  <2>2. \A s \in Sinks : Given(s)' = event
    BY <1>1, <2>1 DEF Given
  <2>3. calls' = [s \in Sinks |-> UpTo(Given(s)')]
    BY <1>1, <2>1, <2>2
  <2>4. LoopInv'
    BY <1>1, <2>1, <2>3 DEF LoopInv, Running, Sinks
  <2> QED
    BY <1>1, <2>1, <2>4 DEF IInv, Types, OpeningInv, ClosingInv, Running
<1>3. CASE LeaveLoop
  <2>1. /\ pc' = "close" /\ next' = NumSinks /\ exitCode' \in {0, 1}
        /\ UNCHANGED <<opened, calls, shut, failedClose, event, stopping>>
    BY <1>3 DEF LeaveLoop
  <2>2. (NumSinks + 1)..NumSinks = {} /\ NumSinks \in Sinks
    BY <1>1 DEF Sinks
  <2>3. shut' = (next' + 1)..NumSinks /\ next' \in Sinks /\ next' \in Nat
    BY <1>1, <2>1, <2>2
  <2> QED
    BY <1>1, <2>1, <2>3 DEF IInv, Types, OpeningInv, LoopInv, ClosingInv, Running
<1> QED
  BY <1>2, <1>3

\* A call that ends the loop, whatever it has been given before.
LEMMA InvFatal ==
    ASSUME IInv, pc \in Running, UNCHANGED <<opened, shut, failedClose, event>>,
           stopping' = TRUE, exitCode' = 1, pc' = "close", next' = NumSinks
    PROVE  IInv'
<1>1. /\ opened = Sinks /\ shut = {} /\ event \in Nat /\ NumSinks \in Nat \ {0}
  BY DispatcherAssumption DEF IInv, Types, LoopInv
<1>2. (NumSinks + 1)..NumSinks = {}
  BY <1>1
<1> QED
  BY <1>1, <1>2 DEF IInv, Types, OpeningInv, LoopInv, ClosingInv, Running, Sinks

\* A tick leaves the account of the messages alone.
LEMMA InvTick ==
    ASSUME IInv, NEW outcome \in Outcomes, Tick(outcome)
    PROVE  IInv'
<1>1. /\ pc \in {"tick", "idle"} /\ next \in Sinks
      /\ opened = Sinks /\ shut = {} /\ failedClose = {}
      /\ stopping = FALSE /\ exitCode = 0 /\ event \in Nat /\ NumSinks \in Nat \ {0}
      /\ pc = "tick" => event > 0
      /\ calls = [s \in Sinks |-> UpTo(Given(s))]
  BY DispatcherAssumption DEF IInv, Types, LoopInv, Running, Tick
<1>2. UNCHANGED <<opened, calls, shut, failedClose, event>>
      /\ AfterCall(outcome, IF pc = "tick" THEN "handle" ELSE "poll")
  BY DEF Tick
<1>3. CASE stopping' = TRUE /\ exitCode' = 1 /\ pc' = "close" /\ next' = NumSinks
  BY <1>1, <1>2, <1>3, InvFatal DEF Running
<1>4. CASE /\ stopping' = FALSE /\ exitCode' = exitCode
           /\ \/ next < NumSinks /\ next' = next + 1 /\ pc' = pc
              \/ next = NumSinks /\ next' = 1 /\ pc' = (IF pc = "tick" THEN "handle" ELSE "poll")
  <2>1. next' \in Sinks
    BY <1>1, <1>4 DEF Sinks
  <2>2. pc' \in Running /\ (pc = "tick" <=> pc' \in {"tick", "handle"})
        /\ (pc' = "handle" => next' = 1)
    BY <1>1, <1>4 DEF Running
  <2>3. \A s \in Sinks : Given(s)' = Given(s)
    BY <1>1, <1>2, <2>2 DEF Given, Sinks
  <2>4. calls' = [s \in Sinks |-> UpTo(Given(s)')]
    BY <1>1, <1>2, <2>3
  <2>5. LoopInv'
    BY <1>1, <1>2, <1>4, <2>1, <2>2, <2>4 DEF LoopInv
  <2>6. next' \in Nat /\ event' \in Nat /\ exitCode' = 0
    BY <1>1, <1>2, <1>4, <2>1 DEF Sinks
  <2> QED
    BY <2>2, <2>5, <2>6 DEF IInv, Types, OpeningInv, ClosingInv, Running
<1> QED
  BY <1>1, <1>2, <1>3, <1>4, AfterCallEffect

\* Each sink of a round is given the message in its turn.
LEMMA InvHandle ==
    ASSUME IInv, NEW outcome \in Outcomes, Handle(outcome)
    PROVE  IInv'
<1>1. /\ pc = "handle" /\ next \in Sinks
      /\ opened = Sinks /\ shut = {} /\ failedClose = {}
      /\ stopping = FALSE /\ exitCode = 0 /\ event \in Nat /\ NumSinks \in Nat \ {0}
      /\ event > 0
      /\ calls = [s \in Sinks |-> UpTo(Given(s))]
  BY DispatcherAssumption DEF IInv, Types, LoopInv, Running, Handle
<1>2. /\ calls' = [calls EXCEPT ![next] = Append(@, event)]
      /\ UNCHANGED <<opened, shut, failedClose, event>>
      /\ AfterCall(outcome, "poll")
  BY DEF Handle
<1>3. CASE stopping' = TRUE /\ exitCode' = 1 /\ pc' = "close" /\ next' = NumSinks
  BY <1>1, <1>2, <1>3, InvFatal DEF Running
<1>4. CASE /\ stopping' = FALSE /\ exitCode' = exitCode
           /\ \/ next < NumSinks /\ next' = next + 1 /\ pc' = "handle"
              \/ next = NumSinks /\ next' = 1 /\ pc' = "poll"
  <2>1. next' \in Sinks /\ pc' \in Running
    BY <1>1, <1>4 DEF Sinks, Running
  <2>2. Append(UpTo(event - 1), event) = UpTo(event)
    <3>1. event - 1 \in Nat /\ (event - 1) + 1 = event
      BY <1>1
    <3> QED
      BY <3>1, UpToGrows
  <2>3. calls'[next] = UpTo(event)
    <3>1. Given(next) = event - 1
      BY <1>1 DEF Given, Sinks
    <3>2. calls[next] = UpTo(event - 1)
      BY <1>1, <3>1
    <3> QED
      BY <1>1, <1>2, <2>2, <3>2
  <2>4. ASSUME NEW s \in Sinks
        PROVE  calls'[s] = UpTo(Given(s)')
    <3>1. s \in Nat /\ next \in Nat /\ s <= NumSinks
      BY <1>1 DEF Sinks
    <3>2. CASE s = next
      <4>1. Given(s)' = event
        BY <1>1, <1>2, <1>4, <3>1, <3>2 DEF Given
      <4> QED
        BY <2>3, <3>2, <4>1
    <3>3. CASE s # next
      <4>1. calls'[s] = UpTo(Given(s))
        BY <1>1, <1>2, <3>3
      <4>2. Given(s)' = Given(s)
        BY <1>1, <1>2, <1>4, <3>1, <3>3 DEF Given
      <4> QED
        BY <4>1, <4>2
    <3> QED
      BY <3>2, <3>3
  <2>5. calls' = [s \in Sinks |-> UpTo(Given(s)')]
    <3>1. calls' = [s \in Sinks |-> calls'[s]]
      BY <1>1, <1>2
    <3> QED
      BY <2>4, <3>1
  <2>6. LoopInv'
    BY <1>1, <1>2, <1>4, <2>1, <2>5 DEF LoopInv
  <2>7. next' \in Nat /\ event' \in Nat /\ exitCode' = 0
    BY <1>1, <1>2, <1>4, <2>1 DEF Sinks
  <2> QED
    BY <2>1, <2>6, <2>7 DEF IInv, Types, OpeningInv, ClosingInv, Running
<1> QED
  BY <1>1, <1>2, <1>3, <1>4, AfterCallEffect

\* Each opened sink is closed in its turn, and a failure is remembered.
LEMMA InvCloseSink ==
    ASSUME IInv, NEW outcome \in Outcomes, CloseSink(outcome)
    PROVE  IInv'
<1>1. /\ pc = "close" /\ next \in Sinks /\ opened = Sinks /\ shut = (next + 1)..NumSinks
      /\ event \in Nat /\ exitCode \in {0, 1} /\ NumSinks \in Nat \ {0}
      /\ stopping \in BOOLEAN /\ (stopping => exitCode = 1)
      /\ exitCode = 0 => failedClose = {} /\ calls = [s \in Sinks |-> UpTo(event)]
  BY DispatcherAssumption DEF IInv, Types, ClosingInv, CloseSink
<1>2. /\ shut' = shut \cup {next} /\ next' = next - 1
      /\ failedClose' = IF outcome = "returns" THEN failedClose ELSE failedClose \cup {next}
      /\ pc' = IF next = 1 THEN "exited" ELSE "close"
      /\ exitCode' = IF outcome = "returns" THEN exitCode ELSE 1
      /\ UNCHANGED <<opened, calls, event, stopping>>
  BY DEF CloseSink, Shut
<1>3. next \in Nat /\ next >= 1 /\ next <= NumSinks
  BY <1>1 DEF Sinks
<1>4. shut' = next..NumSinks
  BY <1>1, <1>2, <1>3
<1>5. /\ exitCode' \in {0, 1} /\ next' \in Nat /\ event' \in Nat
      /\ stopping' \in BOOLEAN /\ (stopping' => exitCode' = 1)
      /\ exitCode' = 0 => failedClose' = {} /\ calls' = [s \in Sinks |-> UpTo(event')]
  BY <1>1, <1>2, <1>3
<1>6. CASE next = 1
  BY <1>1, <1>2, <1>4, <1>5, <1>6
  DEF IInv, Types, OpeningInv, LoopInv, ClosingInv, Running, Sinks
<1>7. CASE next # 1
  <2>1. next' \in Sinks /\ next' + 1 = next
    BY <1>1, <1>2, <1>3, <1>7 DEF Sinks
  <2> QED
    BY <1>1, <1>2, <1>4, <1>5, <1>7, <2>1
    DEF IInv, Types, OpeningInv, LoopInv, ClosingInv, Running
<1> QED
  BY <1>6, <1>7

\* Every step keeps the invariant.
LEMMA InvNext == IInv /\ [Next]_vars => IInv'
<1> SUFFICES ASSUME IInv, [Next]_vars PROVE IInv'
  OBVIOUS
<1>1. CASE UNCHANGED vars
  BY <1>1 DEF vars, IInv, Types, OpeningInv, LoopInv, ClosingInv, Given
<1>2. CASE Next
  BY <1>2, InvOpen, InvUnwind, InvPoll, InvTick, InvHandle, InvCloseSink DEF Next
<1> QED
  BY <1>1, <1>2

\* The invariant holds in every state.
LEMMA InvAlways == Spec => []IInv
BY InvInit, InvNext, PTL DEF Spec

\* Whatever exceptions a sink raises, every sink has been given every message,
\* in order, when the next one is polled.
THEOREM SinksAreIsolated == Spec => []SinksIsolated
<1>1. IInv => SinksIsolated
  <2> SUFFICES ASSUME IInv, pc = "poll", NEW s \in Sinks PROVE calls[s] = [i \in 1..event |-> i]
    BY DEF SinksIsolated
  <2>1. calls = [t \in Sinks |-> UpTo(Given(t))]
    BY DEF IInv, LoopInv, Running
  <2> QED
    BY <2>1 DEF Given, UpTo
<1> QED
  BY <1>1, InvAlways, PTL

\* After a SinkFatalError there are only close() calls, and the exit code is 1.
THEOREM FatalErrorsStop == Spec => []FatalStopsEverything
<1>1. IInv => FatalStopsEverything
  BY DEF IInv, Types, OpeningInv, LoopInv, ClosingInv, Running, FatalStopsEverything
<1> QED
  BY <1>1, InvAlways, PTL

\* However the process ends, exactly the sinks that were opened are closed,
\* unless close() raises SinkFatalError while open() unwinds.
THEOREM OpenedAreClosed ==
    ASSUME "fatal" \notin UnwindOutcomes
    PROVE  Spec => []OpenedSinksAreClosed
<1>1. IInv => OpenedSinksAreClosed
  BY DEF IInv, ClosingInv, OpenedSinksAreClosed
<1> QED
  BY <1>1, InvAlways, PTL

\* Exit code 0 means that every sink was closed without an exception and was
\* given every message.
THEOREM ExitZeroMeansClean == Spec => []ExitZeroIsClean
<1>1. IInv => ExitZeroIsClean
  <2> SUFFICES ASSUME IInv, pc = "exited", exitCode = 0
               PROVE  /\ shut = Sinks /\ failedClose = {}
                      /\ \A s \in Sinks : calls[s] = [i \in 1..event |-> i]
    BY DEF ExitZeroIsClean
  <2>1. shut = Sinks /\ failedClose = {} /\ calls = [s \in Sinks |-> UpTo(event)]
    BY DEF IInv, ClosingInv
  <2> QED
    BY <2>1 DEF UpTo
<1> QED
  BY <1>1, InvAlways, PTL
=============================================================================
