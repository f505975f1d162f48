------------------------------- MODULE Group -------------------------------
(***************************************************************************)
(* Several consumer processes in one consumer group, writing to one table: *)
(* what the other modules leave out, a partition reassigned while rows     *)
(* read from it are still buffered.  s3_event_consumer.py subscribes       *)
(* without rebalance callbacks and the sink never asks what is assigned,   *)
(* so its buffer, its pending offsets and a commit on its way survive a    *)
(* rebalance; the broker's rebalances are eager, so after each of them     *)
(* every partition is read from the committed offset.                      *)
(*                                                                         *)
(* The retry deadline, the limit on attempts, timers and the payloads that *)
(* end a process are in module Consumer.  Here a process reads, writes     *)
(* what it holds, again if it is not told of an append, and commits; it    *)
(* may end between any two steps, and an append that takes too long has    *)
(* the broker evict it (max.poll.interval.ms).                             *)
(***************************************************************************)
EXTENDS Services

CONSTANTS
    Members,        \* the consumer processes
    Nobody,         \* the owner of a partition that is not assigned
    MaxBuffered     \* bound: rows in one member's buffer

ASSUME GroupAssumption ==
    /\ Raising = {} /\ Unwritable = {}
    /\ OffsetReset = "earliest"
    /\ MaxBuffered \in Nat
    /\ Nobody \notin Members

VARIABLES
    created,        \* the table exists
    status,         \* status[m]: what process m is doing
    group,          \* the broker's view: the members of the group
    generation,     \* how often partitions have been assigned
    owner,          \* owner[p]: the member partition p is assigned to
    position,       \* position[p]: the offset its owner reads next
    buffer,         \* buffer[m]: _buffer
    pending,        \* pending[m]: _pending_offsets
    inflight,       \* inflight[m]: the offsets of a commit under way, or NoCommit
    settled,        \* history: the partitions no member held anything of when they
                    \* were last assigned
    unheard         \* history: the appends whose answer was lost, by their place
                    \* in the table

memory == <<buffer, pending, inflight>>
assignment == <<group, generation, owner, position, settled>>
vars == <<serviceVars, created, unheard, status, assignment, memory>>

NoOffset == -1
NoOffsets == [p \in Partitions |-> NoOffset]
NoCommit == [p \in Partitions |-> 0]

Init ==
    /\ ServicesInit
    /\ created = FALSE
    /\ status = [m \in Members |-> "down"]
    /\ group = {}
    /\ generation = 0
    /\ owner = [p \in Partitions |-> Nobody]
    /\ position = [p \in Partitions |-> 0]
    /\ buffer = [m \in Members |-> <<>>]
    /\ pending = [m \in Members |-> NoOffsets]
    /\ inflight = [m \in Members |-> NoCommit]
    /\ settled = {}
    /\ unheard = {}

Publish ==
    /\ \E p \in Partitions, k \in Payloads : PublishTo(p, k)
    /\ UNCHANGED <<created, unheard, status, assignment, memory>>

(***************************************************************************)
(* The group coordinator.                                                  *)
(***************************************************************************)
\* Member m holds rows of p, or is about to commit an offset of it.
Holds(m, p) == pending[m][p] # NoOffset \/ inflight[m][p] > 0

\* Mutant: the new owners start at the beginning of the log.
RebalanceFromBeginning(members, others) ==
    /\ group' = members
    /\ generation' = generation + 1
    /\ owner' \in [Partitions -> IF members = {} THEN {Nobody} ELSE members]
    /\ position' = [p \in Partitions |-> 0]
    /\ settled' = { p \in Partitions : \A m \in others : ~Holds(m, p) }

\* Mutant: positions survive, as if the rows were handed over with them.
RebalanceKeepingPositions(members, others) ==
    /\ group' = members
    /\ generation' = generation + 1
    /\ owner' \in [Partitions -> IF members = {} THEN {Nobody} ELSE members]
    /\ settled' = { p \in Partitions : \A m \in others : ~Holds(m, p) }
    /\ UNCHANGED position

\* Mutant: the new owners wait for new messages.
RebalanceFromEnd(members, others) ==
    /\ group' = members
    /\ generation' = generation + 1
    /\ owner' \in [Partitions -> IF members = {} THEN {Nobody} ELSE members]
    /\ position' = [p \in Partitions |-> Len(log[p])]
    /\ settled' = { p \in Partitions : \A m \in others : ~Holds(m, p) }

\* Every partition is taken away and assigned again, to any member.  The others
\* are the processes that run on with what they hold.
Rebalance(members, others) ==
    /\ group' = members
    /\ generation' = generation + 1
    /\ owner' \in [Partitions -> IF members = {} THEN {Nobody} ELSE members]
    /\ position' = [p \in Partitions |-> StartOffset(p)]
    /\ settled' = { p \in Partitions : \A m \in others : ~Holds(m, p) }

\* subscribe(), or the first poll() of a member that was evicted: not while it
\* is inside flush().
Join(m) ==
    /\ status[m] = "running"
    /\ m \notin group
    /\ inflight[m] = NoCommit
    /\ Rebalance(group \cup {m}, Members)
    /\ UNCHANGED <<serviceVars, created, unheard, status, buffer, pending, inflight>>

\* A member has not called poll() for too long.
Evict(m) ==
    /\ m \in group
    /\ Fault("evicted")
    /\ Rebalance(group \ {m}, Members)
    /\ UNCHANGED <<log, committed, table, stale, created, unheard, status, buffer, pending, inflight>>

(***************************************************************************)
(* A process starts: open() loads the table or creates it, subscribe()     *)
(* comes afterwards.  Two processes may both find no table.                *)
(***************************************************************************)
Start(m) ==
    /\ status[m] = "down"
    /\ status' = [status EXCEPT ![m] = "loading"]
    /\ UNCHANGED <<serviceVars, created, unheard, assignment, memory>>

LoadTable(m) ==
    /\ status[m] = "loading"
    /\ status' = [status EXCEPT ![m] = IF created THEN "running" ELSE "creating"]
    /\ UNCHANGED <<serviceVars, created, unheard, assignment, memory>>

\* Mutant: create_table() in place of a table that is there already.
CreateTableAnew(m) ==
    /\ status[m] = "creating"
    /\ status' = [status EXCEPT ![m] = "running"]
    /\ created' = TRUE
    /\ table' = <<>>
    /\ UNCHANGED <<log, committed, stale, faults, unheard, assignment, memory>>

\* create_table_if_not_exists: the table of whoever came first.
CreateTable(m) ==
    /\ status[m] = "creating"
    /\ status' = [status EXCEPT ![m] = "running"]
    /\ created' = TRUE
    /\ UNCHANGED <<serviceVars, unheard, assignment, memory>>

\* The process is killed or stops; what it held is gone, and its partitions go
\* to the others.
Exit(m) ==
    /\ status[m] # "down"
    /\ Fault("crash")
    /\ status' = [status EXCEPT ![m] = "down"]
    /\ buffer' = [buffer EXCEPT ![m] = <<>>]
    /\ pending' = [pending EXCEPT ![m] = NoOffsets]
    /\ inflight' = [inflight EXCEPT ![m] = NoCommit]
    /\ IF m \in group
       THEN Rebalance(group \ {m}, Members \ {m})
       ELSE UNCHANGED assignment
    /\ UNCHANGED <<log, committed, table, stale, created, unheard>>

(***************************************************************************)
(* The poll loop of one process.                                           *)
(***************************************************************************)
\* _track_offsets; a message that is skipped leaves no trace.
Tracked(m, p) ==
    IF FlattenedRows(p, position[p]) # <<>> /\ position[p] > pending[m][p]
    THEN [pending[m] EXCEPT ![p] = position[p]] ELSE pending[m]

\* poll() returns a record and handle() buffers its rows.
Read(m, p) ==
    /\ owner[p] = m
    /\ inflight[m] = NoCommit
    /\ position[p] \in Offsets(p)
    /\ Len(buffer[m]) < MaxBuffered
    /\ buffer' = [buffer EXCEPT ![m] = @ \o FlattenedRows(p, position[p])]
    /\ pending' = [pending EXCEPT ![m] = Tracked(m, p)]
    /\ position' = [position EXCEPT ![p] = @ + 1]
    /\ UNCHANGED <<serviceVars, created, unheard, status, group, generation, owner, settled, inflight>>

\* Mutant: written rows stay buffered.
FlushKeepingRows(m) ==
    /\ buffer[m] # <<>>
    /\ inflight[m] = NoCommit
    /\ table' = Append(table, buffer[m])
    /\ inflight' = [inflight EXCEPT ![m] = [p \in Partitions |-> pending[m][p] + 1]]
    /\ UNCHANGED <<log, committed, stale, faults, created, unheard, status, assignment>>
    /\ UNCHANGED <<buffer, pending>>

\* flush() appends whatever is buffered, of partitions still assigned or not.  An
\* append the catalog refuses changes nothing that is kept here.
Flush(m) ==
    /\ buffer[m] # <<>>
    /\ inflight[m] = NoCommit
    /\ table' = Append(table, buffer[m])
    /\ buffer' = [buffer EXCEPT ![m] = <<>>]
    /\ pending' = [pending EXCEPT ![m] = NoOffsets]
    /\ inflight' = [inflight EXCEPT ![m] = [p \in Partitions |-> pending[m][p] + 1]]
    /\ UNCHANGED <<log, committed, stale, faults, created, unheard, status, assignment>>

\* The catalog has the append, and the answer is lost: to the sink it has failed,
\* and the next flush() writes the same rows again.
FlushAnswerLost(m) ==
    /\ buffer[m] # <<>>
    /\ inflight[m] = NoCommit
    /\ Fault("answerLost")
    /\ table' = Append(table, buffer[m])
    /\ unheard' = unheard \cup {Len(table) + 1}
    /\ UNCHANGED <<log, committed, stale, created, status, assignment, memory>>

\* commit() is over, one way or the other.
Return(m) ==
    /\ inflight' = [inflight EXCEPT ![m] = NoCommit]
    /\ UNCHANGED <<log, table, stale, created, unheard, status, assignment, buffer, pending>>

\* The broker checks that the request comes from a member, not that the
\* partitions are its own.
CommitReturns(m) ==
    /\ inflight[m] # NoCommit
    /\ m \in group
    /\ committed' = Acknowledged(inflight[m])
    /\ Return(m)
    /\ UNCHANGED faults

\* An evicted process: refused, unless nobody else is in the group.
CommitEvicted(m) ==
    /\ inflight[m] # NoCommit
    /\ m \notin group
    /\ committed' \in {committed} \cup (IF group = {} THEN {Acknowledged(inflight[m])} ELSE {})
    /\ Return(m)
    /\ UNCHANGED faults

\* commit() fails, and the group may have some of the offsets all the same.
CommitRaises(m) ==
    /\ inflight[m] # NoCommit
    /\ Fault("commitFails")
    /\ committed' \in PartlyAcknowledged(inflight[m])
    /\ Return(m)

Process(m) ==
    \/ Start(m)
    \/ LoadTable(m)
    \/ CreateTable(m)
    \/ Join(m)
    \/ \E p \in Partitions : Read(m, p)
    \/ Flush(m)
    \/ CommitReturns(m)
    \/ CommitEvicted(m)

Next ==
    \/ Publish
    \/ \E m \in Members : Process(m) \/ Evict(m) \/ Exit(m) \/ FlushAnswerLost(m) \/ CommitRaises(m)

Spec == Init /\ [][Next]_vars

\* Each process runs, every call it makes ends, and it is started again when it
\* has stopped.
Fairness == \A m \in Members : WF_vars(Process(m))

FairSpec == Spec /\ Fairness

-----------------------------------------------------------------------------
\* At-least-once over rebalances: an acknowledged offset has every row below it
\* in the table, whichever members read them, and whoever commits late for a
\* partition that is no longer its own.
AckedRowsDurable ==
    \A p \in Partitions : \A o \in 0..(committed[p] - 1) : RowsAt(p, o) \subseteq Durable

\* The contract of module Delivery, between the topic, the table and the group as
\* a whole: members that take partitions over write nothing that is not on the
\* topic, take nothing out of the table, and acknowledge, forwards or back, only
\* what is in it.
Contract == INSTANCE Delivery WITH durable <- Durable, acked <- committed

ImplementsSharedDelivery == Contract!SharedSpec

\* Nothing is skipped: what lies below the position of a partition's owner is in
\* the table or in that owner's own buffer, never in the buffer of a member it
\* was taken away from.
OwnerHoldsTheRest ==
    \A p \in Partitions : \A o \in 0..(position[p] - 1) :
        owner[p] \in Members =>
            RowsAt(p, o) \subseteq Durable \cup Range(buffer[owner[p]])

\* The committed offset of a partition moves back only after a rebalance that
\* came while a member held rows of it or was committing them: that member's
\* late commit may undo what the new owner has committed, and may as well leave
\* the owner reading below the committed offset.  Otherwise it never does.
SettledNeverRegresses ==
    [][\A p \in settled : committed[p] <= committed'[p]]_vars

\* The copies of a row in one append.
CopiesIn(i, r) == Cardinality({ j \in DOMAIN table[i] : table[i][j] = r })

\* Its copies in the appends the sinks know of, and in their buffers.
Copies(r) ==
    Cardinality(UNION { {i} \X {j \in DOMAIN table[i] : table[i][j] = r} :
                            i \in DOMAIN table \ unheard })

Held(r) ==
    Cardinality(UNION { {m} \X {j \in DOMAIN buffer[m] : buffer[m][j] = r} : m \in Members })

\* A message is written at most once for each time the partitions were assigned,
\* however many members hold its rows, and at most as often again by each append
\* whose answer was lost.
CopiesBounded ==
    \A p \in Partitions : \A o \in Offsets(p) : \A r \in RowsAt(p, o) :
        /\ Copies(r) + Held(r) <= generation
        /\ \A i \in unheard : CopiesIn(i, r) <= generation

\* Once members stop coming and going, every published message reaches the
\* table.
EventuallyWritten ==
    \A p \in Partitions : \A o \in 0..(MaxMessages - 1) :
        o < Len(log[p]) ~> o < Len(log[p]) /\ RowsAt(p, o) \subseteq Durable
=============================================================================
