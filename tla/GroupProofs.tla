---------------------------- MODULE GroupProofs ----------------------------
(***************************************************************************)
(* Proofs, for any number of members, partitions, messages and faults,     *)
(* that rebalances lose nothing, when they move an offset back, how often  *)
(* they may have a message written, and that the group keeps the contract. *)
(***************************************************************************)
EXTENDS Group, SequenceTheorems, FiniteSetTheorems, TLAPS

TypeOK ==
    /\ log \in [Partitions -> Seq(Payloads)]
    /\ committed \in [Partitions -> Nat]
    /\ table \in Seq(Seq(Row))
    /\ group \subseteq Members
    /\ owner \in [Partitions -> group \cup {Nobody}]
    /\ position \in [Partitions -> Nat]
    /\ settled \subseteq Partitions
    /\ buffer \in [Members -> Seq(Row)]
    /\ pending \in [Members -> [Partitions -> Nat \cup {NoOffset}]]
    /\ inflight \in [Members -> [Partitions -> Nat]]

\* Every offset held anywhere is that of a message of the log.
InsideLog ==
    \A p \in Partitions :
        /\ committed[p] <= Len(log[p])
        /\ position[p] <= Len(log[p])
        /\ \A m \in Members : pending[m][p] < Len(log[p]) /\ inflight[m][p] <= Len(log[p])

\* A member inside commit() has just emptied its buffer.
CommittingHoldsNothing ==
    \A m \in Members : inflight[m] # NoCommit => pending[m] = NoOffsets

TypeInv == TypeOK /\ InsideLog /\ CommittingHoldsNothing

\* What a member holds accounts for every row up to its pending offsets, also
\* of partitions it has lost; what it is committing is written.
MembersHoldTheRest ==
    \A m \in Members : \A p \in Partitions :
        /\ \A o \in 0..pending[m][p] : RowsAt(p, o) \subseteq Durable \cup Range(buffer[m])
        /\ \A o \in 0..(inflight[m][p] - 1) : RowsAt(p, o) \subseteq Durable

DurableInv == AckedRowsDurable /\ OwnerHoldsTheRest /\ MembersHoldTheRest

\* Of a settled partition only the owner holds anything, and all of it lies
\* between the committed offset and the owner's position.
SettledAt(p) ==
    /\ committed[p] <= position[p]
    /\ \A m \in Members :
          /\ Holds(m, p) => owner[p] = m
          /\ pending[m][p] # NoOffset =>
                committed[p] <= pending[m][p] /\ pending[m][p] < position[p]
          /\ inflight[m][p] > 0 =>
                committed[p] <= inflight[m][p] /\ inflight[m][p] <= position[p]

SettledInv == \A p \in settled : SettledAt(p)

(***************************************************************************)
(* What the actions have in common.                                        *)
(***************************************************************************)
Keeps(m) == buffer'[m] = buffer[m] /\ pending'[m] = pending[m] /\ inflight'[m] = inflight[m]

Cleared(m) == buffer'[m] = <<>> /\ pending'[m] = NoOffsets /\ inflight'[m] = NoCommit

\* A rebalance has put every owner at the committed offset.
Reassigned ==
    /\ group' \subseteq Members
    /\ generation' = generation + 1
    /\ owner' \in [Partitions -> group' \cup {Nobody}]
    /\ position' = [p \in Partitions |-> committed[p]]
    /\ settled' \subseteq Partitions
    /\ \A p \in settled' : \A m \in Members : ~Holds(m, p)'

Nothing == UNCHANGED <<log, committed, table, unheard, assignment, memory>>

\* A sink without pending offsets, a member without a commit under way.
LEMMA NoOffsetsType ==
    /\ NoOffsets \in [Partitions -> Nat \cup {NoOffset}]
    /\ NoCommit \in [Partitions -> Nat]
    /\ \A p \in Partitions : NoOffsets[p] = NoOffset /\ NoCommit[p] = 0
BY DEF NoOffsets, NoCommit, NoOffset

\* A rebalance puts every owner at the committed offset of its partitions.
LEMMA RebalanceReassigns ==
    ASSUME TypeOK, NEW G \in SUBSET Members, NEW others \in SUBSET Members,
           Rebalance(G, others),
           \A m \in others : Keeps(m), \A m \in Members \ others : Cleared(m)
    PROVE  Reassigned
<1>1. \A p \in Partitions : StartOffset(p) = committed[p]
  BY GroupAssumption DEF StartOffset, TypeOK
<1>2. position' = [p \in Partitions |-> committed[p]]
  BY <1>1 DEF Rebalance
<1>3. /\ group' \subseteq Members /\ generation' = generation + 1
      /\ owner' \in [Partitions -> group' \cup {Nobody}]
  BY DEF Rebalance
<1>4. settled' \subseteq Partitions
  BY DEF Rebalance
<1>5. ASSUME NEW p \in settled', NEW m \in Members
      PROVE  ~Holds(m, p)'
  <2>1. p \in Partitions /\ \A n \in others : ~Holds(n, p)
    BY <1>5 DEF Rebalance
  <2>2. CASE m \in others
    BY <2>1, <2>2 DEF Keeps, Holds
  <2>3. CASE m \notin others
    BY <2>1, <2>3, NoOffsetsType DEF Cleared, Holds
  <2> QED
    BY <2>2, <2>3
<1> QED
  BY <1>2, <1>3, <1>4, <1>5 DEF Reassigned

\* Members come and go: memory is kept or gone, and the partitions are assigned
\* anew, unless a process ends that was not in the group.
LEMMA Moves ==
    ASSUME TypeInv, NEW m \in Members, Join(m) \/ Evict(m) \/ Exit(m)
    PROVE  /\ UNCHANGED <<log, committed, table, unheard>>
           /\ buffer' \in [Members -> Seq(Row)]
           /\ pending' \in [Members -> [Partitions -> Nat \cup {NoOffset}]]
           /\ inflight' \in [Members -> [Partitions -> Nat]]
           /\ \A n \in Members : Keeps(n) \/ Cleared(n)
           /\ \/ Reassigned
              \/ UNCHANGED assignment /\ m \notin group /\ \A n \in Members \ {m} : Keeps(n)
<1> USE DEF TypeInv
<1>1. CASE Join(m)
  <2>1. UNCHANGED <<log, committed, table, unheard, buffer, pending, inflight>>
    BY <1>1 DEF Join, serviceVars
  <2>2. \A n \in Members : Keeps(n)
    BY <2>1 DEF Keeps
  <2>3. group \cup {m} \in SUBSET Members /\ Rebalance(group \cup {m}, Members)
    BY <1>1 DEF Join, TypeOK
  <2>4. Reassigned
    BY <2>2, <2>3, RebalanceReassigns
  <2> QED
    BY <2>1, <2>2, <2>4 DEF TypeOK
<1>2. CASE Evict(m)
  <2>1. UNCHANGED <<log, committed, table, unheard, buffer, pending, inflight>>
    BY <1>2 DEF Evict
  <2>2. \A n \in Members : Keeps(n)
    BY <2>1 DEF Keeps
  <2>3. group \ {m} \in SUBSET Members /\ Rebalance(group \ {m}, Members)
    BY <1>2 DEF Evict, TypeOK
  <2>4. Reassigned
    BY <2>2, <2>3, RebalanceReassigns
  <2> QED
    BY <2>1, <2>2, <2>4 DEF TypeOK
<1>3. CASE Exit(m)
  <2>1. UNCHANGED <<log, committed, table, unheard>>
    BY <1>3 DEF Exit
  <2>2. /\ buffer' = [buffer EXCEPT ![m] = <<>>]
        /\ pending' = [pending EXCEPT ![m] = NoOffsets]
        /\ inflight' = [inflight EXCEPT ![m] = NoCommit]
    BY <1>3 DEF Exit
  <2>3. /\ buffer' \in [Members -> Seq(Row)]
        /\ pending' \in [Members -> [Partitions -> Nat \cup {NoOffset}]]
        /\ inflight' \in [Members -> [Partitions -> Nat]]
    BY <2>2, NoOffsetsType, EmptySeq DEF TypeOK
  <2>4. Cleared(m) /\ \A n \in Members \ {m} : Keeps(n)
    BY <2>2 DEF Cleared, Keeps, TypeOK
  <2>5. CASE m \in group
    <3>1. group \ {m} \in SUBSET Members /\ Rebalance(group \ {m}, Members \ {m})
      BY <1>3, <2>5 DEF Exit, TypeOK
    <3>2. \A n \in Members \ (Members \ {m}) : Cleared(n)
      BY <2>4
    <3>3. Reassigned
      BY <2>4, <3>1, <3>2, RebalanceReassigns
    <3> QED
      BY <2>1, <2>3, <2>4, <3>3
  <2>6. CASE m \notin group
    <3>1. UNCHANGED assignment
      BY <1>3, <2>6 DEF Exit
    <3> QED
      BY <2>1, <2>3, <2>4, <2>6, <3>1
  <2> QED
    BY <2>5, <2>6
<1> QED
  BY <1>1, <1>2, <1>3

\* What a commit does, whatever becomes of it: each partition stays where it is or
\* is at the offset in the request.
CommitEffect(m) ==
    /\ committed' \in [Partitions -> Nat]
    /\ \A p \in Partitions :
          \/ committed'[p] = committed[p]
          \/ inflight[m][p] > 0 /\ committed'[p] = inflight[m][p]
    /\ inflight' = [inflight EXCEPT ![m] = NoCommit]
    /\ inflight[m] # NoCommit
    /\ UNCHANGED <<log, table, unheard, assignment, buffer, pending>>

\* A commit is over: it may have been recorded or not, or for some partitions.
LEMMA Commits ==
    ASSUME TypeInv, NEW m \in Members, CommitReturns(m) \/ CommitEvicted(m) \/ CommitRaises(m)
    PROVE  CommitEffect(m)
<1>1. UNCHANGED <<log, table, unheard, assignment, buffer, pending>>
      /\ inflight' = [inflight EXCEPT ![m] = NoCommit] /\ inflight[m] # NoCommit
  BY DEF CommitReturns, CommitEvicted, CommitRaises, Return
<1> DEFINE all == Acknowledged(inflight[m])
           outcome(c) == \A p \in Partitions :
                            \/ c[p] = committed[p]
                            \/ inflight[m][p] > 0 /\ c[p] = inflight[m][p]
<1>2. /\ committed \in [Partitions -> Nat] /\ inflight[m] \in [Partitions -> Nat]
  BY DEF TypeInv, TypeOK
<1>3. all \in [Partitions -> Nat] /\ outcome(all) /\ outcome(committed)
  BY <1>2 DEF Acknowledged
<1>4. CASE CommitReturns(m) \/ CommitEvicted(m)
  <2>1. committed' = committed \/ committed' = all
    BY <1>4 DEF CommitReturns, CommitEvicted
  <2> HIDE DEF all
  <2> QED
    BY <1>1, <1>2, <1>3, <2>1 DEF CommitEffect
<1>5. CASE CommitRaises(m)
  <2>1. PICK recorded \in SUBSET Partitions :
            committed' = [p \in Partitions |-> IF p \in recorded THEN all[p] ELSE committed[p]]
    BY <1>5 DEF CommitRaises, PartlyAcknowledged
  <2> HIDE DEF all
  <2>2. committed' \in [Partitions -> Nat] /\ outcome(committed')
    BY <1>2, <1>3, <2>1
  <2> QED
    BY <1>1, <2>2 DEF CommitEffect
<1> QED
  BY <1>4, <1>5

\* The steps of the next-state relation.
LEMMA Steps ==
    ASSUME [Next]_vars
    PROVE  \/ Publish
           \/ Nothing
           \/ \E m \in Members : Join(m) \/ Evict(m) \/ Exit(m)
           \/ \E m \in Members, p \in Partitions : Read(m, p)
           \/ \E m \in Members : Flush(m)
           \/ \E m \in Members : FlushAnswerLost(m)
           \/ \E m \in Members : CommitReturns(m) \/ CommitEvicted(m) \/ CommitRaises(m)
<1>1. CASE UNCHANGED vars
  <2>1. Nothing
    BY <1>1 DEF vars, Nothing, serviceVars
  <2> QED
    BY <2>1
<1>2. ASSUME NEW m \in Members, Start(m) \/ LoadTable(m) \/ CreateTable(m)
      PROVE  Nothing
  BY <1>2 DEF Start, LoadTable, CreateTable, Nothing, serviceVars
<1>3. CASE Next
  BY <1>2, <1>3 DEF Next, Process
<1> QED
  BY <1>1, <1>3

(***************************************************************************)
(* Types and bounds.                                                       *)
(***************************************************************************)
LEMMA Numbers ==
    ASSUME TypeOK
    PROVE  \A p \in Partitions :
              /\ committed[p] \in Nat /\ position[p] \in Nat
              /\ log[p] \in Seq(Payloads) /\ Len(log[p]) \in Nat
              /\ \A m \in Members : pending[m][p] \in Nat \cup {-1} /\ inflight[m][p] \in Nat
BY LenProperties DEF TypeOK, NoOffset

\* The rows of a message in the log.
LEMMA FlattenedRowsType ==
    ASSUME TypeOK, NEW p \in Partitions, NEW o \in Offsets(p)
    PROVE  FlattenedRows(p, o) \in Seq(Row)
<1>1. log[p] \in Seq(Payloads) /\ o + 1 \in 1..Len(log[p])
  BY DEF TypeOK, Offsets
<1>2. Payload(p, o) \in Payloads
  BY <1>1 DEF Payload
<1> DEFINE n == RowCount[Payload(p, o)]
<1>3. n \in Nat /\ o \in Nat
  BY <1>2, ServicesAssumption DEF Offsets
<1>4. FlattenedRows(p, o) = [i \in 1..n |->
            [kafka_partition |-> p, kafka_offset |-> o, record_index |-> i]]
  BY DEF FlattenedRows
<1> HIDE DEF n
<1>5. FlattenedRows(p, o) \in [1..n -> Row]
  BY <1>3, <1>4 DEF Row
<1> QED
  BY <1>3, <1>5, SeqDef

\* The initial states have the types.
LEMMA TypeInit == Init => TypeInv
<1> SUFFICES ASSUME Init PROVE TypeInv
  OBVIOUS
<1>1. /\ log = [p \in Partitions |-> <<>>]
      /\ committed = [p \in Partitions |-> 0]
      /\ table = <<>>
  BY DEF Init, ServicesInit
<1>2. /\ log \in [Partitions -> Seq(Payloads)] /\ table \in Seq(Seq(Row))
      /\ buffer \in [Members -> Seq(Row)]
  BY <1>1, EmptySeq DEF Init
<1>3. TypeOK
  BY <1>1, <1>2, NoOffsetsType DEF Init, TypeOK
<1>4. \A p \in Partitions : Len(log[p]) = 0
  BY <1>1, EmptySeq
<1>5. InsideLog
  BY <1>1, <1>4, NoOffsetsType DEF Init, InsideLog, NoOffset
<1>6. CommittingHoldsNothing
  BY DEF Init, CommittingHoldsNothing
<1> QED
  BY <1>3, <1>5, <1>6 DEF TypeInv

\* A producer keeps the types.
LEMMA TypePublish == TypeInv /\ Publish => TypeInv'
<1> SUFFICES ASSUME TypeInv, NEW p \in Partitions, NEW k \in Payloads, PublishTo(p, k),
                    UNCHANGED <<assignment, memory>>
             PROVE  TypeInv'
  BY DEF Publish
<1>1. log' = [log EXCEPT ![p] = Append(@, k)] /\ UNCHANGED <<committed, table>>
  BY DEF PublishTo
<1>2. log[p] \in Seq(Payloads)
  BY DEF TypeInv, TypeOK
<1>3. Append(log[p], k) \in Seq(Payloads) /\ Len(Append(log[p], k)) = Len(log[p]) + 1
  BY <1>2, AppendProperties
<1>4. /\ log' \in [Partitions -> Seq(Payloads)]
      /\ \A q \in Partitions : Len(log'[q]) >= Len(log[q]) /\ Len(log[q]) \in Nat
                            /\ Len(log'[q]) \in Nat
  BY <1>1, <1>3, LenProperties DEF TypeInv, TypeOK
<1>5. TypeOK'
  BY <1>1, <1>4 DEF TypeInv, TypeOK, assignment, memory
<1>6. InsideLog'
  <2>1. UNCHANGED <<committed, position, pending, inflight>>
    BY <1>1 DEF assignment, memory
  <2>2. \A q \in Partitions :
            /\ committed[q] <= Len(log'[q]) /\ position[q] <= Len(log'[q])
            /\ \A m \in Members : pending[m][q] < Len(log'[q]) /\ inflight[m][q] <= Len(log'[q])
    <3> SUFFICES ASSUME NEW q \in Partitions
                 PROVE  /\ committed[q] <= Len(log'[q]) /\ position[q] <= Len(log'[q])
                        /\ \A m \in Members :
                              pending[m][q] < Len(log'[q]) /\ inflight[m][q] <= Len(log'[q])
      OBVIOUS
    <3>1. Len(log'[q]) >= Len(log[q]) /\ Len(log[q]) \in Nat /\ Len(log'[q]) \in Nat
      BY <1>4
    <3>2. /\ committed[q] \in Nat /\ position[q] \in Nat
          /\ committed[q] <= Len(log[q]) /\ position[q] <= Len(log[q])
      BY Numbers DEF TypeInv, InsideLog
    <3>3. ASSUME NEW m \in Members
          PROVE  pending[m][q] < Len(log'[q]) /\ inflight[m][q] <= Len(log'[q])
      <4>1. /\ pending[m][q] \in Nat \cup {-1} /\ inflight[m][q] \in Nat
            /\ pending[m][q] < Len(log[q]) /\ inflight[m][q] <= Len(log[q])
        BY Numbers DEF TypeInv, InsideLog
      <4> QED
        BY <3>1, <4>1
    <3> QED
      BY <3>1, <3>2, <3>3
  <2> QED
    BY <2>1, <2>2 DEF InsideLog
<1>7. CommittingHoldsNothing'
  BY DEF TypeInv, CommittingHoldsNothing, assignment, memory
<1> QED
  BY <1>5, <1>6, <1>7 DEF TypeInv

\* A rebalance of whatever cause keeps the types.
LEMMA TypeMoves ==
    ASSUME TypeInv, NEW m \in Members, Join(m) \/ Evict(m) \/ Exit(m)
    PROVE  TypeInv'
<1>1. UNCHANGED <<log, committed, table>>
  BY Moves
<1>2. /\ group' \subseteq Members
      /\ owner' \in [Partitions -> group' \cup {Nobody}]
      /\ position' \in [Partitions -> Nat]
      /\ settled' \subseteq Partitions
      /\ \A p \in Partitions : position'[p] = position[p] \/ position'[p] = committed[p]
  BY Moves DEF TypeInv, TypeOK, Reassigned, assignment
<1>3. TypeOK'
  BY <1>1, <1>2, Moves DEF TypeInv, TypeOK
<1>4. \A n \in Members, p \in Partitions :
        /\ pending'[n][p] = pending[n][p] \/ pending'[n][p] = NoOffset
        /\ inflight'[n][p] = inflight[n][p] \/ inflight'[n][p] = 0
  BY Moves, NoOffsetsType DEF Keeps, Cleared
<1>5. \A p \in Partitions : Len(log[p]) \in Nat
  BY LenProperties DEF TypeInv, TypeOK
<1>6. InsideLog'
  <2>1. \A p \in Partitions : committed'[p] <= Len(log'[p]) /\ position'[p] <= Len(log'[p])
    BY <1>1, <1>2 DEF TypeInv, InsideLog
  <2>2. \A n \in Members, p \in Partitions :
            pending'[n][p] < Len(log'[p]) /\ inflight'[n][p] <= Len(log'[p])
    BY <1>1, <1>4, <1>5 DEF TypeInv, InsideLog, NoOffset
  <2> QED
    BY <2>1, <2>2 DEF InsideLog
<1>7. CommittingHoldsNothing'
  BY Moves DEF TypeInv, CommittingHoldsNothing, Keeps, Cleared
<1> QED
  BY <1>3, <1>6, <1>7 DEF TypeInv

\* What a read does, with its types.
ReadEffect(m, p) ==
    /\ owner[p] = m /\ position[p] \in Offsets(p) /\ inflight[m] = NoCommit
    /\ UNCHANGED <<log, committed, table, unheard, group, owner, settled, inflight>>
    /\ position' = [position EXCEPT ![p] = @ + 1]
    /\ FlattenedRows(p, position[p]) \in Seq(Row)
    /\ buffer' = [buffer EXCEPT ![m] = @ \o FlattenedRows(p, position[p])]
    /\ pending' = [pending EXCEPT ![m] = Tracked(m, p)]
    /\ Tracked(m, p) \in [Partitions -> Nat \cup {NoOffset}]
    /\ \A q \in Partitions \ {p} : Tracked(m, p)[q] = pending[m][q]
    /\ \/ Tracked(m, p)[p] = pending[m][p]
       \/ pending[m][p] < position[p] /\ Tracked(m, p)[p] = position[p]

\* What Read does, for the proofs.
LEMMA Reads ==
    ASSUME TypeInv, NEW m \in Members, NEW p \in Partitions, Read(m, p)
    PROVE  ReadEffect(m, p)
<1>1. /\ owner[p] = m /\ position[p] \in Offsets(p) /\ inflight[m] = NoCommit
      /\ UNCHANGED <<log, committed, table, unheard, group, owner, settled, inflight>>
      /\ position' = [position EXCEPT ![p] = @ + 1]
      /\ buffer' = [buffer EXCEPT ![m] = @ \o FlattenedRows(p, position[p])]
      /\ pending' = [pending EXCEPT ![m] = Tracked(m, p)]
  BY DEF Read, serviceVars
<1>2. FlattenedRows(p, position[p]) \in Seq(Row)
  BY <1>1, FlattenedRowsType DEF TypeInv
<1>3. /\ pending[m] \in [Partitions -> Nat \cup {NoOffset}]
      /\ position[p] \in Nat
  BY DEF TypeInv, TypeOK
<1>4. /\ Tracked(m, p) \in [Partitions -> Nat \cup {NoOffset}]
      /\ \A q \in Partitions \ {p} : Tracked(m, p)[q] = pending[m][q]
      /\ \/ Tracked(m, p)[p] = pending[m][p]
         \/ pending[m][p] < position[p] /\ Tracked(m, p)[p] = position[p]
  BY <1>3 DEF Tracked, NoOffset
<1> QED
  BY <1>1, <1>2, <1>4 DEF ReadEffect

\* Reading keeps the types.
LEMMA TypeRead ==
    ASSUME TypeInv, NEW m \in Members, NEW p \in Partitions, Read(m, p)
    PROVE  TypeInv'
<1>0. ReadEffect(m, p)
  BY Reads
<1>1. position[p] \in Nat /\ position[p] < Len(log[p]) /\ Len(log[p]) \in Nat
  BY <1>0, Numbers DEF Offsets, TypeInv, ReadEffect
<1>2. buffer[m] \in Seq(Row)
  BY DEF TypeInv, TypeOK
<1>3. buffer[m] \o FlattenedRows(p, position[p]) \in Seq(Row)
  BY <1>0, <1>2, ConcatProperties DEF ReadEffect
<1>4. buffer' \in [Members -> Seq(Row)]
  BY <1>0, <1>3 DEF TypeInv, TypeOK, ReadEffect
<1>5. pending' \in [Members -> [Partitions -> Nat \cup {NoOffset}]]
  BY <1>0 DEF TypeInv, TypeOK, ReadEffect
<1>6. position' \in [Partitions -> Nat]
  BY <1>0, <1>1 DEF TypeInv, TypeOK, ReadEffect
<1>7. TypeOK'
  BY <1>0, <1>4, <1>5, <1>6 DEF TypeInv, TypeOK, ReadEffect
<1>8. \A q \in Partitions : position'[q] <= Len(log[q])
  BY <1>0, <1>1 DEF TypeInv, TypeOK, InsideLog, ReadEffect
<1>9. \A n \in Members, q \in Partitions : pending'[n][q] < Len(log[q])
  <2>1. \A n \in Members \ {m} : pending'[n] = pending[n]
    BY <1>0 DEF TypeInv, TypeOK, ReadEffect
  <2>2. pending'[m] = Tracked(m, p)
    BY <1>0 DEF TypeInv, TypeOK, ReadEffect
  <2>3. \A q \in Partitions : Tracked(m, p)[q] < Len(log[q])
    BY <1>0, <1>1 DEF TypeInv, InsideLog, ReadEffect
  <2> QED
    BY <2>1, <2>2, <2>3 DEF TypeInv, InsideLog
<1>10. InsideLog'
  BY <1>0, <1>8, <1>9 DEF TypeInv, InsideLog, ReadEffect
<1>11. CommittingHoldsNothing'
  BY <1>0 DEF TypeInv, TypeOK, CommittingHoldsNothing, ReadEffect
<1> QED
  BY <1>7, <1>10, <1>11 DEF TypeInv

\* What a flush does, with its types.
FlushEffect(m) ==
    /\ inflight[m] = NoCommit
    /\ UNCHANGED <<log, committed, unheard, assignment>>
    /\ table' = Append(table, buffer[m])
    /\ buffer' = [buffer EXCEPT ![m] = <<>>]
    /\ pending' = [pending EXCEPT ![m] = NoOffsets]
    /\ \A n \in Members \ {m} : inflight'[n] = inflight[n]
    /\ \A p \in Partitions : inflight'[m][p] = pending[m][p] + 1
    /\ inflight' \in [Members -> [Partitions -> Nat]]

\* What Flush does, for the proofs.
LEMMA Flushes ==
    ASSUME TypeInv, NEW m \in Members, Flush(m)
    PROVE  FlushEffect(m)
<1>1. /\ inflight[m] = NoCommit
      /\ UNCHANGED <<log, committed, unheard, assignment>>
      /\ table' = Append(table, buffer[m])
      /\ buffer' = [buffer EXCEPT ![m] = <<>>]
      /\ pending' = [pending EXCEPT ![m] = NoOffsets]
      /\ inflight' = [inflight EXCEPT ![m] = [p \in Partitions |-> pending[m][p] + 1]]
  BY DEF Flush
<1>2. [p \in Partitions |-> pending[m][p] + 1] \in [Partitions -> Nat]
  BY Numbers DEF TypeInv
<1>3. inflight \in [Members -> [Partitions -> Nat]]
  BY DEF TypeInv, TypeOK
<1> QED
  BY <1>1, <1>2, <1>3 DEF FlushEffect

\* Writing keeps the types.
LEMMA TypeFlush ==
    ASSUME TypeInv, NEW m \in Members, Flush(m)
    PROVE  TypeInv'
<1>0. FlushEffect(m)
  BY Flushes
<1>1. buffer[m] \in Seq(Row) /\ table \in Seq(Seq(Row))
  BY DEF TypeInv, TypeOK
<1>2. table' \in Seq(Seq(Row))
  BY <1>0, <1>1, AppendProperties DEF FlushEffect
<1>3. buffer' \in [Members -> Seq(Row)]
  BY <1>0, EmptySeq DEF FlushEffect, TypeInv, TypeOK
<1>4. pending' \in [Members -> [Partitions -> Nat \cup {NoOffset}]]
  BY <1>0, NoOffsetsType DEF FlushEffect, TypeInv, TypeOK
<1>5. TypeOK'
  BY <1>0, <1>2, <1>3, <1>4 DEF FlushEffect, TypeInv, TypeOK, assignment
<1>6. \A n \in Members, p \in Partitions :
        pending'[n][p] < Len(log[p]) /\ inflight'[n][p] <= Len(log[p])
  <2>1. \A n \in Members \ {m}, p \in Partitions :
            pending'[n][p] = pending[n][p] /\ inflight'[n][p] = inflight[n][p]
    BY <1>0 DEF FlushEffect, TypeInv, TypeOK
  <2>2. \A p \in Partitions : pending'[m][p] = -1 /\ inflight'[m][p] = pending[m][p] + 1
    BY <1>0, NoOffsetsType DEF FlushEffect, TypeInv, TypeOK, NoOffset
  <2>3. \A p \in Partitions : pending[m][p] < Len(log[p])
    BY DEF TypeInv, InsideLog
  <2> QED
    BY <2>1, <2>2, <2>3, Numbers DEF TypeInv, InsideLog
<1>7. InsideLog'
  BY <1>0, <1>6 DEF FlushEffect, TypeInv, InsideLog, assignment
<1>8. CommittingHoldsNothing'
  BY <1>0 DEF FlushEffect, TypeInv, TypeOK, CommittingHoldsNothing
<1> QED
  BY <1>5, <1>7, <1>8 DEF TypeInv

\* A commit of whatever outcome keeps the types.
LEMMA TypeCommits ==
    ASSUME TypeInv, NEW m \in Members, CommitReturns(m) \/ CommitEvicted(m) \/ CommitRaises(m)
    PROVE  TypeInv'
<1>0. CommitEffect(m)
  BY Commits
<1>1. /\ committed' \in [Partitions -> Nat]
      /\ \A p \in Partitions : committed'[p] = committed[p] \/ committed'[p] = inflight[m][p]
      /\ UNCHANGED <<log, table, assignment, buffer, pending>>
  BY <1>0 DEF CommitEffect
<1>2. /\ inflight' \in [Members -> [Partitions -> Nat]]
      /\ \A n \in Members, p \in Partitions :
            inflight'[n][p] = inflight[n][p] \/ inflight'[n][p] = 0
  BY <1>0, NoOffsetsType DEF CommitEffect, TypeInv, TypeOK
<1>3. TypeOK'
  BY <1>1, <1>2 DEF TypeInv, TypeOK, assignment
<1>4. InsideLog'
  BY <1>1, <1>2, Numbers DEF TypeInv, InsideLog, assignment
<1>5. CommittingHoldsNothing'
  BY <1>0 DEF CommitEffect, TypeInv, TypeOK, CommittingHoldsNothing
<1> QED
  BY <1>3, <1>4, <1>5 DEF TypeInv

\* What a flush does whose answer is lost.
AnswerLostEffect(m) ==
    /\ UNCHANGED <<log, committed, assignment, memory>>
    /\ table' = Append(table, buffer[m])
    /\ unheard' = unheard \cup {Len(table) + 1}

\* An append nobody heard of keeps the types.
LEMMA TypeAnswerLost ==
    ASSUME TypeInv, NEW m \in Members, FlushAnswerLost(m)
    PROVE  TypeInv' /\ AnswerLostEffect(m)
<1>1. AnswerLostEffect(m)
  BY DEF FlushAnswerLost, AnswerLostEffect
<1>2. buffer[m] \in Seq(Row) /\ table \in Seq(Seq(Row))
  BY DEF TypeInv, TypeOK
<1>3. table' \in Seq(Seq(Row))
  BY <1>1, <1>2, AppendProperties DEF AnswerLostEffect
<1> QED
  BY <1>1, <1>3 DEF AnswerLostEffect, TypeInv, TypeOK, InsideLog, CommittingHoldsNothing,
                    assignment, memory

\* Every step keeps the types.
LEMMA TypeNext == TypeInv /\ [Next]_vars => TypeInv'
<1> SUFFICES ASSUME TypeInv, [Next]_vars PROVE TypeInv'
  OBVIOUS
<1>1. CASE Nothing
  BY <1>1 DEF Nothing, TypeInv, TypeOK, InsideLog, CommittingHoldsNothing, assignment, memory
<1> QED
  BY <1>1, Steps, TypePublish, TypeMoves, TypeRead, TypeFlush, TypeAnswerLost, TypeCommits

(***************************************************************************)
(* Every row is accounted for.                                             *)
(***************************************************************************)
LEMMA DurableAppend ==
    ASSUME TypeOK, NEW rows \in Seq(Row), table' = Append(table, rows)
    PROVE  Durable' = Durable \cup Range(rows)
<1>1. table \in Seq(Seq(Row))
  BY DEF TypeOK
<1>2. /\ DOMAIN table = 1..Len(table) /\ DOMAIN table' = 1..(Len(table) + 1)
      /\ Len(table) \in Nat
      /\ \A i \in 1..Len(table) : table'[i] = table[i]
      /\ table'[Len(table) + 1] = rows
  BY <1>1, AppendProperties, LenProperties
<1>3. \A i \in DOMAIN table' : i \in DOMAIN table \/ i = Len(table) + 1
  BY <1>2
<1>4. Durable' \subseteq Durable \cup Range(rows)
  BY <1>2, <1>3 DEF Durable
<1>5. Durable \cup Range(rows) \subseteq Durable'
  BY <1>2 DEF Durable
<1> QED
  BY <1>4, <1>5

\* The rows of a message depend on the log alone.
LEMMA SameLog ==
    ASSUME UNCHANGED log, NEW p \in Partitions, NEW o \in Nat
    PROVE  RowsAt(p, o)' = RowsAt(p, o)
BY DEF RowsAt, FlattenedRows, Payload

\* At first nothing is acknowledged, read or held.
LEMMA DurableInit == Init => DurableInv
<1> SUFFICES ASSUME Init PROVE DurableInv
  OBVIOUS
<1>1. AckedRowsDurable
  BY DEF Init, ServicesInit, AckedRowsDurable
<1>2. OwnerHoldsTheRest
  BY DEF Init, OwnerHoldsTheRest
<1>3. \A m \in Members, p \in Partitions : pending[m][p] = -1 /\ inflight[m][p] = 0
  BY NoOffsetsType DEF Init, NoOffset
<1>4. MembersHoldTheRest
  BY <1>3 DEF MembersHoldTheRest
<1> QED
  BY <1>1, <1>2, <1>4 DEF DurableInv

\* A new message is acknowledged by nobody and read by nobody.
LEMMA DurablePublish == TypeInv /\ DurableInv /\ Publish => DurableInv'
<1> SUFFICES ASSUME TypeInv, DurableInv, NEW q \in Partitions, NEW k \in Payloads,
                    PublishTo(q, k), UNCHANGED <<assignment, memory>>
             PROVE  DurableInv'
  BY DEF Publish
<1>1. log' = [log EXCEPT ![q] = Append(@, k)] /\ UNCHANGED <<committed, table>>
  BY DEF PublishTo
<1>2. Durable' = Durable
  BY <1>1 DEF Durable
<1>3. ASSUME NEW p \in Partitions, NEW o \in Nat, o < Len(log[p])
      PROVE  RowsAt(p, o)' = RowsAt(p, o)
  <2>1. log[p] \in Seq(Payloads) /\ o + 1 \in 1..Len(log[p])
    BY <1>3, Numbers DEF TypeInv
  <2>2. Append(log[p], k)[o + 1] = log[p][o + 1]
    BY <2>1, AppendProperties
  <2>3. log'[p][o + 1] = log[p][o + 1]
    BY <1>1, <2>2 DEF TypeInv, TypeOK
  <2> QED
    BY <2>3 DEF RowsAt, FlattenedRows, Payload
<1>4. AckedRowsDurable'
  BY <1>1, <1>2, <1>3, Numbers DEF DurableInv, AckedRowsDurable, TypeInv, InsideLog
<1>5. OwnerHoldsTheRest'
  BY <1>2, <1>3, Numbers DEF DurableInv, OwnerHoldsTheRest, TypeInv, InsideLog, assignment, memory
<1>6. MembersHoldTheRest'
  <2> SUFFICES ASSUME NEW n \in Members, NEW p \in Partitions
               PROVE  /\ \A o \in 0..pending[n][p] :
                            RowsAt(p, o)' \subseteq Durable \cup Range(buffer[n])
                      /\ \A o \in 0..(inflight[n][p] - 1) : RowsAt(p, o)' \subseteq Durable
    BY <1>2 DEF MembersHoldTheRest, memory
  <2>1. /\ pending[n][p] \in Nat \cup {-1} /\ inflight[n][p] \in Nat /\ Len(log[p]) \in Nat
        /\ pending[n][p] < Len(log[p]) /\ inflight[n][p] <= Len(log[p])
    BY Numbers DEF TypeInv, InsideLog
  <2>2. \A o \in 0..pending[n][p] : o \in Nat /\ o < Len(log[p])
    BY <2>1
  <2>3. \A o \in 0..(inflight[n][p] - 1) : o \in Nat /\ o < Len(log[p])
    BY <2>1
  <2>4. /\ \A o \in 0..pending[n][p] : RowsAt(p, o) \subseteq Durable \cup Range(buffer[n])
        /\ \A o \in 0..(inflight[n][p] - 1) : RowsAt(p, o) \subseteq Durable
    BY DEF DurableInv, MembersHoldTheRest
  <2> QED
    BY <1>3, <2>2, <2>3, <2>4
<1> QED
  BY <1>4, <1>5, <1>6 DEF DurableInv

\* A rebalance sets positions to committed offsets and leaves memories alone.
LEMMA DurableMoves ==
    ASSUME TypeInv, DurableInv, NEW m \in Members, Join(m) \/ Evict(m) \/ Exit(m)
    PROVE  DurableInv'
<1>1. UNCHANGED <<log, committed, table>>
  BY Moves
<1>2. Durable' = Durable
  BY <1>1 DEF Durable
<1>3. AckedRowsDurable'
  BY <1>1, <1>2, SameLog, Numbers DEF DurableInv, AckedRowsDurable, TypeInv
<1>4. OwnerHoldsTheRest'
  <2>1. CASE Reassigned
    <3>1. \A p \in Partitions : position'[p] = committed[p]
      BY <2>1 DEF Reassigned
    <3>2. \A p \in Partitions : \A o \in 0..(position'[p] - 1) :
                o \in Nat /\ RowsAt(p, o) \subseteq Durable
      BY <3>1, Numbers DEF DurableInv, AckedRowsDurable, TypeInv
    <3> QED
      BY <1>1, <1>2, <3>2, SameLog DEF OwnerHoldsTheRest
  <2>2. CASE UNCHANGED assignment /\ m \notin group /\ \A n \in Members \ {m} : Keeps(n)
    <3>1. \A p \in Partitions : owner[p] \in Members => buffer'[owner[p]] = buffer[owner[p]]
      BY <2>2, GroupAssumption DEF TypeInv, TypeOK, Keeps
    <3>2. \A p \in Partitions : \A o \in 0..(position[p] - 1) : o \in Nat
      BY Numbers DEF TypeInv
    <3> QED
      BY <1>1, <1>2, <2>2, <3>1, <3>2, SameLog DEF DurableInv, OwnerHoldsTheRest, assignment
  <2> QED
    BY <2>1, <2>2, Moves
<1>5. MembersHoldTheRest'
  <2> SUFFICES ASSUME NEW n \in Members, NEW p \in Partitions
               PROVE  /\ \A o \in 0..pending'[n][p] :
                            RowsAt(p, o)' \subseteq Durable' \cup Range(buffer'[n])
                      /\ \A o \in 0..(inflight'[n][p] - 1) : RowsAt(p, o)' \subseteq Durable'
    BY DEF MembersHoldTheRest
  <2>1. CASE Keeps(n)
    <3>1. /\ \A o \in 0..pending[n][p] :
                o \in Nat /\ RowsAt(p, o) \subseteq Durable \cup Range(buffer[n])
          /\ \A o \in 0..(inflight[n][p] - 1) : o \in Nat /\ RowsAt(p, o) \subseteq Durable
      BY Numbers DEF DurableInv, MembersHoldTheRest, TypeInv
    <3> QED
      BY <1>1, <1>2, <2>1, <3>1, SameLog DEF Keeps
  <2>2. CASE Cleared(n)
    <3>1. pending'[n][p] = -1 /\ inflight'[n][p] = 0
      BY <2>2, NoOffsetsType DEF Cleared, NoOffset
    <3> QED
      BY <3>1
  <2> QED
    BY <2>1, <2>2, Moves
<1> QED
  BY <1>3, <1>4, <1>5 DEF DurableInv

\* What the owner passes goes into its buffer.
LEMMA DurableRead ==
    ASSUME TypeInv, DurableInv, NEW m \in Members, NEW p \in Partitions, Read(m, p)
    PROVE  DurableInv'
<1>0. ReadEffect(m, p)
  BY Reads
<1>1. UNCHANGED <<log, committed, table, owner, inflight>>
  BY <1>0 DEF ReadEffect
<1>2. Durable' = Durable
  BY <1>1 DEF Durable
<1>3. AckedRowsDurable'
  BY <1>1, <1>2, SameLog, Numbers DEF DurableInv, AckedRowsDurable, TypeInv
<1>4. buffer[m] \in Seq(Row) /\ buffer'[m] = buffer[m] \o FlattenedRows(p, position[p])
  BY <1>0 DEF ReadEffect, TypeInv, TypeOK
<1>5. Range(buffer'[m]) = Range(buffer[m]) \cup RowsAt(p, position[p])
  <2>1. FlattenedRows(p, position[p]) \in Seq(Row)
    BY <1>0 DEF ReadEffect
  <2>2. Range(buffer[m] \o FlattenedRows(p, position[p]))
            = Range(buffer[m]) \cup Range(FlattenedRows(p, position[p]))
    BY <1>4, <2>1, RangeConcatenation
  <2> QED
    BY <1>4, <2>2 DEF RowsAt
<1>6. \A n \in Members \ {m} : buffer'[n] = buffer[n] /\ pending'[n] = pending[n]
  BY <1>0 DEF ReadEffect, TypeInv, TypeOK
<1>7. position[p] \in Nat /\ owner[p] = m
  BY <1>0, Numbers DEF ReadEffect, TypeInv
<1>8. \A o \in 0..position[p] : o \in Nat /\ RowsAt(p, o) \subseteq Durable \cup Range(buffer'[m])
  <2> SUFFICES ASSUME NEW o \in 0..position[p]
               PROVE  o \in Nat /\ RowsAt(p, o) \subseteq Durable \cup Range(buffer'[m])
    OBVIOUS
  <2>1. CASE o = position[p]
    BY <1>5, <1>7, <2>1
  <2>2. CASE o # position[p]
    <3>1. o \in 0..(position[p] - 1)
      BY <1>7, <2>2
    <3>2. RowsAt(p, o) \subseteq Durable \cup Range(buffer[m])
      BY <1>7, <3>1 DEF DurableInv, OwnerHoldsTheRest
    <3> QED
      BY <1>5, <1>7, <3>2
  <2> QED
    BY <2>1, <2>2
<1>9. OwnerHoldsTheRest'
  <2> SUFFICES ASSUME NEW q \in Partitions, NEW o \in 0..(position'[q] - 1), owner[q] \in Members
               PROVE  RowsAt(q, o)' \subseteq Durable' \cup Range(buffer'[owner[q]])
    BY <1>1 DEF OwnerHoldsTheRest
  <2>1. CASE q = p
    <3>1. position'[p] = position[p] + 1
      BY <1>0 DEF ReadEffect, TypeInv, TypeOK
    <3>2. o \in 0..position[p]
      BY <1>7, <2>1, <3>1
    <3> QED
      BY <1>1, <1>2, <1>7, <1>8, <2>1, <3>2, SameLog
  <2>2. CASE q # p
    <3>1. position'[q] = position[q]
      BY <1>0, <2>2 DEF ReadEffect, TypeInv, TypeOK
    <3>2. o \in Nat /\ RowsAt(q, o) \subseteq Durable \cup Range(buffer[owner[q]])
      BY <3>1, Numbers DEF DurableInv, OwnerHoldsTheRest, TypeInv
    <3>3. Range(buffer[owner[q]]) \subseteq Range(buffer'[owner[q]])
      BY <1>5, <1>6
    <3> QED
      BY <1>1, <1>2, <3>2, <3>3, SameLog
  <2> QED
    BY <2>1, <2>2
<1>10. MembersHoldTheRest'
  <2> SUFFICES ASSUME NEW n \in Members, NEW q \in Partitions
               PROVE  /\ \A o \in 0..pending'[n][q] :
                            RowsAt(q, o)' \subseteq Durable' \cup Range(buffer'[n])
                      /\ \A o \in 0..(inflight'[n][q] - 1) : RowsAt(q, o)' \subseteq Durable'
    BY DEF MembersHoldTheRest
  <2>1. \A o \in 0..(inflight[n][q] - 1) : o \in Nat /\ RowsAt(q, o) \subseteq Durable
    BY Numbers DEF DurableInv, MembersHoldTheRest, TypeInv
  <2>2. \A o \in 0..pending[n][q] : o \in Nat /\ RowsAt(q, o) \subseteq Durable \cup Range(buffer[n])
    BY Numbers DEF DurableInv, MembersHoldTheRest, TypeInv
  <2>3. Range(buffer[n]) \subseteq Range(buffer'[n])
    BY <1>5, <1>6
  <2>4. \A o \in 0..pending'[n][q] : o \in Nat /\ RowsAt(q, o) \subseteq Durable \cup Range(buffer'[n])
    <3>1. CASE pending'[n][q] = pending[n][q]
      BY <2>2, <2>3, <3>1
    <3>2. CASE pending'[n][q] # pending[n][q]
      <4>1. n = m /\ pending'[m] = Tracked(m, p)
        BY <1>0, <1>6, <3>2 DEF ReadEffect, TypeInv, TypeOK
      <4>2. q = p /\ pending'[n][q] = position[p]
        BY <1>0, <3>2, <4>1 DEF ReadEffect
      <4> QED
        BY <1>8, <4>1, <4>2
    <3> QED
      BY <3>1, <3>2
  <2> QED
    BY <1>1, <1>2, <2>1, <2>4, SameLog
<1> QED
  BY <1>3, <1>9, <1>10 DEF DurableInv

\* What leaves a buffer is in the table.
LEMMA DurableFlush ==
    ASSUME TypeInv, DurableInv, NEW m \in Members, Flush(m)
    PROVE  DurableInv'
<1>0. FlushEffect(m)
  BY Flushes
<1>1. UNCHANGED <<log, committed, assignment>> /\ buffer[m] \in Seq(Row)
  BY <1>0 DEF FlushEffect, TypeInv, TypeOK
<1>2. Durable' = Durable \cup Range(buffer[m])
  BY <1>0, <1>1, DurableAppend DEF FlushEffect, TypeInv
<1>3. AckedRowsDurable'
  BY <1>1, <1>2, SameLog, Numbers DEF DurableInv, AckedRowsDurable, TypeInv
<1>4. \A n \in Members : Durable \cup Range(buffer[n]) \subseteq Durable' \cup Range(buffer'[n])
  <2>1. \A n \in Members \ {m} : buffer'[n] = buffer[n]
    BY <1>0 DEF FlushEffect, TypeInv, TypeOK
  <2> QED
    BY <1>2, <2>1
<1>5. OwnerHoldsTheRest'
  <2> SUFFICES ASSUME NEW q \in Partitions, NEW o \in 0..(position[q] - 1), owner[q] \in Members
               PROVE  RowsAt(q, o)' \subseteq Durable' \cup Range(buffer'[owner[q]])
    BY <1>1 DEF OwnerHoldsTheRest, assignment
  <2>1. o \in Nat /\ RowsAt(q, o) \subseteq Durable \cup Range(buffer[owner[q]])
    BY Numbers DEF DurableInv, OwnerHoldsTheRest, TypeInv
  <2> QED
    BY <1>1, <1>4, <2>1, SameLog
<1>6. MembersHoldTheRest'
  <2> SUFFICES ASSUME NEW n \in Members, NEW q \in Partitions
               PROVE  /\ \A o \in 0..pending'[n][q] :
                            RowsAt(q, o)' \subseteq Durable' \cup Range(buffer'[n])
                      /\ \A o \in 0..(inflight'[n][q] - 1) : RowsAt(q, o)' \subseteq Durable'
    BY DEF MembersHoldTheRest
  <2>1. \A o \in 0..(inflight[n][q] - 1) : o \in Nat /\ RowsAt(q, o) \subseteq Durable
    BY Numbers DEF DurableInv, MembersHoldTheRest, TypeInv
  <2>2. \A o \in 0..pending[n][q] : o \in Nat /\ RowsAt(q, o) \subseteq Durable \cup Range(buffer[n])
    BY Numbers DEF DurableInv, MembersHoldTheRest, TypeInv
  <2>3. CASE n = m
    <3>1. pending'[m][q] = -1 /\ inflight'[m][q] = pending[m][q] + 1
      BY <1>0, NoOffsetsType DEF FlushEffect, TypeInv, TypeOK, NoOffset
    <3>2. /\ 0..(inflight'[m][q] - 1) = 0..pending[m][q]
          /\ 0..pending'[m][q] = {}
      BY <3>1, Numbers DEF TypeInv
    <3>3. \A o \in 0..pending[m][q] : RowsAt(q, o)' \subseteq Durable'
      BY <1>1, <1>2, <2>2, <2>3, SameLog
    <3> QED
      BY <2>3, <3>2, <3>3
  <2>4. CASE n # m
    <3>1. pending'[n] = pending[n] /\ inflight'[n] = inflight[n]
      BY <1>0, <2>4 DEF FlushEffect, TypeInv, TypeOK
    <3> QED
      BY <1>1, <1>2, <1>4, <2>1, <2>2, <3>1, SameLog
  <2> QED
    BY <2>3, <2>4
<1> QED
  BY <1>3, <1>5, <1>6 DEF DurableInv

\* What the sink is not told of is in the table as well as in the buffer.
LEMMA DurableAnswerLost ==
    ASSUME TypeInv, DurableInv, NEW m \in Members, FlushAnswerLost(m)
    PROVE  DurableInv'
<1>0. AnswerLostEffect(m)
  BY TypeAnswerLost
<1>1. UNCHANGED <<log, committed, position, owner, buffer, pending, inflight>>
  BY <1>0 DEF AnswerLostEffect, assignment, memory
<1>2. Durable \subseteq Durable'
  <2>1. buffer[m] \in Seq(Row)
    BY DEF TypeInv, TypeOK
  <2> QED
    BY <1>0, <2>1, DurableAppend DEF AnswerLostEffect, TypeInv
<1>3. \A p, o : RowsAt(p, o)' = RowsAt(p, o)
  BY <1>1 DEF RowsAt, FlattenedRows, Payload
<1>4. AckedRowsDurable'
  BY <1>1, <1>2, <1>3 DEF DurableInv, AckedRowsDurable
<1>5. OwnerHoldsTheRest'
  <2> SUFFICES ASSUME NEW p \in Partitions, NEW o \in 0..(position[p] - 1), owner[p] \in Members
               PROVE  RowsAt(p, o) \subseteq Durable' \cup Range(buffer[owner[p]])
    BY <1>1, <1>3 DEF OwnerHoldsTheRest
  <2>1. RowsAt(p, o) \subseteq Durable \cup Range(buffer[owner[p]])
    BY DEF DurableInv, OwnerHoldsTheRest
  <2> QED
    BY <1>2, <2>1
<1>6. MembersHoldTheRest'
  <2> SUFFICES ASSUME NEW n \in Members, NEW p \in Partitions
               PROVE  /\ \A o \in 0..pending[n][p] :
                            RowsAt(p, o) \subseteq Durable' \cup Range(buffer[n])
                      /\ \A o \in 0..(inflight[n][p] - 1) : RowsAt(p, o) \subseteq Durable'
    BY <1>1, <1>3 DEF MembersHoldTheRest
  <2>1. /\ \A o \in 0..pending[n][p] : RowsAt(p, o) \subseteq Durable \cup Range(buffer[n])
        /\ \A o \in 0..(inflight[n][p] - 1) : RowsAt(p, o) \subseteq Durable
    BY DEF DurableInv, MembersHoldTheRest
  <2> QED
    BY <1>2, <2>1
<1> QED
  BY <1>4, <1>5, <1>6 DEF DurableInv

\* What is acknowledged was in the table when the append returned.
LEMMA DurableCommits ==
    ASSUME TypeInv, DurableInv, NEW m \in Members,
           CommitReturns(m) \/ CommitEvicted(m) \/ CommitRaises(m)
    PROVE  DurableInv'
<1>0. /\ inflight' = [inflight EXCEPT ![m] = NoCommit]
      /\ UNCHANGED <<log, table, assignment, buffer, pending>>
  BY Commits DEF CommitEffect
<1>1. \A p \in Partitions : committed'[p] = committed[p] \/ committed'[p] = inflight[m][p]
  BY Commits DEF CommitEffect
<1>2. Durable' = Durable
  BY <1>0 DEF Durable
<1>3. \A p \in Partitions :
        /\ \A o \in 0..(committed[p] - 1) : o \in Nat /\ RowsAt(p, o) \subseteq Durable
        /\ \A o \in 0..(inflight[m][p] - 1) : o \in Nat /\ RowsAt(p, o) \subseteq Durable
  BY Numbers DEF DurableInv, AckedRowsDurable, MembersHoldTheRest, TypeInv
<1>4. AckedRowsDurable'
  BY <1>0, <1>1, <1>2, <1>3, SameLog DEF AckedRowsDurable
<1>5. OwnerHoldsTheRest'
  BY <1>0, <1>2, SameLog, Numbers DEF DurableInv, OwnerHoldsTheRest, TypeInv, assignment
<1>6. \A n \in Members, p \in Partitions : inflight'[n][p] = inflight[n][p] \/ inflight'[n][p] = 0
  BY <1>0, NoOffsetsType DEF TypeInv, TypeOK
<1>7. MembersHoldTheRest'
  <2> SUFFICES ASSUME NEW n \in Members, NEW q \in Partitions
               PROVE  /\ \A o \in 0..pending[n][q] :
                            RowsAt(q, o)' \subseteq Durable' \cup Range(buffer[n])
                      /\ \A o \in 0..(inflight'[n][q] - 1) : RowsAt(q, o)' \subseteq Durable'
    BY <1>0 DEF MembersHoldTheRest
  <2>1. \A o \in 0..(inflight[n][q] - 1) : o \in Nat /\ RowsAt(q, o) \subseteq Durable
    BY Numbers DEF DurableInv, MembersHoldTheRest, TypeInv
  <2>2. \A o \in 0..pending[n][q] : o \in Nat /\ RowsAt(q, o) \subseteq Durable \cup Range(buffer[n])
    BY Numbers DEF DurableInv, MembersHoldTheRest, TypeInv
  <2> QED
    BY <1>0, <1>2, <1>6, <2>1, <2>2, SameLog
<1> QED
  BY <1>4, <1>5, <1>7 DEF DurableInv

\* Every step keeps DurableInv.
LEMMA DurableNext == TypeInv /\ DurableInv /\ [Next]_vars => DurableInv'
<1> SUFFICES ASSUME TypeInv, DurableInv, [Next]_vars PROVE DurableInv'
  OBVIOUS
<1>1. CASE Nothing
  <2>1. UNCHANGED <<log, committed, table, assignment, memory>> /\ Durable' = Durable
    BY <1>1 DEF Nothing, Durable
  <2>2. \A p, o : RowsAt(p, o)' = RowsAt(p, o)
    BY <2>1 DEF RowsAt, FlattenedRows, Payload
  <2> QED
    BY <2>1, <2>2 DEF DurableInv, AckedRowsDurable, OwnerHoldsTheRest, MembersHoldTheRest,
                      assignment, memory
<1> QED
  BY <1>1, Steps, DurablePublish, DurableMoves, DurableRead, DurableFlush, DurableAnswerLost,
     DurableCommits

\* The types and DurableInv hold in every state.
LEMMA DurableAlways == Spec => [](TypeInv /\ DurableInv)
<1>1. Init => TypeInv /\ DurableInv
  BY TypeInit, DurableInit
<1>2. TypeInv /\ DurableInv /\ [Next]_vars => TypeInv' /\ DurableInv'
  BY TypeNext, DurableNext
<1> QED
  BY <1>1, <1>2, PTL DEF Spec

\* At-least-once over rebalances: whoever read the rows and whoever commits late,
\* every row below a committed offset is in the table.
THEOREM AckedRowsAreDurable == Spec => []AckedRowsDurable
<1>1. DurableInv => AckedRowsDurable
  BY DEF DurableInv
<1> QED
  BY <1>1, DurableAlways, PTL

\* A rebalance skips nothing: what the new owner of a partition has passed is in
\* the table or in its own buffer.
THEOREM NothingIsSkipped == Spec => []OwnerHoldsTheRest
<1>1. DurableInv => OwnerHoldsTheRest
  BY DEF DurableInv
<1> QED
  BY <1>1, DurableAlways, PTL

(***************************************************************************)
(* What moves a committed offset back.                                     *)
(***************************************************************************)
LEMMA SettledInit == Init => SettledInv
BY DEF Init, SettledInv

\* A new message concerns no offset.
LEMMA SettledPublish == SettledInv /\ Publish => SettledInv'
BY DEF Publish, PublishTo, assignment, memory, SettledInv, SettledAt, Holds

\* settled is taken anew at a rebalance, of what nobody holds at that time.
LEMMA SettledMoves ==
    ASSUME TypeInv, SettledInv, NEW m \in Members, Join(m) \/ Evict(m) \/ Exit(m)
    PROVE  SettledInv'
<1>1. UNCHANGED committed
  BY Moves
<1>2. CASE Reassigned
  <2> SUFFICES ASSUME NEW p \in settled'
               PROVE  committed[p] <= position'[p] /\ \A n \in Members : ~Holds(n, p)'
    BY <1>1 DEF SettledInv, SettledAt, Holds
  <2>1. p \in Partitions /\ position'[p] = committed[p] /\ \A n \in Members : ~Holds(n, p)'
    BY <1>2 DEF Reassigned
  <2> QED
    BY <2>1, Numbers DEF TypeInv
<1>3. CASE UNCHANGED assignment /\ m \notin group /\ \A n \in Members \ {m} : Keeps(n)
  <2> SUFFICES ASSUME NEW p \in settled PROVE SettledAt(p)'
    BY <1>3 DEF SettledInv, assignment
  <2>1. p \in Partitions /\ SettledAt(p)
    BY DEF TypeInv, TypeOK, SettledInv
  <2>2. UNCHANGED <<committed, position, owner>>
    BY <1>1, <1>3 DEF assignment
  <2>3. ASSUME NEW n \in Members, Cleared(n)
        PROVE  pending'[n][p] = NoOffset /\ inflight'[n][p] = 0
    BY <2>1, <2>3, NoOffsetsType DEF Cleared
  <2>4. \A n \in Members :
            \/ pending'[n] = pending[n] /\ inflight'[n] = inflight[n]
            \/ pending'[n][p] = NoOffset /\ inflight'[n][p] = 0
    BY <2>3, Moves DEF Keeps
  <2>5. ASSUME NEW n \in Members
        PROVE  /\ Holds(n, p)' => owner[p] = n
               /\ pending'[n][p] # NoOffset =>
                     committed[p] <= pending'[n][p] /\ pending'[n][p] < position[p]
               /\ inflight'[n][p] > 0 =>
                     committed[p] <= inflight'[n][p] /\ inflight'[n][p] <= position[p]
    BY <2>1, <2>4 DEF SettledAt, Holds
  <2> QED
    BY <2>1, <2>2, <2>5 DEF SettledAt
<1> QED
  BY <1>2, <1>3, Moves

\* Only the owner comes to hold something of a settled partition.
LEMMA SettledRead ==
    ASSUME TypeInv, SettledInv, NEW m \in Members, NEW p \in Partitions, Read(m, p)
    PROVE  SettledInv'
<1>0. ReadEffect(m, p)
  BY Reads
<1>1. UNCHANGED <<committed, owner, settled, inflight>>
  BY <1>0 DEF ReadEffect
<1> SUFFICES ASSUME NEW q \in settled PROVE SettledAt(q)'
  BY <1>1 DEF SettledInv
<1>2. q \in Partitions /\ SettledAt(q)
  BY DEF TypeInv, TypeOK, SettledInv
<1>3. \A n \in Members \ {m} : pending'[n] = pending[n]
  BY <1>0 DEF ReadEffect, TypeInv, TypeOK
<1>4. pending'[m] = Tracked(m, p)
  BY <1>0 DEF ReadEffect, TypeInv, TypeOK
<1>5. CASE q # p
  <2>1. position'[q] = position[q] /\ \A n \in Members : pending'[n][q] = pending[n][q]
    BY <1>0, <1>2, <1>3, <1>4, <1>5 DEF ReadEffect, TypeInv, TypeOK
  <2> QED
    BY <1>1, <1>2, <2>1 DEF SettledAt, Holds
<1>6. CASE q = p
  <2>1. position'[p] = position[p] + 1 /\ owner[p] = m
    BY <1>0 DEF ReadEffect, TypeInv, TypeOK
  <2>2. /\ committed[p] \in Nat /\ position[p] \in Nat /\ committed[p] <= position[p]
    BY <1>2, <1>6, Numbers DEF SettledAt, TypeInv
  <2>3. ASSUME NEW n \in Members
        PROVE  /\ pending'[n][p] # NoOffset \/ inflight[n][p] > 0 => owner[p] = n
               /\ pending'[n][p] # NoOffset =>
                     committed[p] <= pending'[n][p] /\ pending'[n][p] < position[p] + 1
               /\ inflight[n][p] > 0 =>
                     committed[p] <= inflight[n][p] /\ inflight[n][p] <= position[p] + 1
    <3>1. /\ pending[n][p] # NoOffset \/ inflight[n][p] > 0 => owner[p] = n
          /\ pending[n][p] # NoOffset =>
                committed[p] <= pending[n][p] /\ pending[n][p] < position[p]
          /\ inflight[n][p] > 0 =>
                committed[p] <= inflight[n][p] /\ inflight[n][p] <= position[p]
      BY <1>2, <1>6 DEF SettledAt, Holds
    <3>2. pending[n][p] \in Nat \cup {-1} /\ inflight[n][p] \in Nat
      BY Numbers DEF TypeInv
    <3>3. pending'[n][p] = pending[n][p] \/ (n = m /\ pending'[n][p] = position[p])
      BY <1>0, <1>3, <1>4 DEF ReadEffect
    <3> QED
      BY <2>1, <2>2, <3>1, <3>2, <3>3
  <2> QED
    BY <1>1, <1>6, <2>1, <2>2, <2>3 DEF SettledAt, Holds
<1> QED
  BY <1>5, <1>6

\* A flush hands over offsets between the committed one and the position.
LEMMA SettledFlush ==
    ASSUME TypeInv, SettledInv, NEW m \in Members, Flush(m)
    PROVE  SettledInv'
<1>0. FlushEffect(m)
  BY Flushes
<1>1. UNCHANGED <<committed, assignment>>
  BY <1>0 DEF FlushEffect
<1> SUFFICES ASSUME NEW p \in settled PROVE SettledAt(p)'
  BY <1>1 DEF SettledInv, assignment
<1>2. p \in Partitions /\ SettledAt(p)
  BY DEF TypeInv, TypeOK, SettledInv
<1>3. committed[p] \in Nat /\ position[p] \in Nat /\ committed[p] <= position[p]
  BY <1>2, Numbers DEF SettledAt, TypeInv
<1>4. ASSUME NEW n \in Members
      PROVE  /\ Holds(n, p)' => owner[p] = n
             /\ pending'[n][p] # NoOffset =>
                   committed[p] <= pending'[n][p] /\ pending'[n][p] < position[p]
             /\ inflight'[n][p] > 0 =>
                   committed[p] <= inflight'[n][p] /\ inflight'[n][p] <= position[p]
  <2>1. CASE n # m
    <3>1. pending'[n] = pending[n] /\ inflight'[n] = inflight[n]
      BY <1>0, <2>1 DEF FlushEffect, TypeInv, TypeOK
    <3> QED
      BY <1>2, <3>1 DEF SettledAt, Holds
  <2>2. CASE n = m
    <3>1. /\ pending'[n][p] = NoOffset /\ inflight'[n][p] = pending[n][p] + 1
          /\ pending[n][p] \in Nat \cup {-1}
      BY <1>0, <1>2, <2>2, NoOffsetsType, Numbers DEF FlushEffect, TypeInv, TypeOK
    <3>2. pending[n][p] # -1 =>
              owner[p] = n /\ committed[p] <= pending[n][p] /\ pending[n][p] < position[p]
      BY <1>2 DEF SettledAt, Holds, NoOffset
    <3>3. inflight'[n][p] > 0 =>
              owner[p] = n /\ committed[p] <= inflight'[n][p] /\ inflight'[n][p] <= position[p]
      BY <1>3, <3>1, <3>2
    <3> QED
      BY <3>1, <3>3 DEF Holds
  <2> QED
    BY <2>1, <2>2
<1> QED
  BY <1>1, <1>3, <1>4 DEF SettledAt, assignment

\* A commit moves a settled partition forward only.
LEMMA SettledCommits ==
    ASSUME TypeInv, SettledInv, NEW m \in Members,
           CommitReturns(m) \/ CommitEvicted(m) \/ CommitRaises(m)
    PROVE  SettledInv' /\ \A p \in settled : committed[p] <= committed'[p]
<1>0. /\ inflight' = [inflight EXCEPT ![m] = NoCommit]
      /\ inflight[m] # NoCommit
      /\ UNCHANGED <<log, table, assignment, buffer, pending>>
  BY Commits DEF CommitEffect
<1> SUFFICES ASSUME NEW p \in settled PROVE SettledAt(p)' /\ committed[p] <= committed'[p]
  BY <1>0 DEF SettledInv, assignment
<1>1. p \in Partitions /\ SettledAt(p) /\ UNCHANGED <<position, owner, pending>>
  BY <1>0 DEF TypeInv, TypeOK, SettledInv, assignment
<1>2. committed[p] \in Nat /\ position[p] \in Nat /\ committed[p] <= position[p]
  BY <1>1, Numbers DEF SettledAt, TypeInv
<1>3. \/ committed'[p] = committed[p]
      \/ inflight[m][p] > 0 /\ committed'[p] = inflight[m][p]
  BY <1>1, Commits DEF CommitEffect
<1>4. inflight[m][p] \in Nat
      /\ (inflight[m][p] > 0 => /\ owner[p] = m
                                /\ committed[p] <= inflight[m][p]
                                /\ inflight[m][p] <= position[p])
  BY <1>1, Numbers DEF SettledAt, Holds, TypeInv
<1>5. committed[p] <= committed'[p] /\ committed'[p] <= position[p]
  BY <1>2, <1>3, <1>4
<1>6. /\ inflight'[m][p] = 0 /\ pending[m][p] = NoOffset
      /\ \A n \in Members \ {m} : inflight'[n] = inflight[n]
  BY <1>0, <1>1, NoOffsetsType DEF TypeInv, TypeOK, CommittingHoldsNothing
<1>7. ASSUME NEW n \in Members
      PROVE  /\ Holds(n, p)' => owner[p] = n
             /\ pending[n][p] # NoOffset =>
                   committed'[p] <= pending[n][p] /\ pending[n][p] < position[p]
             /\ inflight'[n][p] > 0 =>
                   committed'[p] <= inflight'[n][p] /\ inflight'[n][p] <= position[p]
  <2>1. CASE n = m
    BY <1>1, <1>6, <2>1 DEF Holds
  <2>2. CASE n # m
    <3>1. inflight'[n][p] = inflight[n][p] /\ pending'[n][p] = pending[n][p]
      BY <1>1, <1>6, <2>2
    <3>2. CASE committed'[p] = committed[p]
      BY <1>1, <3>1, <3>2 DEF SettledAt, Holds
    <3>3. CASE inflight[m][p] > 0
      <4>1. ~Holds(n, p)
        BY <1>1, <1>4, <2>2, <3>3 DEF SettledAt
      <4> QED
        BY <3>1, <4>1 DEF Holds
    <3> QED
      BY <1>3, <3>2, <3>3
  <2> QED
    BY <2>1, <2>2
<1> QED
  BY <1>1, <1>5, <1>7 DEF SettledAt

\* Every step keeps SettledInv, and settled offsets do not go back.
LEMMA SettledNext ==
    TypeInv /\ SettledInv /\ [Next]_vars =>
        SettledInv' /\ \A p \in settled : committed[p] <= committed'[p]
<1> SUFFICES ASSUME TypeInv, SettledInv, [Next]_vars
             PROVE  SettledInv' /\ \A p \in settled : committed[p] <= committed'[p]
  OBVIOUS
<1>1. \A p \in settled : committed[p] \in Nat
  BY Numbers DEF TypeInv, TypeOK
<1>2. UNCHANGED committed => \A p \in settled : committed[p] <= committed'[p]
  BY <1>1
<1>3. CASE Nothing
  BY <1>2, <1>3 DEF Nothing, SettledInv, SettledAt, Holds, assignment, memory
<1>4. CASE Publish
  <2>1. UNCHANGED committed
    BY <1>4 DEF Publish, PublishTo
  <2> QED
    BY <1>2, <1>4, <2>1, SettledPublish
<1>5. ASSUME NEW m \in Members, Join(m) \/ Evict(m) \/ Exit(m)
      PROVE  SettledInv' /\ \A p \in settled : committed[p] <= committed'[p]
  BY <1>2, <1>5, SettledMoves, Moves
<1>6. ASSUME NEW m \in Members, NEW p \in Partitions, Read(m, p)
      PROVE  SettledInv' /\ \A q \in settled : committed[q] <= committed'[q]
  BY <1>2, <1>6, SettledRead DEF Read, serviceVars
<1>7. ASSUME NEW m \in Members, Flush(m)
      PROVE  SettledInv' /\ \A p \in settled : committed[p] <= committed'[p]
  BY <1>2, <1>7, SettledFlush DEF Flush
<1>8. ASSUME NEW m \in Members, FlushAnswerLost(m)
      PROVE  SettledInv' /\ \A p \in settled : committed[p] <= committed'[p]
  <2>1. UNCHANGED <<committed, assignment, memory>>
    BY <1>8 DEF FlushAnswerLost
  <2> QED
    BY <1>2, <2>1 DEF SettledInv, SettledAt, Holds, assignment, memory
<1> QED
  BY <1>3, <1>4, <1>5, <1>6, <1>7, <1>8, Steps, SettledCommits

\* An offset moves back only where a rebalance caught rows on their way: nothing
\* moves the committed offset of a partition back that no member held rows of
\* when the partitions were last assigned.
THEOREM SettledOffsetsStand == Spec => SettledNeverRegresses
<1>1. Init => TypeInv /\ SettledInv
  BY TypeInit, SettledInit
<1>2. TypeInv /\ SettledInv /\ [Next]_vars =>
          TypeInv' /\ SettledInv' /\ [\A p \in settled : committed[p] <= committed'[p]]_vars
  BY TypeNext, SettledNext
<1> QED
  BY <1>1, <1>2, PTL DEF Spec, SettledNeverRegresses

(***************************************************************************)
(* How often a message is written.  A copy of a row, in the table or in a  *)
(* buffer, is the trace of one read, and its message is read once for each *)
(* time the partitions were assigned: while the owner has it still before  *)
(* it, one read of this assignment is to come.  An append whose answer was *)
(* lost leaves another trace of the same reads, and is counted apart.      *)
(***************************************************************************)
\* Where a row is in the appends the sinks know of, and in the members' buffers.
Known == DOMAIN table \ unheard

Written(r) ==
    UNION { {i} \X {j \in DOMAIN table[i] : table[i][j] = r} : i \in Known }

InBuffers(r) ==
    UNION { {m} \X {j \in DOMAIN buffer[m] : buffer[m][j] = r} : m \in Members }

Unread(r) == position[r.kafka_partition] <= r.kafka_offset

CopiesOf(r) ==
    /\ IsFiniteSet(Written(r)) /\ IsFiniteSet(InBuffers(r))
    /\ Copies(r) + Held(r) <= generation
    /\ generation > 0 /\ Unread(r) => Copies(r) + Held(r) < generation

CopiesInv ==
    /\ generation \in Nat
    /\ unheard \subseteq DOMAIN table
    /\ \A p \in Partitions : owner[p] \in Members => generation > 0
    /\ \A r \in Row : CopiesOf(r)

\* What an append whose answer was lost left in the table.
RepeatsInv == \A r \in Row : \A i \in unheard : CopiesIn(i, r) \in 0..generation

\* Copies and Held count those places.
LEMMA CopiesCounted ==
    \A r : Copies(r) = Cardinality(Written(r)) /\ Held(r) = Cardinality(InBuffers(r))
BY DEF Copies, Held, Written, InBuffers, Known

\* The places of a row, by their coordinates.
LEMMA InBuffersElement ==
    \A r, x : x \in InBuffers(r) <=>
        \E m \in Members : \E j \in DOMAIN buffer[m] : x = <<m, j>> /\ buffer[m][j] = r
<1> SUFFICES ASSUME NEW r, NEW x
             PROVE  x \in InBuffers(r) <=>
                    \E m \in Members : \E j \in DOMAIN buffer[m] : x = <<m, j>> /\ buffer[m][j] = r
  OBVIOUS
<1> DEFINE At(m) == {j \in DOMAIN buffer[m] : buffer[m][j] = r}
<1>1. x \in InBuffers(r) <=> \E m \in Members : x \in {m} \X At(m)
  BY DEF InBuffers
<1>2. \A m : x \in {m} \X At(m) <=> \E j \in At(m) : x = <<m, j>>
  OBVIOUS
<1> QED
  BY <1>1, <1>2

\* The places of a row in the table.
LEMMA WrittenElement ==
    \A r, x : x \in Written(r) <=>
        \E i \in Known : \E j \in DOMAIN table[i] : x = <<i, j>> /\ table[i][j] = r
<1> SUFFICES ASSUME NEW r, NEW x
             PROVE  x \in Written(r) <=>
                    \E i \in Known : \E j \in DOMAIN table[i] : x = <<i, j>> /\ table[i][j] = r
  OBVIOUS
<1> DEFINE At(i) == {j \in DOMAIN table[i] : table[i][j] = r}
<1>1. x \in Written(r) <=> \E i \in Known : x \in {i} \X At(i)
  BY DEF Written
<1>2. \A i : x \in {i} \X At(i) <=> \E j \in At(i) : x = <<i, j>>
  OBVIOUS
<1> QED
  BY <1>1, <1>2

\* The same, where a table and buffers stand as a step leaves them.
LEMMA InBuffersElementAfter ==
    \A r, x : x \in InBuffers(r)' <=>
        \E m \in Members : \E j \in DOMAIN buffer'[m] : x = <<m, j>> /\ buffer'[m][j] = r
<1> SUFFICES ASSUME NEW r, NEW x
             PROVE  x \in InBuffers(r)' <=>
                    \E m \in Members : \E j \in DOMAIN buffer'[m] : x = <<m, j>> /\ buffer'[m][j] = r
  OBVIOUS
<1> DEFINE At(m) == {j \in DOMAIN buffer'[m] : buffer'[m][j] = r}
<1>1. x \in InBuffers(r)' <=> \E m \in Members : x \in {m} \X At(m)
  BY DEF InBuffers
<1>2. \A m : x \in {m} \X At(m) <=> \E j \in At(m) : x = <<m, j>>
  OBVIOUS
<1> QED
  BY <1>1, <1>2

\* The same after a step.
LEMMA WrittenElementAfter ==
    \A r, x : x \in Written(r)' <=>
        \E i \in Known' : \E j \in DOMAIN table'[i] : x = <<i, j>> /\ table'[i][j] = r
<1> SUFFICES ASSUME NEW r, NEW x
             PROVE  x \in Written(r)' <=>
                    \E i \in Known' : \E j \in DOMAIN table'[i] :
                        x = <<i, j>> /\ table'[i][j] = r
  OBVIOUS
<1> DEFINE At(i) == {j \in DOMAIN table'[i] : table'[i][j] = r}
<1>1. x \in Written(r)' <=> \E i \in Known' : x \in {i} \X At(i)
  BY DEF Written
<1>2. \A i : x \in {i} \X At(i) <=> \E j \in At(i) : x = <<i, j>>
  OBVIOUS
<1> QED
  BY <1>1, <1>2

\* With as many written copies and no more held ones, the count is no larger.
LEMMA FewerHeld ==
    ASSUME NEW r \in Row, CopiesOf(r), UNCHANGED <<table, unheard>>,
           InBuffers(r)' \subseteq InBuffers(r)
    PROVE  /\ IsFiniteSet(Written(r)') /\ IsFiniteSet(InBuffers(r)')
           /\ Copies(r)' = Copies(r)
           /\ Held(r)' <= Held(r)
           /\ Copies(r) \in Nat /\ Held(r) \in Nat /\ Held(r)' \in Nat
<1>1. Written(r)' = Written(r) /\ Copies(r)' = Cardinality(Written(r)')
      /\ Held(r)' = Cardinality(InBuffers(r)')
  BY DEF Written, Copies, Held, InBuffers, Known
<1>2. IsFiniteSet(InBuffers(r)') /\ Cardinality(InBuffers(r)') <= Cardinality(InBuffers(r))
  BY FS_Subset DEF CopiesOf
<1> QED
  BY <1>1, <1>2, CopiesCounted, FS_CardinalityType DEF CopiesOf

\* An empty table has no copies.
LEMMA CopiesInit == Init => CopiesInv
<1> SUFFICES ASSUME Init PROVE CopiesInv
  OBVIOUS
<1>1. generation = 0 /\ table = <<>> /\ unheard = {} /\ buffer = [m \in Members |-> <<>>]
      /\ owner = [p \in Partitions |-> Nobody]
  BY DEF Init, ServicesInit
<1>2. ASSUME NEW r \in Row PROVE CopiesOf(r)
  <2>1. Written(r) = {}
    BY <1>1, WrittenElement DEF Known
  <2>2. InBuffers(r) = {}
    BY <1>1, InBuffersElement
  <2>3. Copies(r) = 0 /\ Held(r) = 0
    BY <2>1, <2>2, FS_EmptySet, CopiesCounted
  <2>4. IsFiniteSet(Written(r)) /\ IsFiniteSet(InBuffers(r))
    BY <2>1, <2>2, FS_EmptySet
  <2> QED
    BY <1>1, <2>3, <2>4 DEF CopiesOf
<1> QED
  BY <1>1, <1>2, GroupAssumption DEF CopiesInv

\* Whatever leaves the table, the buffers and the assignment alone.
LEMMA CopiesSame ==
    ASSUME CopiesInv, UNCHANGED <<table, unheard, buffer, assignment>>
    PROVE  CopiesInv'
<1>1. \A r : Written(r)' = Written(r) /\ InBuffers(r)' = InBuffers(r)
           /\ Copies(r)' = Copies(r) /\ Held(r)' = Held(r) /\ Unread(r)' = Unread(r)
  BY DEF Written, InBuffers, Copies, Held, Unread, Known, assignment
<1> QED
  BY <1>1 DEF CopiesInv, CopiesOf, assignment

\* A rebalance is one more assignment, and makes no copy.
LEMMA CopiesMoves ==
    ASSUME TypeInv, CopiesInv, NEW m \in Members, Join(m) \/ Evict(m) \/ Exit(m)
    PROVE  CopiesInv'
<1>1. UNCHANGED <<table, unheard>> /\ \A n \in Members : buffer'[n] = buffer[n] \/ buffer'[n] = <<>>
  BY Moves DEF Keeps, Cleared
<1>2. ASSUME NEW r \in Row
      PROVE  InBuffers(r)' \subseteq InBuffers(r)
  <2> SUFFICES ASSUME NEW x \in InBuffers(r)' PROVE x \in InBuffers(r)
    OBVIOUS
  <2>1. PICK n \in Members : \E j \in DOMAIN buffer'[n] : x = <<n, j>> /\ buffer'[n][j] = r
    BY InBuffersElementAfter
  <2>2. buffer'[n] = buffer[n]
    BY <1>1, <2>1
  <2> QED
    BY <2>1, <2>2, InBuffersElement
<1>3. CASE Reassigned
  <2>1. generation \in Nat /\ generation' = generation + 1
    BY <1>3 DEF Reassigned, CopiesInv
  <2>2. ASSUME NEW r \in Row PROVE CopiesOf(r)'
    <3>1. CopiesOf(r)
      BY DEF CopiesInv
    <3>2. Copies(r) + Held(r) <= generation
      BY <3>1 DEF CopiesOf
    <3> QED
      BY <1>1, <1>2, <2>1, <3>1, <3>2, FewerHeld DEF CopiesOf
  <2> QED
    BY <1>1, <2>1, <2>2, <1>3 DEF CopiesInv, Reassigned
<1>4. CASE UNCHANGED assignment
  <2>1. ASSUME NEW r \in Row PROVE CopiesOf(r)'
    <3>1. CopiesOf(r) /\ generation \in Nat
      BY DEF CopiesInv
    <3>2. generation' = generation /\ Unread(r)' = Unread(r)
      BY <1>4 DEF assignment, Unread
    <3>3. Copies(r) + Held(r) <= generation
          /\ (generation > 0 /\ Unread(r) => Copies(r) + Held(r) < generation)
      BY <3>1 DEF CopiesOf
    <3> QED
      BY <1>1, <1>2, <3>1, <3>2, <3>3, FewerHeld DEF CopiesOf
  <2> QED
    BY <1>1, <1>4, <2>1 DEF CopiesInv, assignment
<1> QED
  BY <1>3, <1>4, Moves

\* A read adds at most one copy, of a row its owner had still before it.
LEMMA CopiesRead ==
    ASSUME TypeInv, CopiesInv, NEW m \in Members, NEW p \in Partitions, Read(m, p)
    PROVE  CopiesInv'
<1>0. ReadEffect(m, p) /\ generation' = generation
  BY Reads DEF Read
<1> DEFINE old == buffer[m]
           new == FlattenedRows(p, position[p])
<1>1. UNCHANGED <<table, unheard, generation, owner>> /\ owner[p] = m
  BY <1>0 DEF ReadEffect
<1>2. position \in [Partitions -> Nat] /\ position' = [position EXCEPT ![p] = @ + 1]
  BY <1>0 DEF ReadEffect, TypeInv, TypeOK
<1>3. old \in Seq(Row) /\ new \in Seq(Row) /\ buffer' = [buffer EXCEPT ![m] = old \o new]
      /\ buffer \in [Members -> Seq(Row)]
  BY <1>0 DEF ReadEffect, TypeInv, TypeOK
<1>4. \A j \in 1..Len(new) :
        new[j].kafka_partition = p /\ new[j].kafka_offset = position[p] /\ new[j].record_index = j
  BY <1>3, LenProperties DEF FlattenedRows
<1> HIDE DEF old, new
<1>5. /\ Len(old \o new) = Len(old) + Len(new) /\ Len(old) \in Nat /\ Len(new) \in Nat
      /\ DOMAIN (old \o new) = 1..(Len(old) + Len(new)) /\ DOMAIN old = 1..Len(old)
      /\ \A j \in 1..Len(old) : (old \o new)[j] = old[j]
      /\ \A j \in (Len(old) + 1)..(Len(old) + Len(new)) : (old \o new)[j] = new[j - Len(old)]
  BY <1>3, ConcatProperties, LenProperties
<1>6. \A q \in Partitions : owner[q] \in Members => generation > 0
  BY DEF CopiesInv
<1>7. generation > 0 /\ generation \in Nat
  BY <1>1, <1>6 DEF CopiesInv
<1>8. ASSUME NEW r \in Row
      PROVE  CopiesOf(r)'
  <2> DEFINE mine == r.kafka_partition = p /\ r.kafka_offset = position[p]
             place == <<m, Len(old) + r.record_index>>
  <2>0. CopiesOf(r) /\ r.kafka_partition \in Partitions /\ r.kafka_offset \in Nat
    BY DEF CopiesInv, Row
  <2>1. ASSUME NEW x \in InBuffers(r)', x \notin InBuffers(r)
        PROVE  mine /\ x = place
    <3>0. PICK n \in Members : \E j \in DOMAIN buffer'[n] : x = <<n, j>> /\ buffer'[n][j] = r
      BY InBuffersElementAfter
    <3>1. PICK j \in DOMAIN buffer'[n] : x = <<n, j>> /\ buffer'[n][j] = r
      BY <3>0
    <3>2. n = m
      BY <1>3, <2>1, <3>1, InBuffersElement
    <3>3. buffer'[m] = old \o new /\ buffer[m] = old
      BY <1>3 DEF old
    <3>4. j \notin 1..Len(old)
      BY <1>5, <2>1, <3>1, <3>2, <3>3, InBuffersElement
    <3>5. j \in 1..(Len(old) + Len(new))
      BY <1>5, <3>1, <3>2, <3>3
    <3>6. j \in (Len(old) + 1)..(Len(old) + Len(new)) /\ j - Len(old) \in 1..Len(new)
      BY <1>5, <3>4, <3>5
    <3>7. r = new[j - Len(old)]
      BY <1>5, <3>1, <3>2, <3>3, <3>6
    <3>8. mine /\ r.record_index = j - Len(old)
      BY <1>4, <3>6, <3>7
    <3> QED
      BY <1>5, <3>1, <3>2, <3>6, <3>8
  <2>2. CASE mine
    <3>a. IsFiniteSet(InBuffers(r)) /\ Held(r) = Cardinality(InBuffers(r))
      BY <2>0, CopiesCounted DEF CopiesOf
    <3>b. Held(r) \in Nat
      BY <3>a, FS_CardinalityType
    <3> HIDE DEF place
    <3>c. /\ IsFiniteSet(InBuffers(r) \cup {place})
          /\ \/ Cardinality(InBuffers(r) \cup {place}) = Held(r)
             \/ Cardinality(InBuffers(r) \cup {place}) = Held(r) + 1
      BY <3>a, FS_AddElement
    <3>1. IsFiniteSet(InBuffers(r) \cup {place})
          /\ Cardinality(InBuffers(r) \cup {place}) <= Held(r) + 1 /\ Held(r) \in Nat
      BY <3>b, <3>c
    <3>2. InBuffers(r)' \subseteq InBuffers(r) \cup {place}
      BY <2>1
    <3>3. IsFiniteSet(InBuffers(r)')
          /\ Cardinality(InBuffers(r)') <= Cardinality(InBuffers(r) \cup {place})
      BY <3>1, <3>2, FS_Subset
    <3>4. Held(r)' = Cardinality(InBuffers(r)')
      BY DEF Held, InBuffers
    <3>5. Held(r)' <= Held(r) + 1 /\ Held(r)' \in Nat
      BY <3>1, <3>3, <3>4, FS_CardinalityType
    <3>6. Written(r)' = Written(r) /\ Copies(r)' = Copies(r)
      BY <1>1 DEF Written, Copies, Known
    <3>7. Unread(r)
      BY <1>2, <2>2 DEF Unread
    <3>8. ~Unread(r)'
      BY <1>2, <2>0, <2>2 DEF Unread
    <3>9. Copies(r) + Held(r) < generation
      BY <1>7, <2>0, <3>7 DEF CopiesOf
    <3>10. Copies(r) \in Nat
      BY <2>0, CopiesCounted, FS_CardinalityType DEF CopiesOf
    <3>11. Copies(r)' + Held(r)' <= generation'
      BY <1>1, <1>7, <3>1, <3>5, <3>6, <3>9, <3>10
    <3> QED
      BY <2>0, <3>3, <3>6, <3>8, <3>11 DEF CopiesOf
  <2>3. CASE ~mine
    <3>1. InBuffers(r)' \subseteq InBuffers(r)
      BY <2>1, <2>3
    <3>2. Unread(r)' => Unread(r)
      BY <1>2, <2>0 DEF Unread
    <3>3. /\ IsFiniteSet(Written(r)') /\ IsFiniteSet(InBuffers(r)')
          /\ Copies(r)' = Copies(r) /\ Held(r)' <= Held(r)
          /\ Copies(r) \in Nat /\ Held(r) \in Nat /\ Held(r)' \in Nat
      BY <1>1, <2>0, <3>1, FewerHeld
    <3>4. /\ Copies(r) + Held(r) <= generation
          /\ generation > 0 /\ Unread(r) => Copies(r) + Held(r) < generation
      BY <2>0 DEF CopiesOf
    <3> QED
      BY <1>1, <1>7, <3>2, <3>3, <3>4 DEF CopiesOf
  <2> QED
    BY <2>2, <2>3
<1> QED
  BY <1>1, <1>6, <1>7, <1>8 DEF CopiesInv

\* A flush moves the copies it holds into the table, one for one.
LEMMA CopiesFlush ==
    ASSUME TypeInv, CopiesInv, NEW m \in Members, Flush(m)
    PROVE  CopiesInv'
<1>0. FlushEffect(m)
  BY Flushes
<1>1. /\ UNCHANGED assignment /\ table' = Append(table, buffer[m])
      /\ buffer' = [buffer EXCEPT ![m] = <<>>]
  BY <1>0 DEF FlushEffect
<1>2. table \in Seq(Seq(Row)) /\ buffer \in [Members -> Seq(Row)] /\ buffer[m] \in Seq(Row)
  BY DEF TypeInv, TypeOK
<1> DEFINE last == Len(table) + 1
<1>3. /\ Len(table) \in Nat /\ DOMAIN table = 1..Len(table) /\ DOMAIN table' = 1..last
      /\ table'[last] = buffer[m] /\ \A i \in 1..Len(table) : table'[i] = table[i]
  BY <1>1, <1>2, AppendProperties, LenProperties
<1>u. unheard' = unheard /\ unheard \subseteq DOMAIN table
  BY <1>0 DEF FlushEffect, CopiesInv
<1>k. Known' = Known \cup {last} /\ Known \subseteq 1..Len(table) /\ last \notin 1..Len(table)
  BY <1>3, <1>u DEF Known
<1>4. ASSUME NEW r \in Row
      PROVE  CopiesOf(r)'
  <2> DEFINE places == {j \in DOMAIN buffer[m] : buffer[m][j] = r}
             moved == {last} \X places
             left == {m} \X places
  <2>0. CopiesOf(r)
    BY DEF CopiesInv
  <2>1. Written(r)' = Written(r) \cup moved
    <3>1. ASSUME NEW x \in Written(r)' PROVE x \in Written(r) \cup moved
      <4>1. PICK i \in Known' : \E j \in DOMAIN table'[i] : x = <<i, j>> /\ table'[i][j] = r
        BY WrittenElementAfter
      <4>2. CASE i = last
        BY <1>3, <4>1, <4>2
      <4>3. CASE i # last
        <5>1. i \in Known /\ i \in 1..Len(table)
          BY <1>k, <4>3
        <5> QED
          BY <1>3, <4>1, <5>1, WrittenElement
      <4> QED
        BY <4>2, <4>3
    <3>2. ASSUME NEW x \in Written(r) PROVE x \in Written(r)'
      <4>1. PICK i \in Known : \E j \in DOMAIN table[i] : x = <<i, j>> /\ table[i][j] = r
        BY WrittenElement
      <4>2. i \in Known' /\ table'[i] = table[i]
        BY <1>3, <1>k, <4>1
      <4> QED
        BY <4>1, <4>2, WrittenElementAfter
    <3>3. ASSUME NEW x \in moved PROVE x \in Written(r)'
      <4>1. PICK j \in places : x = <<last, j>>
        OBVIOUS
      <4>2. last \in Known' /\ table'[last] = buffer[m]
        BY <1>3, <1>k
      <4> QED
        BY <4>1, <4>2, WrittenElementAfter
    <3> QED
      BY <3>1, <3>2, <3>3
  <2>2. InBuffers(r)' = InBuffers(r) \ left
    <3>1. ASSUME NEW x \in InBuffers(r)' PROVE x \in InBuffers(r) \ left
      <4>1. PICK n \in Members : \E j \in DOMAIN buffer'[n] : x = <<n, j>> /\ buffer'[n][j] = r
        BY InBuffersElementAfter
      <4>2. n # m
        BY <1>1, <1>2, <4>1
      <4>3. buffer'[n] = buffer[n]
        BY <1>1, <1>2, <4>2
      <4> QED
        BY <4>1, <4>2, <4>3, InBuffersElement
    <3>2. ASSUME NEW x \in InBuffers(r), x \notin left PROVE x \in InBuffers(r)'
      <4>1. PICK n \in Members : \E j \in DOMAIN buffer[n] : x = <<n, j>> /\ buffer[n][j] = r
        BY <3>2, InBuffersElement
      <4>2. n # m
        BY <3>2, <4>1
      <4>3. buffer'[n] = buffer[n]
        BY <1>1, <1>2, <4>2
      <4> QED
        BY <4>1, <4>3, InBuffersElementAfter
    <3> QED
      BY <3>1, <3>2
  <2>3. left \subseteq InBuffers(r)
    BY InBuffersElement
  <2>4. Written(r) \cap moved = {}
    BY <1>k, WrittenElement
  <2>5. IsFiniteSet(left) /\ IsFiniteSet(moved) /\ Cardinality(moved) = Cardinality(left)
    <3>1. IsFiniteSet(left)
      BY <2>0, <2>3, FS_Subset DEF CopiesOf
    <3> DEFINE f == [x \in left |-> <<last, x[2]>>]
    <3>2. f \in Bijection(left, moved)
      <4>1. f \in [left -> moved]
        OBVIOUS
      <4>2. \A a, b \in left : f[a] = f[b] => a = b
        OBVIOUS
      <4>3. ASSUME NEW y \in moved PROVE \E x \in left : f[x] = y
        <5>1. PICK j \in places : y = <<last, j>>
          OBVIOUS
        <5>2. <<m, j>> \in left /\ f[<<m, j>>] = y
          BY <5>1
        <5> QED
          BY <5>2
      <4> QED
        BY <4>1, <4>2, <4>3 DEF Bijection, Injection, Surjection, IsInjective
    <3>3. ExistsBijection(left, moved)
      BY <3>2 DEF ExistsBijection
    <3> QED
      BY <3>1, <3>3, FS_Bijection
  <2> HIDE DEF moved, left, places
  <2>6. /\ IsFiniteSet(Written(r)')
        /\ Cardinality(Written(r)') = Cardinality(Written(r)) + Cardinality(moved)
    <3>1. Cardinality(Written(r) \cap moved) = 0
      BY <2>4, FS_EmptySet
    <3>2. IsFiniteSet(Written(r) \cup moved)
          /\ Cardinality(Written(r) \cup moved) = Cardinality(Written(r)) + Cardinality(moved) - 0
      BY <2>0, <2>5, <3>1, FS_Union DEF CopiesOf
    <3>3. Cardinality(Written(r)) \in Nat /\ Cardinality(moved) \in Nat
      BY <2>0, <2>5, FS_CardinalityType DEF CopiesOf
    <3> QED
      BY <2>1, <3>2, <3>3
  <2>7. /\ IsFiniteSet(InBuffers(r)')
        /\ Cardinality(InBuffers(r)') = Cardinality(InBuffers(r)) - Cardinality(left)
    <3>1. InBuffers(r) \cap left = left
      BY <2>3
    <3>2. IsFiniteSet(InBuffers(r) \ left)
          /\ Cardinality(InBuffers(r) \ left) = Cardinality(InBuffers(r)) - Cardinality(left)
      BY <2>0, <3>1, FS_Difference DEF CopiesOf
    <3> QED
      BY <2>2, <3>2
  <2>8. Copies(r)' + Held(r)' = Copies(r) + Held(r)
    <3>1. Copies(r)' = Cardinality(Written(r)') /\ Held(r)' = Cardinality(InBuffers(r)')
      BY DEF Copies, Held, Written, InBuffers, Known
    <3>2. /\ Cardinality(Written(r)) \in Nat /\ Cardinality(InBuffers(r)) \in Nat
          /\ Cardinality(left) \in Nat
      BY <2>0, <2>5, FS_CardinalityType DEF CopiesOf
    <3> QED
      BY <2>5, <2>6, <2>7, <3>1, <3>2, CopiesCounted
  <2>9. generation' = generation /\ Unread(r)' = Unread(r)
    BY <1>1 DEF assignment, Unread
  <2> QED
    BY <2>0, <2>6, <2>7, <2>8, <2>9 DEF CopiesOf
<1> QED
  BY <1>1, <1>3, <1>4, <1>u DEF CopiesInv, assignment

\* An append nobody heard of is not among those the sinks know.
LEMMA CopiesAnswerLost ==
    ASSUME TypeInv, CopiesInv, NEW m \in Members, FlushAnswerLost(m)
    PROVE  CopiesInv'
<1>0. AnswerLostEffect(m)
  BY TypeAnswerLost
<1>1. UNCHANGED <<buffer, assignment>> /\ unheard' = unheard \cup {Len(table) + 1}
      /\ table' = Append(table, buffer[m])
  BY <1>0 DEF AnswerLostEffect, memory
<1>2. table \in Seq(Seq(Row)) /\ buffer[m] \in Seq(Row)
  BY DEF TypeInv, TypeOK
<1>3. /\ Len(table) \in Nat /\ DOMAIN table = 1..Len(table) /\ DOMAIN table' = 1..(Len(table) + 1)
      /\ \A i \in 1..Len(table) : table'[i] = table[i]
  BY <1>1, <1>2, AppendProperties, LenProperties
<1>4. unheard \subseteq DOMAIN table
  BY DEF CopiesInv
<1>5. Known' = Known /\ \A i \in Known : table'[i] = table[i]
  BY <1>1, <1>3 DEF Known
<1>6. unheard' \subseteq DOMAIN table'
  BY <1>1, <1>3, <1>4
<1>7. \A r : Written(r)' = Written(r) /\ InBuffers(r)' = InBuffers(r) /\ Unread(r)' = Unread(r)
  <2> SUFFICES ASSUME NEW r
               PROVE  Written(r)' = Written(r) /\ InBuffers(r)' = InBuffers(r) /\ Unread(r)' = Unread(r)
    OBVIOUS
  <2>1. \A x : x \in Written(r)' <=> x \in Written(r)
    BY <1>5, WrittenElement, WrittenElementAfter
  <2> QED
    BY <1>1, <2>1 DEF InBuffers, Unread, assignment
<1>8. \A r : Copies(r)' = Cardinality(Written(r)') /\ Held(r)' = Cardinality(InBuffers(r)')
  BY DEF Copies, Held, Written, InBuffers, Known
<1>9. \A r : Copies(r)' = Copies(r) /\ Held(r)' = Held(r)
  BY <1>7, <1>8, CopiesCounted
<1> QED
  BY <1>1, <1>6, <1>7, <1>9 DEF CopiesInv, CopiesOf, assignment

\* Every step keeps the account of the copies.
LEMMA CopiesNext == TypeInv /\ CopiesInv /\ [Next]_vars => CopiesInv'
<1> SUFFICES ASSUME TypeInv, CopiesInv, [Next]_vars PROVE CopiesInv'
  OBVIOUS
<1>1. CASE Nothing
  BY <1>1, CopiesSame DEF Nothing, memory
<1>2. CASE Publish
  <2>1. UNCHANGED <<table, unheard, buffer, assignment>>
    BY <1>2 DEF Publish, PublishTo, memory
  <2> QED
    BY <2>1, CopiesSame
<1>3. ASSUME NEW m \in Members, CommitReturns(m) \/ CommitEvicted(m) \/ CommitRaises(m)
      PROVE  CopiesInv'
  BY <1>3, Commits, CopiesSame DEF CommitEffect
<1> QED
  BY <1>1, <1>2, <1>3, Steps, CopiesMoves, CopiesRead, CopiesFlush, CopiesAnswerLost

\* What is in the table stays as it is, and partitions are not assigned less often.
LEMMA AssignmentsGrow ==
    ASSUME TypeInv, CopiesInv, [Next]_vars
    PROVE  /\ generation' \in Nat /\ generation <= generation'
           /\ \A i \in DOMAIN table : table'[i] = table[i]
<1>0. generation \in Nat /\ generation' \in Nat
  BY CopiesNext DEF CopiesInv
<1>a. ASSUME NEW m \in Members, table' = Append(table, buffer[m])
      PROVE  \A i \in DOMAIN table : table'[i] = table[i]
  <2>1. table \in Seq(Seq(Row)) /\ buffer[m] \in Seq(Row)
    BY DEF TypeInv, TypeOK
  <2> QED
    BY <1>a, <2>1, AppendProperties, LenProperties
<1>1. CASE Publish \/ Nothing
  BY <1>0, <1>1 DEF Publish, PublishTo, Nothing, assignment
<1>2. ASSUME NEW m \in Members, Join(m) \/ Evict(m) \/ Exit(m)
      PROVE  generation <= generation' /\ UNCHANGED table
  <2>1. generation' = generation + 1 \/ generation' = generation
    BY <1>2, Moves DEF Reassigned, assignment
  <2> QED
    BY <1>0, <1>2, <2>1, Moves
<1>3. ASSUME NEW m \in Members, NEW p \in Partitions, Read(m, p)
      PROVE  generation <= generation' /\ UNCHANGED table
  BY <1>0, <1>3 DEF Read, serviceVars
<1>4. ASSUME NEW m \in Members, Flush(m)
      PROVE  generation <= generation' /\ table' = Append(table, buffer[m])
  BY <1>0, <1>4, Flushes DEF FlushEffect, assignment
<1>5. ASSUME NEW m \in Members, FlushAnswerLost(m)
      PROVE  generation <= generation' /\ table' = Append(table, buffer[m])
  BY <1>0, <1>5, TypeAnswerLost DEF AnswerLostEffect, assignment
<1>6. ASSUME NEW m \in Members, CommitReturns(m) \/ CommitEvicted(m) \/ CommitRaises(m)
      PROVE  generation <= generation' /\ UNCHANGED table
  BY <1>0, <1>6, Commits DEF CommitEffect, assignment
<1> QED
  BY <1>0, <1>a, <1>1, <1>2, <1>3, <1>4, <1>5, <1>6, Steps

\* The copies a member holds are at most as many as the partitions were assigned.
LEMMA HeldByOne ==
    ASSUME CopiesInv, NEW m \in Members, NEW r \in Row
    PROVE  Cardinality({j \in DOMAIN buffer[m] : buffer[m][j] = r}) \in 0..generation
<1> DEFINE places == {j \in DOMAIN buffer[m] : buffer[m][j] = r}
           mine == {m} \X places
           f == [x \in mine |-> x[2]]
<1>1. CopiesOf(r) /\ generation \in Nat
  BY DEF CopiesInv
<1>2. mine \subseteq InBuffers(r)
  BY InBuffersElement
<1>3. IsFiniteSet(mine) /\ Cardinality(mine) <= Held(r) /\ Held(r) \in Nat /\ Copies(r) \in Nat
  BY <1>1, <1>2, FS_Subset, FS_CardinalityType, CopiesCounted DEF CopiesOf
<1>4. f \in Bijection(mine, places)
  <2>1. f \in [mine -> places] /\ \A a, b \in mine : f[a] = f[b] => a = b
    OBVIOUS
  <2>2. ASSUME NEW j \in places PROVE \E x \in mine : f[x] = j
    <3>1. <<m, j>> \in mine /\ f[<<m, j>>] = j
      OBVIOUS
    <3> QED
      BY <3>1
  <2> QED
    BY <2>1, <2>2 DEF Bijection, Injection, Surjection, IsInjective
<1>5. ExistsBijection(mine, places)
  BY <1>4 DEF ExistsBijection
<1>6. Cardinality(places) = Cardinality(mine)
  BY <1>3, <1>5, FS_Bijection
<1> HIDE DEF places, mine, f
<1>7. Cardinality(mine) \in Nat /\ Copies(r) + Held(r) <= generation
  BY <1>1, <1>3, FS_CardinalityType DEF CopiesOf
<1>8. Cardinality(places) \in 0..generation
  BY <1>1, <1>3, <1>6, <1>7
<1> QED
  BY <1>8 DEF places

\* An append nobody heard of writes what one member holds, and nothing changes it.
LEMMA RepeatsNext ==
    ASSUME TypeInv, CopiesInv, RepeatsInv, [Next]_vars
    PROVE  RepeatsInv'
<1>0. /\ generation \in Nat /\ generation' \in Nat /\ generation <= generation'
      /\ unheard \subseteq DOMAIN table /\ \A i \in DOMAIN table : table'[i] = table[i]
  BY AssignmentsGrow DEF CopiesInv
<1>1. ASSUME NEW r \in Row, NEW i \in unheard
      PROVE  CopiesIn(i, r)' \in 0..generation'
  <2>1. CopiesIn(i, r)' = CopiesIn(i, r)
    BY <1>0 DEF CopiesIn
  <2>2. CopiesIn(i, r) \in 0..generation
    BY DEF RepeatsInv
  <2> QED
    BY <1>0, <2>1, <2>2
<1>2. CASE UNCHANGED unheard
  BY <1>1, <1>2 DEF RepeatsInv
<1>3. ASSUME NEW m \in Members, FlushAnswerLost(m)
      PROVE  RepeatsInv'
  <2>1. AnswerLostEffect(m)
    BY <1>3, TypeAnswerLost
  <2>2. table \in Seq(Seq(Row)) /\ buffer[m] \in Seq(Row)
    BY DEF TypeInv, TypeOK
  <2>3. table'[Len(table) + 1] = buffer[m]
    BY <2>1, <2>2, AppendProperties DEF AnswerLostEffect
  <2>4. ASSUME NEW r \in Row, NEW last, last = Len(table) + 1
        PROVE  CopiesIn(last, r)' \in 0..generation'
    <3>1. CopiesIn(last, r)' = Cardinality({j \in DOMAIN buffer[m] : buffer[m][j] = r})
      BY <2>3, <2>4 DEF CopiesIn
    <3>2. generation' = generation
      BY <2>1 DEF AnswerLostEffect, assignment
    <3> QED
      BY <3>1, <3>2, HeldByOne
  <2>5. unheard' = unheard \cup {Len(table) + 1}
    BY <2>1 DEF AnswerLostEffect
  <2> QED
    BY <1>1, <2>4, <2>5 DEF RepeatsInv
<1>4. (\E m \in Members : FlushAnswerLost(m)) \/ UNCHANGED unheard
  <2>1. Publish \/ Nothing => UNCHANGED unheard
    BY DEF Publish, Nothing
  <2>2. \A m \in Members, p \in Partitions : Read(m, p) => UNCHANGED unheard
    BY DEF Read
  <2>3. \A m \in Members : Flush(m) => UNCHANGED unheard
    BY DEF Flush
  <2> QED
    BY <2>1, <2>2, <2>3, Steps, Moves, Commits DEF CommitEffect
<1> QED
  BY <1>2, <1>3, <1>4

\* A message is written at most once for each time the partitions were assigned,
\* whichever members read it, hold it or write it late, and at most as often
\* again by each append whose answer was lost.
THEOREM DuplicatesAreBounded == Spec => []CopiesBounded
<1>1. Init => TypeInv /\ CopiesInv /\ RepeatsInv
  BY TypeInit, CopiesInit DEF Init, RepeatsInv
<1>2. TypeInv /\ CopiesInv /\ RepeatsInv /\ [Next]_vars => TypeInv' /\ CopiesInv' /\ RepeatsInv'
  BY TypeNext, CopiesNext, RepeatsNext
<1>3. TypeInv /\ CopiesInv /\ RepeatsInv => CopiesBounded
  <2> SUFFICES ASSUME TypeInv, CopiesInv, RepeatsInv, NEW p \in Partitions, NEW o \in Offsets(p),
                      NEW r \in RowsAt(p, o)
               PROVE  /\ Copies(r) + Held(r) <= generation
                      /\ \A i \in unheard : CopiesIn(i, r) <= generation
    BY DEF CopiesBounded
  <2>1. FlattenedRows(p, o) \in Seq(Row)
    BY FlattenedRowsType DEF TypeInv
  <2>2. r \in Row
    BY <2>1, ElementOfSeq DEF RowsAt, Range
  <2> QED
    BY <2>2 DEF CopiesInv, CopiesOf, RepeatsInv
<1> QED
  BY <1>1, <1>2, <1>3, PTL DEF Spec

(***************************************************************************)
(* The contract.  What a flush writes is of messages on the topic, because *)
(* what is buffered is; commits cover what is durable, by the invariant    *)
(* above; and no other step touches the table or the offsets.              *)
(***************************************************************************)
OnTopic(r) ==
    /\ r.kafka_partition \in Partitions
    /\ r.kafka_offset \in Offsets(r.kafka_partition)
    /\ r \in RowsAt(r.kafka_partition, r.kafka_offset)

BuffersOnTopic == \A m \in Members : \A r \in Range(buffer[m]) : OnTopic(r)

\* Messages stay on the topic.
LEMMA StaysOnTopic ==
    ASSUME TypeInv, UNCHANGED log \/ Publish, NEW r, OnTopic(r)
    PROVE  OnTopic(r)'
<1> DEFINE p == r.kafka_partition
           o == r.kafka_offset
<1>1. p \in Partitions /\ o \in Nat /\ o < Len(log[p]) /\ log[p] \in Seq(Payloads) /\ Len(log[p]) \in Nat
  BY Numbers DEF OnTopic, Offsets, TypeInv
<1> SUFFICES o \in Offsets(p)' /\ RowsAt(p, o)' = RowsAt(p, o)
  BY DEF OnTopic
<1>2. CASE UNCHANGED log
  BY <1>1, <1>2, SameLog DEF OnTopic, Offsets
<1>3. CASE Publish
  <2>1. PICK q \in Partitions, k \in Payloads : log' = [log EXCEPT ![q] = Append(@, k)]
    BY <1>3 DEF Publish, PublishTo
  <2>2. log'[p] = log[p] \/ log'[p] = Append(log[p], k)
    BY <1>1, <2>1 DEF TypeInv, TypeOK
  <2>3. Len(log'[p]) \in Nat /\ Len(log'[p]) >= Len(log[p]) /\ log'[p][o + 1] = log[p][o + 1]
    <3>1. o + 1 \in 1..Len(log[p])
      BY <1>1
    <3> QED
      BY <1>1, <2>2, <3>1, AppendProperties
  <2>4. RowsAt(p, o)' = RowsAt(p, o)
    BY <2>3 DEF RowsAt, FlattenedRows, Payload
  <2>5. o \in 0..(Len(log'[p]) - 1)
    <3> HIDE DEF p, o
    <3> QED
      BY <1>1, <2>3
  <2> QED
    BY <2>4, <2>5 DEF Offsets
<1> QED
  BY <1>2, <1>3

\* Empty buffers hold rows of the topic.
LEMMA BuffersInit == Init => BuffersOnTopic
<1> SUFFICES ASSUME Init, NEW m \in Members PROVE Range(buffer[m]) = {}
  BY DEF BuffersOnTopic
<1>1. buffer[m] = <<>>
  BY DEF Init
<1> QED
  BY <1>1 DEF Range

\* Every step keeps the buffered rows on the topic.
LEMMA BuffersNext == TypeInv /\ BuffersOnTopic /\ [Next]_vars => BuffersOnTopic'
<1> SUFFICES ASSUME TypeInv, BuffersOnTopic, [Next]_vars, NEW n \in Members, NEW r \in Range(buffer'[n])
             PROVE  OnTopic(r)'
  BY DEF BuffersOnTopic
<1>1. \A m \in Members : \A x \in Range(buffer[m]) : OnTopic(x)
  BY DEF BuffersOnTopic
<1>e. Range(<<>>) = {}
  BY DEF Range
<1>2. CASE Publish
  <2>1. r \in Range(buffer[n])
    BY <1>2 DEF Publish, memory
  <2> QED
    BY <1>1, <1>2, <2>1, StaysOnTopic
<1>3. CASE Nothing
  BY <1>1, <1>3, StaysOnTopic DEF Nothing, memory
<1>4. ASSUME NEW m \in Members, Join(m) \/ Evict(m) \/ Exit(m)
      PROVE  OnTopic(r)'
  <2>1. UNCHANGED log /\ (buffer'[n] = buffer[n] \/ buffer'[n] = <<>>)
    BY <1>4, Moves DEF Keeps, Cleared
  <2> QED
    BY <1>1, <1>e, <2>1, StaysOnTopic
<1>5. ASSUME NEW m \in Members, NEW p \in Partitions, Read(m, p)
      PROVE  OnTopic(r)'
  <2>0. ReadEffect(m, p)
    BY <1>5, Reads
  <2>1. UNCHANGED log /\ position[p] \in Offsets(p)
    BY <2>0 DEF ReadEffect
  <2>2. \A m2 \in Members \ {m} : buffer'[m2] = buffer[m2]
    BY <2>0 DEF ReadEffect, TypeInv, TypeOK
  <2>3. Range(buffer'[m]) = Range(buffer[m]) \cup RowsAt(p, position[p])
    <3>1. buffer[m] \in Seq(Row) /\ FlattenedRows(p, position[p]) \in Seq(Row)
          /\ buffer'[m] = buffer[m] \o FlattenedRows(p, position[p])
      BY <2>0 DEF ReadEffect, TypeInv, TypeOK
    <3> QED
      BY <3>1, RangeConcatenation DEF RowsAt
  <2>4. ASSUME NEW x \in RowsAt(p, position[p]) PROVE OnTopic(x)
    <3>0. PICK i \in DOMAIN FlattenedRows(p, position[p]) : x = FlattenedRows(p, position[p])[i]
      BY DEF RowsAt, Range
    <3>1. x.kafka_partition = p /\ x.kafka_offset = position[p]
      BY <3>0 DEF FlattenedRows
    <3> QED
      BY <2>1, <3>1 DEF OnTopic
  <2>5. OnTopic(r)
    <3>1. CASE n = m
      BY <1>1, <2>3, <2>4, <3>1
    <3>2. CASE n # m
      BY <1>1, <2>2, <3>2
    <3> QED
      BY <3>1, <3>2
  <2> QED
    BY <2>1, <2>5, StaysOnTopic
<1>6. ASSUME NEW m \in Members, Flush(m)
      PROVE  OnTopic(r)'
  <2>0. FlushEffect(m)
    BY <1>6, Flushes
  <2>1. UNCHANGED log /\ (buffer'[n] = buffer[n] \/ buffer'[n] = <<>>)
    BY <2>0 DEF FlushEffect, TypeInv, TypeOK
  <2> QED
    BY <1>1, <1>e, <2>1, StaysOnTopic
<1>7. ASSUME NEW m \in Members, CommitReturns(m) \/ CommitEvicted(m) \/ CommitRaises(m)
      PROVE  OnTopic(r)'
  <2>1. UNCHANGED <<log, buffer>>
    BY <1>7, Commits DEF CommitEffect
  <2> QED
    BY <1>1, <2>1, StaysOnTopic
<1>8. ASSUME NEW m \in Members, FlushAnswerLost(m)
      PROVE  OnTopic(r)'
  <2>1. UNCHANGED <<log, buffer>>
    BY <1>8, TypeAnswerLost DEF AnswerLostEffect, memory
  <2> QED
    BY <1>1, <2>1, StaysOnTopic
<1> QED
  BY <1>2, <1>3, <1>4, <1>5, <1>6, <1>7, <1>8, Steps

\* The contract's rows of a message are the model's.
LEMMA RowsOfContract ==
    ASSUME NEW p \in Partitions, NEW o
    PROVE  Contract!Rows(p, o) = RowsAt(p, o)
<1> DEFINE n == RowCount[log[p][o + 1]]
           row(i) == [kafka_partition |-> p, kafka_offset |-> o, record_index |-> i]
<1>1. FlattenedRows(p, o) = [i \in 1..n |-> row(i)]
  BY DEF FlattenedRows, Payload
<1> HIDE DEF n
<1>2. RowsAt(p, o) = { row(i) : i \in 1..n }
  BY <1>1 DEF RowsAt, Range
<1> QED
  BY <1>2 DEF Contract!Rows, n

\* A flush writes rows of messages on the topic, whether it is told so or not.
LEMMA FlushWrites ==
    ASSUME TypeInv, BuffersOnTopic, NEW m \in Members, Flush(m) \/ FlushAnswerLost(m)
    PROVE  Contract!Write
<1>1. UNCHANGED <<log, committed>> /\ table' = Append(table, buffer[m])
  BY Flushes, TypeAnswerLost DEF FlushEffect, AnswerLostEffect
<1>2. Durable' = Durable \cup Range(buffer[m])
  BY <1>1, DurableAppend DEF TypeInv, TypeOK
<1>3. ASSUME NEW r \in Range(buffer[m])
      PROVE  \E p \in Partitions : \E o \in 0..(Len(log[p]) - 1) : r \in Contract!Rows(p, o)
  <2>1. /\ r.kafka_partition \in Partitions
        /\ r.kafka_offset \in 0..(Len(log[r.kafka_partition]) - 1)
        /\ r \in RowsAt(r.kafka_partition, r.kafka_offset)
    BY DEF BuffersOnTopic, OnTopic, Offsets
  <2> QED
    BY <2>1, RowsOfContract
<1> QED
  BY <1>1, <1>2, <1>3 DEF Contract!Write

\* A commit, whoever's and however late, covers what is durable.
LEMMA CommitCovers ==
    ASSUME TypeInv, DurableInv, NEW m \in Members,
           CommitReturns(m) \/ CommitEvicted(m) \/ CommitRaises(m)
    PROVE  Contract!Cover
<1>1. UNCHANGED <<log, table>>
  BY Commits DEF CommitEffect
<1>2. /\ committed' \in [Partitions -> Nat]
      /\ \A p \in Partitions : committed'[p] = committed[p] \/ committed'[p] = inflight[m][p]
  BY Commits DEF CommitEffect
<1>3. \A p \in Partitions : committed'[p] <= Len(log[p])
  BY <1>2 DEF TypeInv, InsideLog
<1>4. ASSUME NEW p \in Partitions, NEW o \in 0..(committed'[p] - 1)
      PROVE  Contract!Rows(p, o) \subseteq Durable
  <2>1. RowsAt(p, o) \subseteq Durable
    BY <1>2 DEF DurableInv, AckedRowsDurable, MembersHoldTheRest
  <2> QED
    BY <2>1, RowsOfContract
<1>5. Durable' = Durable
  BY <1>1 DEF Durable
<1> QED
  BY <1>1, <1>2, <1>3, <1>4, <1>5 DEF Contract!Cover

\* Every step of the group is one of the shared contract's, or a stutter.
LEMMA ContractNext ==
    ASSUME TypeInv, DurableInv, BuffersOnTopic, [Next]_vars
    PROVE  [Contract!Publish \/ Contract!Write \/ Contract!Cover]_Contract!vars
<1>1. UNCHANGED <<log, committed, table>> => UNCHANGED Contract!vars
  BY DEF Durable, Contract!vars
<1>2. CASE Publish
  <2>1. UNCHANGED <<committed, table>>
    BY <1>2 DEF Publish, PublishTo
  <2>2. Durable' = Durable
    BY <2>1 DEF Durable
  <2> QED
    BY <1>2, <2>1, <2>2 DEF Publish, PublishTo, Contract!Publish
<1>3. CASE Nothing
  BY <1>1, <1>3 DEF Nothing
<1>4. ASSUME NEW m \in Members, Join(m) \/ Evict(m) \/ Exit(m)
      PROVE  UNCHANGED Contract!vars
  BY <1>1, <1>4, Moves
<1>5. ASSUME NEW m \in Members, NEW p \in Partitions, Read(m, p)
      PROVE  UNCHANGED Contract!vars
  BY <1>1, <1>5, Reads DEF ReadEffect
<1> QED
  BY <1>2, <1>3, <1>4, <1>5, Steps, FlushWrites, CommitCovers

\* The group as a whole keeps the contract, whatever its members do to one
\* another, but for offsets that a late commit moves back.
THEOREM GroupImplementsDelivery == Spec => ImplementsSharedDelivery
<1>1. Init => Contract!Init
  <2> SUFFICES ASSUME Init PROVE Contract!Init
    OBVIOUS
  <2>1. Durable = {}
    BY DEF Init, ServicesInit, Durable
  <2> QED
    BY <2>1 DEF Init, ServicesInit, Contract!Init
<1>2. TypeInv /\ DurableInv /\ BuffersOnTopic /\ [Next]_vars
        => [Contract!Publish \/ Contract!Write \/ Contract!Cover]_Contract!vars
  BY ContractNext
<1>3. Spec => []BuffersOnTopic
  BY TypeInit, TypeNext, BuffersInit, BuffersNext, PTL DEF Spec
<1> QED
  BY <1>1, <1>2, <1>3, DurableAlways, PTL DEF Spec, ImplementsSharedDelivery, Contract!SharedSpec
=============================================================================
