-------------------------- MODULE LoopQueueProofs --------------------------
(***************************************************************************)
(* LoopQueue is a bounded FIFO for every size and every set of values,     *)
(* however long the stores to the indices linger in the store buffers.     *)
(***************************************************************************)
EXTENDS LoopQueue, SequenceTheorems, TLAPS

-----------------------------------------------------------------------------
(* The inductive invariant. *)

\* Around the ring the indices keep the order endMem, end_, beginMem, begin_.
RingOrder == Distance(begin_, endMem) = Distance(begin_, beginMem)
                                        + Distance(beginMem, end_)
                                        + Distance(end_, endMem)

\* The room the full check found, as the producer sees it, is still there.
RoomLeft == ppc \in {"copy", "test", "advance"} =>
                todo # <<>> /\ Distance(begin_, endMem) + Len(todo) <= Size

\* The slot has the element of the call before begin_ moves past it ...
SlotWritten == ppc \in {"test", "advance"} => p[begin_] \in Values /\ p[begin_] = Head(todo)

\* ... so every slot between the indices holds a value.
LiveSlots == \A i \in Index :
                Distance(i, end_) < Distance(begin_, end_) => p[i] \in Values

\* A call leaves nothing behind, and push_back(t, empty) has one element.
Remaining == /\ ppc \in {"idle", "recheck"} => todo = <<>>
             /\ ppc \in {"copy", "test", "advance"} /\ single => Len(todo) = 1

\* What the consumer's check saw still holds while it copies and advances.
SomethingToTake == cpc # "idle" => beginMem # end_
OpInProgress == /\ cpc = "copy" => op # "drop"
                /\ cpc = "advance" => op # "front"
Copied == cpc = "advance" /\ op = "pop" => t = p[end_]

IInv == /\ TypeOK /\ RingOrder /\ RoomLeft /\ SlotWritten /\ Remaining
        /\ LiveSlots /\ SomethingToTake /\ OpInProgress /\ Copied

-----------------------------------------------------------------------------
(* Lemmas about the index arithmetic. *)

\* A distance is a number of slots, and zero only between equal indices.
LEMMA DistanceType ==
    ASSUME NEW b \in Index, NEW e \in Index
    PROVE  /\ Distance(b, e) \in 0 .. Size
           /\ Distance(b, e) = 0 <=> b = e
BY SizeAssumption DEF Index, Distance, Capacity

\* Advancing the leading index adds one element, unless it laps the other.
LEMMA AdvanceLeader ==
    ASSUME NEW b \in Index, NEW e \in Index
    PROVE  /\ Advanced(b) \in Index
           /\ Distance(b, e) < Size => Distance(Advanced(b), e) = Distance(b, e) + 1
           /\ Distance(b, e) = Size => Advanced(b) = e
BY SizeAssumption DEF Index, Distance, Capacity, Advanced

\* Advancing the trailing index takes one element away.
LEMMA AdvanceTrailer ==
    ASSUME NEW b \in Index, NEW e \in Index, b # e
    PROVE  /\ Distance(b, Advanced(e)) = Distance(b, e) - 1
           /\ Distance(Advanced(e), e) = 1
BY SizeAssumption DEF Index, Distance, Capacity, Advanced

\* The full check refuses exactly when the ring holds Size elements.
LEMMA FullMeansFull ==
    ASSUME NEW b \in Index, NEW e \in Index
    PROVE  Full(b, e) <=> Distance(b, e) = Size
BY SizeAssumption DEF Index, Distance, Capacity, Full

\* The bulk check refuses exactly the vectors that do not fit.
LEMMA NoRoomMeansNoRoom ==
    ASSUME NEW b \in Index, NEW e \in Index, NEW n \in Nat
    PROVE  NoRoomFor(n, b, e) <=> Distance(b, e) + n > Size
BY SizeAssumption DEF Index, Distance, Capacity, NoRoomFor

\* When four indices are in ring order, so are the first three of them.
LEMMA OrderedIndices ==
    ASSUME NEW b \in Index, NEW bm \in Index, NEW e \in Index, NEW em \in Index,
           Distance(b, em) = Distance(b, bm) + Distance(bm, e) + Distance(e, em)
    PROVE  /\ Distance(b, e) = Distance(b, bm) + Distance(bm, e)
           /\ Distance(b, e) <= Distance(b, em)
BY SizeAssumption DEF Index, Distance, Capacity

-----------------------------------------------------------------------------
(* The invariant is inductive. *)

\* A vector given to the bulk push_back is a sequence of values.
LEMMA VectorsAreSequences == ASSUME NEW vs \in Vectors PROVE vs \in Seq(Values)
<1>1. PICK n \in 0 .. MaxBulk : vs \in [1 .. n -> Values]
  BY DEF Vectors
<1>2. QED
  BY <1>1, BulkAssumption

LEMMA InitInv == Init => IInv
BY SizeAssumption, NoneAssumption
   DEF Init, IInv, TypeOK, RingOrder, RoomLeft, SlotWritten, Remaining, LiveSlots,
       SomethingToTake, OpInProgress, Copied, Index, Distance, ConsumerOps

\* Every step of either thread, and of the store buffers, keeps the invariant.
LEMMA StepInv == IInv /\ [Next]_vars => IInv'
<1> SUFFICES ASSUME IInv, [Next]_vars PROVE IInv'
  OBVIOUS
<1> USE SizeAssumption, NoneAssumption
<1>1. ASSUME NEW v \in Values, PushCheck(v) PROVE IInv'
  <2>0. <<v>> \in Seq(Values) /\ Len(<<v>>) = 1 /\ <<v>> # <<>>
    OBVIOUS
  <2>1. TypeOK'
    BY <1>1, <2>0 DEF IInv, TypeOK, PushCheck, cvars
  <2>2. RoomLeft'
    <3>1. ~Full(begin_, endMem) => Distance(begin_, endMem) < Size
      BY FullMeansFull, DistanceType, SMTT(30) DEF IInv, TypeOK
    <3>2. Distance(begin_, endMem) \in 0 .. Size
      BY DistanceType DEF IInv, TypeOK
    <3>3. CASE Full(begin_, endMem)
      BY <1>1, <3>3 DEF IInv, RoomLeft, PushCheck
    <3>4. CASE ~Full(begin_, endMem)
      <4>1. todo' = <<v>> /\ begin_' = begin_ /\ endMem' = endMem
        BY <1>1, <3>4 DEF PushCheck
      <4>2. Len(todo') = 1 /\ todo' # <<>>
        BY <4>1, <2>0
      <4>3. QED
        BY <4>1, <4>2, <3>1, <3>2, <3>4 DEF RoomLeft
    <3>5. QED
      BY <3>3, <3>4
  <2>3. (RingOrder /\ SlotWritten /\ LiveSlots /\ SomethingToTake /\ OpInProgress /\ Copied)'
    BY <1>1 DEF IInv, PushCheck, cvars, RingOrder, SlotWritten, LiveSlots,
                SomethingToTake, OpInProgress, Copied, Distance
  <2>4. Remaining'
    BY <1>1, <2>0 DEF IInv, Remaining, PushCheck
  <2>5. QED
    BY <2>1, <2>2, <2>3, <2>4 DEF IInv
<1>2. ASSUME NEW vs \in Vectors, BulkCheck(vs) PROVE IInv'
  <2>1. vs \in Seq(Values) /\ Len(vs) \in Nat
    BY VectorsAreSequences
  <2>2. TypeOK'
    BY <1>2, <2>1 DEF IInv, TypeOK, BulkCheck, cvars
  <2>3. RoomLeft'
    <3>1. ~NoRoomFor(Len(vs), begin_, endMem) => Distance(begin_, endMem) + Len(vs) <= Size
      <4>1. begin_ \in Index /\ endMem \in Index
        BY DEF IInv, TypeOK
      <4>2. Distance(begin_, endMem) \in 0 .. Size
        BY <4>1, DistanceType
      <4>3. ~NoRoomFor(Len(vs), begin_, endMem) => ~(Distance(begin_, endMem) + Len(vs) > Size)
        BY <2>1, <4>1, NoRoomMeansNoRoom
      <4>4. QED
        BY <2>1, <4>2, <4>3
    <3>2. QED
      BY <1>2, <2>1, <3>1 DEF IInv, RoomLeft, BulkCheck
  <2>4. (RingOrder /\ SlotWritten /\ LiveSlots /\ SomethingToTake /\ OpInProgress /\ Copied)'
    BY <1>2 DEF IInv, BulkCheck, cvars, RingOrder, SlotWritten, LiveSlots,
                SomethingToTake, OpInProgress, Copied, Distance
  <2>5. Remaining'
    BY <1>2 DEF IInv, Remaining, BulkCheck
  <2>6. QED
    BY <2>2, <2>3, <2>4, <2>5 DEF IInv
<1>3. CASE PushCopy
  <2>1. Head(todo) \in Values
    BY <1>3 DEF IInv, TypeOK, RoomLeft, PushCopy
  <2>2. Distance(begin_, endMem) < Size
    <3>1. Len(todo) >= 1
      BY <1>3 DEF IInv, TypeOK, RoomLeft, PushCopy
    <3>2. QED
      BY <1>3, <3>1, DistanceType, SMTT(30) DEF IInv, TypeOK, RoomLeft, PushCopy
  <2>3. TypeOK'
    BY <1>3, <2>1 DEF IInv, TypeOK, PushCopy, cvars
  <2>4. (RingOrder /\ RoomLeft /\ Remaining /\ SomethingToTake /\ OpInProgress)'
    BY <1>3 DEF IInv, PushCopy, cvars, RingOrder, RoomLeft, Remaining,
                SomethingToTake, OpInProgress, Distance
  <2>5. (SlotWritten /\ LiveSlots)'
    BY <1>3, <2>1 DEF IInv, TypeOK, PushCopy, SlotWritten, LiveSlots, Distance
  <2>6. Copied'
    <3>1. cpc = "advance" => begin_ # end_
      <4>1. cpc = "advance" => Distance(beginMem, end_) >= 1
        BY DistanceType, SMTT(30) DEF IInv, TypeOK, SomethingToTake
      <4>2. /\ Distance(begin_, end_) \in 0 .. Size
            /\ Distance(end_, endMem) \in 0 .. Size
            /\ Distance(begin_, beginMem) \in 0 .. Size
            /\ Distance(beginMem, end_) \in 0 .. Size
        BY DistanceType DEF IInv, TypeOK
      <4>3. begin_ = end_ => Distance(begin_, endMem) = Distance(end_, endMem)
        OBVIOUS
      <4>4. QED
        BY <4>1, <4>2, <4>3 DEF IInv, RingOrder
    <3>2. QED
      BY <1>3, <3>1 DEF IInv, TypeOK, PushCopy, cvars, Copied
  <2>7. QED
    BY <2>3, <2>4, <2>5, <2>6 DEF IInv
<1>4. CASE PushTest
  BY <1>4 DEF IInv, TypeOK, PushTest, cvars, RingOrder, RoomLeft, SlotWritten, Remaining,
              LiveSlots, SomethingToTake, OpInProgress, Copied, Distance
<1>5. CASE PushAdvance
  <2>0. /\ Distance(begin_, endMem) \in 0 .. Size /\ Distance(begin_, beginMem) \in 0 .. Size
        /\ Distance(beginMem, end_) \in 0 .. Size /\ Distance(end_, endMem) \in 0 .. Size
    BY DistanceType DEF IInv, TypeOK
  <2>1. /\ Len(todo) \in Nat /\ Len(todo) >= 1
        /\ Tail(todo) \in Seq(Values) /\ Len(Tail(todo)) = Len(todo) - 1
    <3>1. todo \in Seq(Values) /\ todo # <<>>
      BY <1>5 DEF IInv, TypeOK, RoomLeft, PushAdvance
    <3>2. QED
      BY <3>1
  <2>2. Distance(begin_, endMem) < Size
    BY <1>5, <2>1, DistanceType, SMTT(30) DEF IInv, TypeOK, RoomLeft, PushAdvance
  <2>3. begin_' \in Index
    BY <1>5, AdvanceLeader DEF IInv, TypeOK, PushAdvance
  <2>4. TypeOK'
    BY <1>5, <2>1, <2>3 DEF IInv, TypeOK, PushAdvance, cvars
  <2>5. Distance(begin_', endMem) = Distance(begin_, endMem) + 1
    BY <1>5, <2>2, AdvanceLeader DEF IInv, TypeOK, PushAdvance
  <2>6. /\ Distance(begin_, end_) < Size /\ Distance(begin_, beginMem) < Size
        /\ Distance(begin_, end_) = Distance(begin_, beginMem) + Distance(beginMem, end_)
    BY <2>2 DEF IInv, TypeOK, RingOrder, Index, Distance, Capacity
  <2>7. Distance(begin_', beginMem) = Distance(begin_, beginMem) + 1
    BY <1>5, <2>6, AdvanceLeader DEF IInv, TypeOK, PushAdvance
  <2>8. Distance(begin_', end_) = Distance(begin_, end_) + 1
    BY <1>5, <2>6, AdvanceLeader DEF IInv, TypeOK, PushAdvance
  <2>9. RingOrder'
    BY <1>5, <2>0, <2>5, <2>7 DEF IInv, RingOrder, PushAdvance
  <2>11. RoomLeft'
    BY <1>5, <2>0, <2>1, <2>5, SMTT(30) DEF IInv, RoomLeft, PushAdvance
  <2>12. SlotWritten'
    BY <1>5 DEF SlotWritten, PushAdvance
  <2>13. LiveSlots'
    <3>1. SUFFICES ASSUME NEW i \in Index, Distance(i, end_) < Distance(begin_, end_) + 1
                   PROVE  p[i] \in Values
      BY <1>5, <2>8 DEF LiveSlots, PushAdvance, Distance
    <3>2. CASE Distance(i, end_) = Distance(begin_, end_)
      <4>1. i = begin_
        BY <3>2 DEF IInv, TypeOK, Index, Distance, Capacity
      <4>2. QED
        BY <4>1, <1>5 DEF IInv, SlotWritten, PushAdvance
    <3>3. CASE Distance(i, end_) < Distance(begin_, end_)
      BY <3>3 DEF IInv, LiveSlots
    <3>4. Distance(i, end_) \in 0 .. Size /\ Distance(begin_, end_) \in 0 .. Size
      BY DistanceType DEF IInv, TypeOK
    <3>5. QED
      BY <3>1, <3>2, <3>3, <3>4
  <2>14. SomethingToTake'
    BY <1>5 DEF IInv, SomethingToTake, PushAdvance, cvars
  <2>15. (OpInProgress /\ Copied)'
    BY <1>5 DEF IInv, OpInProgress, Copied, PushAdvance, cvars
  <2>16. Remaining'
    <3>1. todo' = Tail(todo) /\ todo' \in Seq(Values)
      BY <1>5, <2>1 DEF PushAdvance
    <3>2. Len(todo') = 0 <=> todo' = <<>>
      BY <3>1, EmptySeq
    <3>3. QED
      BY <1>5, <2>1, <3>1, <3>2 DEF IInv, Remaining, PushAdvance
  <2>17. QED
    BY <2>4, <2>9, <2>11, <2>12, <2>13, <2>14, <2>15, <2>16 DEF IInv
<1>6. CASE PushRecheck
  BY <1>6 DEF IInv, TypeOK, PushRecheck, cvars, RingOrder, RoomLeft, SlotWritten, Remaining,
              LiveSlots, SomethingToTake, OpInProgress, Copied, Distance
<1>7. ASSUME NEW o \in ConsumerOps, PopCheck(o) PROVE IInv'
  BY <1>7 DEF IInv, TypeOK, PopCheck, pvars, RingOrder, RoomLeft, SlotWritten, Remaining,
              LiveSlots, SomethingToTake, OpInProgress, Copied, Distance, ConsumerOps
<1>8. CASE PopCopy
  BY <1>8 DEF IInv, TypeOK, PopCopy, pvars, RingOrder, RoomLeft, SlotWritten, Remaining,
              LiveSlots, SomethingToTake, OpInProgress, Copied, Distance, ConsumerOps
<1>9. CASE PopAdvance
  <2>0. /\ Distance(begin_, endMem) \in 0 .. Size /\ Distance(begin_, beginMem) \in 0 .. Size
        /\ Distance(beginMem, end_) \in 0 .. Size /\ Distance(end_, endMem) \in 0 .. Size
    BY DistanceType DEF IInv, TypeOK
  <2>1. beginMem # end_
    BY <1>9 DEF IInv, SomethingToTake, PopAdvance
  <2>2. end_' \in Index
    BY <1>9, AdvanceLeader DEF IInv, TypeOK, PopAdvance
  <2>3. TypeOK'
    BY <1>9, <2>2 DEF IInv, TypeOK, PopAdvance, pvars
  <2>4. Distance(beginMem, end_') = Distance(beginMem, end_) - 1
    BY <1>9, <2>1, AdvanceTrailer DEF IInv, TypeOK, PopAdvance
  <2>5. /\ Distance(end_, endMem) < Size
        /\ Distance(begin_, end_) = Distance(begin_, beginMem) + Distance(beginMem, end_)
        /\ begin_ # end_
    BY <2>1 DEF IInv, TypeOK, RingOrder, Index, Distance, Capacity
  <2>6. Distance(end_', endMem) = Distance(end_, endMem) + 1
    BY <1>9, <2>5, AdvanceLeader DEF IInv, TypeOK, PopAdvance
  <2>7. Distance(begin_, end_') = Distance(begin_, end_) - 1
    BY <1>9, <2>5, AdvanceTrailer DEF IInv, TypeOK, PopAdvance
  <2>8. RingOrder' /\ RoomLeft'
    BY <1>9, <2>0, <2>4, <2>6 DEF IInv, RingOrder, RoomLeft, PopAdvance, pvars
  <2>9. (SlotWritten /\ Remaining /\ SomethingToTake /\ OpInProgress /\ Copied)'
    BY <1>9 DEF IInv, SlotWritten, Remaining, SomethingToTake, OpInProgress, Copied, PopAdvance, pvars
  <2>10. LiveSlots'
    <3>1. SUFFICES ASSUME NEW i \in Index, Distance(i, end_') < Distance(begin_, end_')
                   PROVE  p[i] \in Values
      BY <1>9 DEF LiveSlots, PopAdvance, Distance
    <3>2. Distance(i, end_) < Distance(begin_, end_)
      BY <1>9, <2>2, <2>5, <3>1 DEF PopAdvance, IInv, TypeOK, Index, Distance, Capacity, Advanced
    <3>3. QED
      BY <3>2 DEF IInv, LiveSlots
  <2>11. QED
    BY <2>3, <2>8, <2>9, <2>10 DEF IInv
<1>10. CASE CommitBegin
  <2>0. /\ Distance(begin_, endMem) \in 0 .. Size /\ Distance(begin_, beginMem) \in 0 .. Size
        /\ Distance(beginMem, end_) \in 0 .. Size /\ Distance(end_, endMem) \in 0 .. Size
    BY DistanceType DEF IInv, TypeOK
  <2>1. beginMem' \in Index
    BY <1>10, AdvanceLeader DEF IInv, TypeOK, CommitBegin
  <2>2. TypeOK'
    BY <1>10, <2>1 DEF IInv, TypeOK, CommitBegin, pvars, cvars
  <2>3. Distance(begin_, beginMem') = Distance(begin_, beginMem) - 1
    BY <1>10, AdvanceTrailer DEF IInv, TypeOK, CommitBegin
  <2>4. Distance(beginMem, end_) < Size
    <3>1. Distance(begin_, beginMem) >= 1
      BY <1>10, DistanceType, SMTT(30) DEF IInv, TypeOK, CommitBegin
    <3>2. QED
      BY <3>1, DistanceType, SMTT(30) DEF IInv, TypeOK, RingOrder
  <2>5. Distance(beginMem', end_) = Distance(beginMem, end_) + 1
    BY <1>10, <2>4, AdvanceLeader DEF IInv, TypeOK, CommitBegin
  <2>6. RingOrder'
    BY <1>10, <2>0, <2>3, <2>5 DEF IInv, RingOrder, CommitBegin
  <2>7. SomethingToTake'
    BY <1>10, <2>1, <2>5, DistanceType DEF IInv, TypeOK, SomethingToTake, CommitBegin, cvars
  <2>8. (RoomLeft /\ SlotWritten /\ Remaining /\ LiveSlots /\ OpInProgress /\ Copied)'
    BY <1>10 DEF IInv, RoomLeft, SlotWritten, Remaining, LiveSlots, OpInProgress, Copied,
                 CommitBegin, pvars, cvars, Distance
  <2>9. QED
    BY <2>2, <2>6, <2>7, <2>8 DEF IInv
<1>11. CASE CommitEnd
  <2>0. /\ Distance(begin_, endMem) \in 0 .. Size /\ Distance(begin_, beginMem) \in 0 .. Size
        /\ Distance(beginMem, end_) \in 0 .. Size /\ Distance(end_, endMem) \in 0 .. Size
    BY DistanceType DEF IInv, TypeOK
  <2>1. endMem' \in Index
    BY <1>11, AdvanceLeader DEF IInv, TypeOK, CommitEnd
  <2>2. TypeOK'
    BY <1>11, <2>1 DEF IInv, TypeOK, CommitEnd, pvars, cvars
  <2>3. Distance(end_, endMem') = Distance(end_, endMem) - 1
    BY <1>11, AdvanceTrailer DEF IInv, TypeOK, CommitEnd
  <2>4. Distance(end_, endMem) >= 1
    BY <1>11, DistanceType, SMTT(30) DEF IInv, TypeOK, CommitEnd
  <2>5. begin_ # endMem
    BY <2>4, DistanceType DEF IInv, TypeOK, RingOrder
  <2>6. Distance(begin_, endMem') = Distance(begin_, endMem) - 1
    BY <1>11, <2>5, AdvanceTrailer DEF IInv, TypeOK, CommitEnd
  <2>7. RingOrder' /\ RoomLeft'
    <3>1. Len(todo) \in Nat
      BY DEF IInv, TypeOK
    <3>2. QED
      BY <1>11, <2>0, <2>3, <2>6, <3>1, SMTT(30) DEF IInv, RingOrder, RoomLeft, CommitEnd, pvars
  <2>8. (SlotWritten /\ Remaining /\ LiveSlots /\ SomethingToTake /\ OpInProgress /\ Copied)'
    BY <1>11 DEF IInv, SlotWritten, Remaining, LiveSlots, SomethingToTake, OpInProgress, Copied,
                 CommitEnd, pvars, cvars, Distance
  <2>9. QED
    BY <2>2, <2>7, <2>8 DEF IInv
<1>12. CASE UNCHANGED vars
  BY <1>12 DEF IInv, TypeOK, vars, pvars, cvars, RingOrder, RoomLeft, SlotWritten, Remaining,
               LiveSlots, SomethingToTake, OpInProgress, Copied, Distance
<1>13. QED
  BY <1>1, <1>2, <1>3, <1>4, <1>5, <1>6, <1>7, <1>8, <1>9, <1>10, <1>11, <1>12
     DEF Next, Producer, Consumer

\* Every index stays within the array, in the store buffers and in memory, for
\* every size (LoopQueue.hpp:52-144).
THEOREM TypeCorrect == Spec => []TypeOK
<1>1. IInv => TypeOK
  BY DEF IInv
<1>2. QED
  BY <1>1, InitInv, StepInv, PTL DEF Spec

\* The producer never writes over what the consumer has not taken: the full
\* check of push_back (LoopQueue.hpp:55, 92) is worth as much when the slot is
\* written and begin_ moves as when it was made.
THEOREM Overrun == Spec => []NoOverrun
<1>1. IInv => NoOverrun
  <2> SUFFICES ASSUME IInv PROVE NoOverrun
    OBVIOUS
  <2>1. Distance(begin_, end_) <= Distance(begin_, endMem)
    BY SizeAssumption DEF IInv, TypeOK, RingOrder, Index, Distance, Capacity
  <2>2. /\ Distance(begin_, end_) \in 0 .. Size /\ Distance(begin_, endMem) \in 0 .. Size
        /\ Len(todo) \in Nat
    BY DistanceType DEF IInv, TypeOK
  <2>3. QED
    BY <2>1, <2>2, SizeAssumption DEF IInv, RoomLeft, NoOverrun
<1>2. QED
  BY <1>1, InitInv, StepInv, PTL DEF Spec

-----------------------------------------------------------------------------
(* The refinement of BoundedFifo. *)

\* The slot of the i-th element from e on.
At(e, i) == IF e + i - 1 > Size THEN e + i - 1 - Capacity ELSE e + i - 1

\* The elements between two indices are a sequence, one for each slot.
LEMMA BetweenType ==
    ASSUME NEW a, NEW e \in Index, NEW b \in Index,
           \A i \in 1 .. Distance(b, e) : a[At(e, i)] \in Values
    PROVE  /\ Between(a, e, b) \in Seq(Values)
           /\ Len(Between(a, e, b)) = Distance(b, e)
           /\ \A i \in 1 .. Distance(b, e) : Between(a, e, b)[i] = a[At(e, i)]
<1>1. Distance(b, e) \in Nat
  BY DistanceType
<1>2. QED
  BY <1>1 DEF Between, At

\* Advancing the leading index appends the element of its slot.
LEMMA BetweenGrows ==
    ASSUME NEW a, NEW e \in Index, NEW b \in Index, Distance(b, e) < Size,
           \A i \in 1 .. Distance(b, e) : a[At(e, i)] \in Values, a[b] \in Values
    PROVE  Between(a, e, Advanced(b)) = Append(Between(a, e, b), a[b])
<1> DEFINE n == Distance(b, e)
           old == Between(a, e, b)
           new == Between(a, e, Advanced(b))
<1>1. n \in Nat /\ Advanced(b) \in Index /\ Distance(Advanced(b), e) = n + 1
  BY DistanceType, AdvanceLeader
<1>2. At(e, n + 1) = b
  BY SizeAssumption DEF Index, At, Distance, Capacity
<1>3. \A i \in 1 .. n + 1 : a[At(e, i)] \in Values
  BY <1>1, <1>2
<1>4. old \in Seq(Values) /\ Len(old) = n /\ \A i \in 1 .. n : old[i] = a[At(e, i)]
  BY BetweenType
<1>5. new \in Seq(Values) /\ Len(new) = n + 1 /\ \A i \in 1 .. n + 1 : new[i] = a[At(e, i)]
  BY <1>1, <1>3, BetweenType
<1> HIDE DEF n, old, new
<1>6. /\ Append(old, a[b]) \in Seq(Values) /\ Len(Append(old, a[b])) = n + 1
      /\ \A i \in 1 .. n : Append(old, a[b])[i] = old[i]
      /\ Append(old, a[b])[n + 1] = a[b]
  BY <1>4, AppendProperties
<1>7. \A i \in 1 .. n + 1 : new[i] = Append(old, a[b])[i]
  BY <1>1, <1>2, <1>4, <1>5, <1>6
<1>8. new = Append(old, a[b])
  BY <1>5, <1>6, <1>7, SeqEqual
<1>9. QED
  BY <1>8 DEF new, old

\* Advancing the trailing index takes the head off.
LEMMA BetweenShrinks ==
    ASSUME NEW a, NEW e \in Index, NEW b \in Index, b # e,
           \A i \in 1 .. Distance(b, e) : a[At(e, i)] \in Values
    PROVE  /\ Between(a, e, b) # <<>>
           /\ Head(Between(a, e, b)) = a[e]
           /\ Between(a, Advanced(e), b) = Tail(Between(a, e, b))
<1> DEFINE n == Distance(b, e)
           old == Between(a, e, b)
           new == Between(a, Advanced(e), b)
<1>1. n \in Nat /\ n # 0 /\ Advanced(e) \in Index /\ Distance(b, Advanced(e)) = n - 1
  BY DistanceType, AdvanceLeader, AdvanceTrailer
<1>2. At(e, 1) = e
  BY SizeAssumption DEF Index, At
<1>3. \A i \in 1 .. n - 1 : At(Advanced(e), i) = At(e, i + 1)
  <2>1. SUFFICES ASSUME NEW i \in 1 .. n - 1 PROVE At(Advanced(e), i) = At(e, i + 1)
    OBVIOUS
  <2>2. QED
    BY <1>1, SizeAssumption DEF Index, At, Capacity, Advanced, Distance
<1>4. old \in Seq(Values) /\ Len(old) = n /\ \A i \in 1 .. n : old[i] = a[At(e, i)]
  BY BetweenType
<1>5. \A i \in 1 .. n - 1 : a[At(Advanced(e), i)] \in Values
  BY <1>1, <1>3
<1>6. /\ new \in Seq(Values) /\ Len(new) = n - 1
      /\ \A i \in 1 .. n - 1 : new[i] = a[At(Advanced(e), i)]
  BY <1>1, <1>5, BetweenType
<1> HIDE DEF n, old, new
<1>7. old # <<>> /\ Head(old) = a[e]
  BY <1>1, <1>2, <1>4
<1>8. /\ Tail(old) \in Seq(Values) /\ Len(Tail(old)) = n - 1
      /\ \A i \in 1 .. n - 1 : Tail(old)[i] = old[i + 1]
  BY <1>1, <1>4, <1>7, HeadTailProperties
<1>9. \A i \in 1 .. n - 1 : new[i] = Tail(old)[i]
  BY <1>1, <1>3, <1>4, <1>6, <1>8
<1>10. new = Tail(old)
  BY <1>6, <1>8, <1>9, SeqEqual
<1>11. QED
  BY <1>7, <1>10 DEF new, old

\* The elements the consumer can see, and those in slots it cannot see yet.
LEMMA LiveValues ==
    ASSUME IInv
    PROVE  /\ \A i \in 1 .. Distance(beginMem, end_) : p[At(end_, i)] \in Values
           /\ \A i \in 1 .. Distance(begin_, beginMem) : p[At(beginMem, i)] \in Values
<1>1. ASSUME NEW i \in 1 .. Distance(beginMem, end_) PROVE p[At(end_, i)] \in Values
  <2>1. At(end_, i) \in Index /\ Distance(At(end_, i), end_) < Distance(begin_, end_)
    BY SizeAssumption DEF IInv, TypeOK, RingOrder, Index, Distance, Capacity, At
  <2>2. QED
    BY <2>1 DEF IInv, LiveSlots
<1>2. ASSUME NEW i \in 1 .. Distance(begin_, beginMem) PROVE p[At(beginMem, i)] \in Values
  <2>1. At(beginMem, i) \in Index /\ Distance(At(beginMem, i), end_) < Distance(begin_, end_)
    BY SizeAssumption DEF IInv, TypeOK, RingOrder, Index, Distance, Capacity, At
  <2>2. QED
    BY <2>1 DEF IInv, LiveSlots
<1>3. QED
  BY <1>1, <1>2

LEMMA FifoTypes ==
    ASSUME IInv
    PROVE  /\ Content \in Seq(Values) /\ Len(Content) = Distance(beginMem, end_)
           /\ Between(p, beginMem, begin_) \in Seq(Values)
           /\ Pending \in Seq(Values)
<1>1. begin_ \in Index /\ beginMem \in Index /\ end_ \in Index /\ todo \in Seq(Values)
  BY DEF IInv, TypeOK
<1>2. Content \in Seq(Values) /\ Len(Content) = Distance(beginMem, end_)
  BY <1>1, LiveValues, BetweenType DEF Content
<1>3. Between(p, beginMem, begin_) \in Seq(Values)
  BY <1>1, LiveValues, BetweenType
<1>4. QED
  BY <1>1, <1>2, <1>3, ConcatProperties DEF Pending

LEMMA InitFifo == Init => Fifo!Init
<1> SUFFICES ASSUME Init PROVE Fifo!Init
  OBVIOUS
<1>1. Distance(0, 0) = 0
  BY DEF Distance
<1>2. Between(p, 0, 0) = <<>>
  BY <1>1 DEF Between
<1>3. QED
  BY <1>2 DEF Init, Fifo!Init, Content, Pending

\* The first element of a concatenation is that of its first part.
LEMMA HeadOfConcat ==
    ASSUME NEW S, NEW s \in Seq(S), NEW u \in Seq(S), s # <<>>
    PROVE  /\ s \o u # <<>> /\ Head(s \o u) = Head(s)
           /\ Tail(s \o u) = Tail(s) \o u
OBVIOUS

\* An element moves from what is still to be written to the end of the slots.
LEMMA MoveHead ==
    ASSUME NEW S, NEW s \in Seq(S), NEW u \in Seq(S), u # <<>>
    PROVE  Append(s, Head(u)) \o Tail(u) = s \o u
OBVIOUS

\* What is appended lengthens a sequence and leaves it as its beginning.
LEMMA Lengthened ==
    ASSUME NEW S, NEW s \in Seq(S), NEW u \in Seq(S), u # <<>>
    PROVE  /\ s \o u \in Seq(S) /\ Len(s) < Len(s \o u)
           /\ SubSeq(s \o u, 1, Len(s)) = s
OBVIOUS

\* What push_back accepts is appended to what is pending.
LEMMA AcceptedIsPending ==
    ASSUME IInv, NEW vs \in Seq(Values), vs # <<>>, todo = <<>>, todo' = vs,
           p' = p, begin_' = begin_, beginMem' = beginMem, end_' = end_, got' = got
    PROVE  Fifo!Accept
<1> DEFINE s == Between(p, beginMem, begin_)
<1>1. s \in Seq(Values)
  BY FifoTypes
<1>2. Pending = s \o <<>> /\ Pending' = s \o vs /\ Content' = Content
  BY DEF Pending, Content
<1> HIDE DEF s
<1>3. Pending = s
  BY <1>1, <1>2, ConcatEmptySeq
<1>4. s \o vs \in Seq(Values) /\ Len(s) < Len(s \o vs) /\ SubSeq(s \o vs, 1, Len(s)) = s
  BY <1>1, Lengthened
<1>5. QED
  BY <1>2, <1>3, <1>4 DEF Fifo!Accept

\* Every step of the ring is a step of the FIFO or leaves it alone.
LEMMA StepFifo == IInv /\ IInv' /\ [Next]_vars => [Fifo!Next]_(Fifo!vars)
<1> SUFFICES ASSUME IInv, IInv', [Next]_vars PROVE [Fifo!Next]_(Fifo!vars)
  OBVIOUS
<1> USE SizeAssumption
<1>0. /\ begin_ \in Index /\ beginMem \in Index /\ end_ \in Index /\ endMem \in Index
      /\ p \in [Index -> Values \cup {None}] /\ todo \in Seq(Values)
  BY DEF IInv, TypeOK
<1>a. ASSUME p' = p, beginMem' = beginMem, begin_' = begin_, end_' = end_, todo' = todo, got' = got
      PROVE  UNCHANGED Fifo!vars
  BY <1>a DEF Fifo!vars, Content, Pending
<1>1. ASSUME NEW v \in Values, PushCheck(v) PROVE [Fifo!Next]_(Fifo!vars)
  <2>1. CASE Full(begin_, endMem)
    BY <1>1, <1>a, <2>1 DEF PushCheck, cvars
  <2>2. CASE ~Full(begin_, endMem)
    <3>1. <<v>> \in Seq(Values) /\ <<v>> # <<>>
      OBVIOUS
    <3>2. /\ todo = <<>> /\ todo' = <<v>> /\ p' = p /\ begin_' = begin_
          /\ beginMem' = beginMem /\ end_' = end_ /\ got' = got
      BY <1>1, <2>2 DEF PushCheck, cvars, IInv, Remaining
    <3>3. QED
      BY <3>1, <3>2, AcceptedIsPending DEF Fifo!Next
  <2>3. QED
    BY <2>1, <2>2
<1>2. ASSUME NEW vs \in Vectors, BulkCheck(vs) PROVE [Fifo!Next]_(Fifo!vars)
  <2>1. CASE NoRoomFor(Len(vs), begin_, endMem) \/ vs = <<>>
    BY <1>2, <1>a, <2>1 DEF BulkCheck, cvars
  <2>2. CASE ~(NoRoomFor(Len(vs), begin_, endMem) \/ vs = <<>>)
    <3>1. vs \in Seq(Values) /\ vs # <<>>
      BY <2>2, VectorsAreSequences
    <3>2. /\ todo = <<>> /\ todo' = vs /\ p' = p /\ begin_' = begin_
          /\ beginMem' = beginMem /\ end_' = end_ /\ got' = got
      BY <1>2, <2>2 DEF BulkCheck, cvars, IInv, Remaining
    <3>3. QED
      BY <3>1, <3>2, AcceptedIsPending DEF Fifo!Next
  <2>3. QED
    BY <2>1, <2>2
<1>3. CASE PushCopy
  <2>1. Distance(begin_, endMem) < Size
    <3>1. todo # <<>>
      BY <1>3 DEF IInv, RoomLeft, PushCopy
    <3>2. Len(todo) \in Nat /\ Len(todo) >= 1
      BY <1>0, <3>1
    <3>3. QED
      BY <1>0, <1>3, <3>2, DistanceType, SMTT(30) DEF IInv, RoomLeft, PushCopy
  <2>2. ASSUME NEW i \in 1 .. Distance(beginMem, end_)
        PROVE  At(end_, i) \in Index /\ At(end_, i) # begin_
    BY <1>0, <2>1 DEF IInv, RingOrder, Index, Distance, Capacity, At
  <2>3. ASSUME NEW i \in 1 .. Distance(begin_, beginMem)
        PROVE  At(beginMem, i) \in Index /\ At(beginMem, i) # begin_
    BY <1>0, <2>1 DEF IInv, RingOrder, Index, Distance, Capacity, At
  <2>4. /\ p' = [p EXCEPT ![begin_] = Head(todo)] /\ todo' = todo /\ begin_' = begin_
        /\ beginMem' = beginMem /\ end_' = end_ /\ got' = got
    BY <1>3 DEF PushCopy, cvars
  <2>5. Between(p', end_, beginMem) = Between(p, end_, beginMem)
    <3>1. \A i \in 1 .. Distance(beginMem, end_) : p'[At(end_, i)] = p[At(end_, i)]
      BY <1>0, <2>2, <2>4
    <3>2. QED
      BY <3>1 DEF Between, At
  <2>6. Between(p', beginMem, begin_) = Between(p, beginMem, begin_)
    <3>1. \A i \in 1 .. Distance(begin_, beginMem) : p'[At(beginMem, i)] = p[At(beginMem, i)]
      BY <1>0, <2>3, <2>4
    <3>2. QED
      BY <3>1 DEF Between, At
  <2>7. QED
    BY <2>4, <2>5, <2>6 DEF Fifo!vars, Content, Pending
<1>4. CASE PushTest
  BY <1>4, <1>a DEF PushTest, cvars
<1>5. CASE PushAdvance
  <2>1. /\ begin_' = Advanced(begin_) /\ todo' = Tail(todo) /\ p' = p
        /\ beginMem' = beginMem /\ end_' = end_ /\ got' = got
    BY <1>5 DEF PushAdvance, cvars
  <2>2. todo # <<>> /\ p[begin_] \in Values /\ p[begin_] = Head(todo)
    BY <1>5 DEF IInv, RoomLeft, SlotWritten, PushAdvance
  <2>3. Distance(begin_, beginMem) < Size
    <3>1. Len(todo) \in Nat /\ Len(todo) >= 1
      BY <1>0, <2>2
    <3>2. Distance(begin_, endMem) + Len(todo) <= Size
      BY <1>5 DEF IInv, RoomLeft, PushAdvance
    <3>3. /\ Distance(begin_, endMem) \in 0 .. Size /\ Distance(begin_, beginMem) \in 0 .. Size
          /\ Distance(beginMem, end_) \in 0 .. Size /\ Distance(end_, endMem) \in 0 .. Size
      BY <1>0, DistanceType
    <3>4. Distance(begin_, endMem) = Distance(begin_, beginMem)
              + Distance(beginMem, end_) + Distance(end_, endMem)
      BY DEF IInv, RingOrder
    <3>5. QED
      BY <3>1, <3>2, <3>3, <3>4
  <2>4. \A i \in 1 .. Distance(begin_, beginMem) : p[At(beginMem, i)] \in Values
    BY LiveValues
  <2>5. Between(p, beginMem, begin_') = Append(Between(p, beginMem, begin_), Head(todo))
    BY <1>0, <2>1, <2>2, <2>3, <2>4, BetweenGrows
  <2>6. Between(p, beginMem, begin_) \in Seq(Values)
    BY FifoTypes
  <2>7. Append(Between(p, beginMem, begin_), Head(todo)) \o Tail(todo)
            = Between(p, beginMem, begin_) \o todo
    BY <1>0, <2>2, <2>6, MoveHead
  <2>8. Pending' = Pending /\ Content' = Content
    BY <2>1, <2>5, <2>7 DEF Pending, Content
  <2>9. QED
    BY <2>1, <2>8 DEF Fifo!vars
<1>6. CASE PushRecheck
  BY <1>6, <1>a DEF PushRecheck, cvars
<1>7. ASSUME NEW o \in ConsumerOps, PopCheck(o) PROVE UNCHANGED Fifo!vars
  BY <1>7, <1>a DEF PopCheck, pvars
<1>8. CASE PopCopy
  <2>1. CASE op = "front"
    <3>1. /\ beginMem # end_ /\ got' = p[end_] /\ todo' = todo /\ begin_' = begin_
          /\ p' = p /\ beginMem' = beginMem /\ end_' = end_
      BY <1>8, <2>1 DEF PopCopy, IInv, SomethingToTake, pvars
    <3>2. Content # <<>> /\ Head(Content) = p[end_]
      BY <1>0, <3>1, LiveValues, BetweenShrinks DEF Content
    <3>3. Content' = Content /\ Pending' = Pending
      BY <3>1 DEF Content, Pending
    <3>4. Fifo!Peek
      BY <3>1, <3>2, <3>3 DEF Fifo!Peek
    <3>5. QED
      BY <3>4 DEF Fifo!Next
  <2>2. CASE op # "front"
    BY <1>8, <1>a, <2>2 DEF PopCopy, pvars
  <2>3. QED
    BY <2>1, <2>2
<1>9. CASE PopAdvance
  <2>1. /\ end_' = Advanced(end_) /\ beginMem' = beginMem /\ p' = p /\ beginMem # end_
        /\ begin_' = begin_ /\ todo' = todo
        /\ got' = IF op = "pop" THEN p[end_] ELSE got
    BY <1>9 DEF PopAdvance, IInv, SomethingToTake, Copied, pvars
  <2>2. Content # <<>> /\ Head(Content) = p[end_] /\ Content' = Tail(Content)
    BY <1>0, <2>1, LiveValues, BetweenShrinks DEF Content
  <2>3. Pending' = Pending
    BY <2>1 DEF Pending
  <2>4. Fifo!Take \/ Fifo!Drop
    BY <2>1, <2>2, <2>3 DEF Fifo!Take, Fifo!Drop
  <2>5. QED
    BY <2>4 DEF Fifo!Next
<1>10. CASE CommitBegin
  <2>1. /\ beginMem' = Advanced(beginMem) /\ end_' = end_ /\ p' = p /\ got' = got
        /\ begin_' = begin_ /\ todo' = todo /\ beginMem # begin_
    BY <1>10 DEF CommitBegin, cvars, pvars
  <2>2. Distance(beginMem, end_) < Size
    <3>1. /\ Distance(begin_, endMem) \in 0 .. Size /\ Distance(begin_, beginMem) \in 0 .. Size
          /\ Distance(beginMem, end_) \in 0 .. Size /\ Distance(end_, endMem) \in 0 .. Size
      BY <1>0, DistanceType
    <3>2. Distance(begin_, beginMem) # 0
      BY <1>0, <2>1, DistanceType
    <3>3. Distance(begin_, endMem) = Distance(begin_, beginMem)
              + Distance(beginMem, end_) + Distance(end_, endMem)
      BY DEF IInv, RingOrder
    <3>4. QED
      BY <3>1, <3>2, <3>3
  <2> DEFINE s == Between(p, beginMem, begin_)
  <2>3. /\ s # <<>> /\ Head(s) = p[beginMem]
        /\ Between(p, Advanced(beginMem), begin_) = Tail(s)
    BY <1>0, <2>1, LiveValues, BetweenShrinks
  <2>4. Content \in Seq(Values) /\ Len(Content) = Distance(beginMem, end_) /\ s \in Seq(Values)
    BY FifoTypes
  <2>5. Pending = s \o todo /\ Pending' = Tail(s) \o todo
    BY <2>1, <2>3 DEF Pending
  <2> HIDE DEF s
  <2>6. Head(s) \in Values
    BY <2>3, <2>4
  <2>7. Content' = Append(Content, Head(s))
    BY <1>0, <2>1, <2>2, <2>3, <2>6, LiveValues, BetweenGrows DEF Content
  <2>8. Pending # <<>> /\ Head(Pending) = Head(s) /\ Pending' = Tail(Pending)
    BY <1>0, <2>3, <2>4, <2>5, HeadOfConcat
  <2>9. Fifo!Put
    BY <2>1, <2>2, <2>4, <2>7, <2>8 DEF Fifo!Put
  <2>10. QED
    BY <2>9 DEF Fifo!Next
<1>11. CASE CommitEnd
  BY <1>11, <1>a DEF CommitEnd, cvars, pvars
<1>12. CASE UNCHANGED vars
  BY <1>12, <1>a DEF vars, cvars, pvars
<1>13. QED
  BY <1>1, <1>2, <1>3, <1>4, <1>5, <1>6, <1>7, <1>8, <1>9, <1>10, <1>11, <1>12
     DEF Next, Producer, Consumer

\* One producer and one consumer on a LoopQueue see a bounded FIFO, for every
\* size and both memory models (LoopQueue.hpp:52-144).
THEOREM Refinement == Spec => ImplementsFifo
<1>1. Init => Fifo!Init
  BY InitFifo
<1>2. QED
  BY <1>1, InitInv, StepInv, StepFifo, PTL DEF Spec, ImplementsFifo, Fifo!Spec
=============================================================================
