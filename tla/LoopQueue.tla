----------------------------- MODULE LoopQueue -----------------------------
(***************************************************************************)
(* The lock-free ring of LoopQueue.hpp between one producer thread (which  *)
(* writes begin_) and one consumer thread (which writes end_).  An action  *)
(* is one access to shared memory together with the thread-local work up   *)
(* to the next access.                                                     *)
(*                                                                         *)
(* begin_ and end_ are plain uint32_t, so the build leaves their order to  *)
(* the processor.  begin_/end_ below are the indices as their owner sees   *)
(* them; beginMem/endMem are the indices in memory, which the other thread *)
(* reads.  A store waits in its processor's store buffer (x86-TSO) and     *)
(* drains in order (CommitBegin, CommitEnd), at once or after any delay.   *)
(***************************************************************************)
EXTENDS Integers, Sequences

CONSTANTS Size,          \* the constructor's argument (1000 and 100 in the program)
          Values,        \* the elements (pointers) that are queued
          None,          \* the content of a slot malloc returned and nobody wrote
          MaxBulk        \* longest vector given to the bulk push_back

ASSUME SizeAssumption == Size \in Nat \ {0}
ASSUME BulkAssumption == MaxBulk \in Nat
ASSUME NoneAssumption == None \notin Values

VARIABLES p,                  \* the slots
          begin_, beginMem,   \* producer's index: own view, in memory
          end_, endMem,       \* consumer's index: own view, in memory
          ppc, todo, single, empty,   \* the producer's call in progress
          cpc, op, t,                 \* the consumer's call in progress
          got                 \* what the consumer was handed last

pvars == <<ppc, todo, single, empty>>
cvars == <<cpc, op, t, got>>
vars  == <<p, begin_, beginMem, end_, endMem, pvars, cvars>>

Capacity == Size + 1
Index    == 0 .. Size
Vectors  == UNION {[1 .. n -> Values] : n \in 0 .. MaxBulk}
ConsumerOps == {"pop", "drop", "front"}

TypeOK == /\ p \in [Index -> Values \cup {None}]
          /\ begin_ \in Index /\ beginMem \in Index
          /\ end_ \in Index /\ endMem \in Index
          /\ ppc \in {"idle", "copy", "test", "advance", "recheck"}
          /\ todo \in Seq(Values)
          /\ single \in BOOLEAN /\ empty \in BOOLEAN
          /\ cpc \in {"idle", "copy", "advance"}
          /\ op \in ConsumerOps
          /\ t \in Values \cup {None} /\ got \in Values \cup {None}

-----------------------------------------------------------------------------
(* The index arithmetic of the class. *)

\* mutant: the index is not wrapped
AdvancedPastEnd(i) == i + 1

\* ++index, or 0 after the last slot
Advanced(i) == IF i = Size THEN 0 ELSE i + 1

\* size(): the number of elements between two indices
Distance(b, e) == IF b < e THEN b + Capacity - e ELSE b - e

\* mutant: the last slot is used too
FullOneLate(b, e) == \/ e > b /\ e - b < 1
                     \/ b > e /\ b - e > Capacity - 1

\* push_back(t, empty) refuses ...
Full(b, e) == \/ e > b /\ e - b < 2
              \/ b > e /\ b - e > Capacity - 2

\* ... and so does push_back(vector) of n elements
NoRoomFor(n, b, e) == \/ n > Capacity - 1
                      \/ e > b /\ e - b < n + 1
                      \/ b > e /\ b - e > Capacity - n - 1

-----------------------------------------------------------------------------
Init == /\ p = [i \in Index |-> None]
        /\ begin_ = 0 /\ beginMem = 0 /\ end_ = 0 /\ endMem = 0
        /\ ppc = "idle" /\ todo = <<>> /\ single = TRUE /\ empty = FALSE
        /\ cpc = "idle" /\ op = "pop" /\ t = None
        /\ got = None

(* The producer. *)

\* push_back(v, empty), up to the check: end_ is read once
PushCheck(v) ==
    /\ ppc = "idle"
    /\ empty' = FALSE
    /\ IF Full(begin_, endMem)
         THEN UNCHANGED <<ppc, todo, single>>                  \* return false
         ELSE ppc' = "copy" /\ todo' = <<v>> /\ single' = TRUE
    /\ UNCHANGED <<p, begin_, beginMem, end_, endMem, cvars>>

\* push_back(vector), up to the loop
BulkCheck(vs) ==
    /\ ppc = "idle"
    /\ IF NoRoomFor(Len(vs), begin_, endMem) \/ vs = <<>>
         THEN UNCHANGED <<ppc, todo, single>>                  \* nothing to write
         ELSE ppc' = "copy" /\ todo' = vs /\ single' = FALSE
    /\ UNCHANGED <<p, begin_, beginMem, end_, endMem, empty, cvars>>

\* memcpy(p_ + begin_, &t, sizeof(T))
PushCopy ==
    /\ ppc = "copy"
    /\ p' = [p EXCEPT ![begin_] = Head(todo)]
    /\ ppc' = IF single THEN "test" ELSE "advance"
    /\ UNCHANGED <<begin_, beginMem, end_, endMem, todo, single, empty, cvars>>

\* if (end_ == begin_) empty = true
PushTest ==
    /\ ppc = "test"
    /\ empty' = (endMem = begin_)
    /\ ppc' = "advance"
    /\ UNCHANGED <<p, begin_, beginMem, end_, endMem, todo, single, cvars>>

\* the store to begin_
PushAdvance ==
    /\ ppc = "advance"
    /\ begin_' = Advanced(begin_)
    /\ todo' = Tail(todo)
    /\ ppc' = IF single THEN "recheck" ELSE IF todo' = <<>> THEN "idle" ELSE "copy"
    /\ UNCHANGED <<p, beginMem, end_, endMem, single, empty, cvars>>

\* if (!empty && size() == 1) empty = true; return true
PushRecheck ==
    /\ ppc = "recheck"
    /\ empty' = (empty \/ Distance(begin_, endMem) = 1)
    /\ ppc' = "idle"
    /\ UNCHANGED <<p, begin_, beginMem, end_, endMem, todo, single, cvars>>

\* the oldest store to begin_ leaves the producer's store buffer
CommitBegin ==
    /\ beginMem # begin_
    /\ beginMem' = Advanced(beginMem)
    /\ UNCHANGED <<p, begin_, end_, endMem, pvars, cvars>>

(* The consumer. *)

\* the check all three calls begin with: end_ == begin_ returns false
PopCheck(o) ==
    /\ cpc = "idle"
    /\ op' = o
    /\ cpc' = IF end_ = beginMem THEN "idle" ELSE IF o = "drop" THEN "advance" ELSE "copy"
    /\ UNCHANGED <<p, begin_, beginMem, end_, endMem, pvars, t, got>>

\* mutant: end_ is advanced before the memcpy
PopCopyLate ==
    /\ cpc = "copy"
    /\ t' = p[Advanced(end_)]
    /\ IF op = "front" THEN cpc' = "idle" /\ got' = t'
                       ELSE cpc' = "advance" /\ UNCHANGED got
    /\ UNCHANGED <<p, begin_, beginMem, end_, endMem, pvars, op>>

\* memcpy(&t, p_ + end_, sizeof(T)); get_front returns here
PopCopy ==
    /\ cpc = "copy"
    /\ t' = p[end_]
    /\ IF op = "front" THEN cpc' = "idle" /\ got' = t'
                       ELSE cpc' = "advance" /\ UNCHANGED got
    /\ UNCHANGED <<p, begin_, beginMem, end_, endMem, pvars, op>>

\* the store to end_; return true
PopAdvance ==
    /\ cpc = "advance"
    /\ end_' = Advanced(end_)
    /\ got' = IF op = "pop" THEN t ELSE got
    /\ cpc' = "idle"
    /\ UNCHANGED <<p, begin_, beginMem, endMem, pvars, op, t>>

\* the oldest store to end_ leaves the consumer's store buffer
CommitEnd ==
    /\ endMem # end_
    /\ endMem' = Advanced(endMem)
    /\ UNCHANGED <<p, begin_, beginMem, end_, pvars, cvars>>

Producer == \/ \E v \in Values : PushCheck(v)
            \/ \E vs \in Vectors : BulkCheck(vs)
            \/ PushCopy \/ PushTest \/ PushAdvance \/ PushRecheck

Consumer == (\E o \in ConsumerOps : PopCheck(o)) \/ PopCopy \/ PopAdvance

Next == Producer \/ Consumer \/ CommitBegin \/ CommitEnd

Spec == Init /\ [][Next]_vars

-----------------------------------------------------------------------------
(* Properties. *)

\* The producer's memcpy never meets a slot that still holds an element the
\* consumer has not taken, and so never the slot the consumer is copying out
\* of (LoopQueue.hpp:54-60 against 112-115): between its full check and the
\* advance there is room for everything the call is still going to write.
NoOverrun ==
    ppc \in {"copy", "test", "advance"} => Distance(begin_, end_) + Len(todo) <= Size

\* the elements of an array between two indices of the ring
Between(array, e, b) ==
    [i \in 1 .. Distance(b, e) |->
        array[IF e + i - 1 > Size THEN e + i - 1 - Capacity ELSE e + i - 1]]

\* The ring behaves as a bounded FIFO.  A push takes effect when its store to
\* begin_ reaches memory, a pop when the consumer advances end_.  What push_back
\* has accepted is pending until then: in slots the consumer does not know of,
\* or still to be written.
Content == Between(p, end_, beginMem)
Pending == Between(p, beginMem, begin_) \o todo

Fifo == INSTANCE BoundedFifo WITH queue <- Content, pending <- Pending

\* What the two threads see is a FIFO: what push_back was given comes out, and
\* no element is lost, duplicated, reordered, overwritten or read before it was
\* written, whatever the interleaving of push_back, pop_front and get_front.
ImplementsFifo == Fifo!Spec
=============================================================================
