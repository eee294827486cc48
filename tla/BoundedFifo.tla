---------------------------- MODULE BoundedFifo ----------------------------
(***************************************************************************)
(* What LoopQueue promises to the two threads that share it: a FIFO of at  *)
(* most Size values.  `pending' holds what the calls of push_back have     *)
(* accepted and the consumer cannot see yet, `queue' what it can see and   *)
(* has not popped; `got' is the value the consumer was handed last.        *)
(***************************************************************************)
EXTENDS Naturals, Sequences

CONSTANTS Size,     \* the number of elements the queue can hold
          Values,   \* what is queued (in the program: ReqMessage pointers)
          None      \* not a value

VARIABLES pending, queue, got

vars == <<pending, queue, got>>

Init == pending = <<>> /\ queue = <<>> /\ got = None

\* push_back accepts one element or several
Accept == /\ pending' \in Seq(Values)
          /\ Len(pending) < Len(pending') /\ SubSeq(pending', 1, Len(pending)) = pending
          /\ UNCHANGED <<queue, got>>

\* the oldest of them becomes visible to the consumer
Put == /\ pending # <<>> /\ Len(queue) < Size
       /\ queue' = Append(queue, Head(pending))
       /\ pending' = Tail(pending)
       /\ UNCHANGED got

\* pop_front(t)
Take == /\ queue # <<>>
        /\ got' = Head(queue)
        /\ queue' = Tail(queue)
        /\ UNCHANGED pending

\* pop_front()
Drop == /\ queue # <<>>
        /\ queue' = Tail(queue)
        /\ UNCHANGED <<pending, got>>

\* get_front(t)
Peek == /\ queue # <<>>
        /\ got' = Head(queue)
        /\ UNCHANGED <<pending, queue>>

Next == Accept \/ Put \/ Take \/ Drop \/ Peek

Spec == Init /\ [][Next]_vars
=============================================================================
