----------------------------- MODULE SharedDeque ----------------------------
(***************************************************************************)
(* What ThreadDeque promises to the threads that share it: every call acts *)
(* on the deque at one instant.  A producer's elements are added in one    *)
(* piece.  A consumer is handed the first element, or all of them, or      *)
(* nothing; nothing may be the answer at any time, because a wait that     *)
(* ends is answered without a second look at the deque.                    *)
(***************************************************************************)
EXTENDS SequencesExt

CONSTANTS Threads, Elements

VARIABLES deque,  \* the elements, front first
          offer,  \* what each thread is about to push
          hand    \* what the last call of each thread has handed to it

vars == <<deque, offer, hand>>

Init == /\ deque = <<>>
        /\ offer = [t \in Threads |-> <<>>] /\ hand = [t \in Threads |-> <<>>]

Offer(t) == /\ offer[t] = <<>>
            /\ offer' = [offer EXCEPT ![t] = offer'[t]] /\ offer'[t] \in Seq(Elements)
            /\ UNCHANGED <<deque, hand>>

\* elements pushed to the front one by one end up in reverse order
Push(t) == /\ deque' \in {deque \o offer[t], Reverse(offer[t]) \o deque}
           /\ offer' = [offer EXCEPT ![t] = <<>>]
           /\ UNCHANGED hand

Handed(t, s) == hand' = [hand EXCEPT ![t] = s] /\ UNCHANGED offer

PopFront(t) == deque # <<>> /\ Handed(t, <<Head(deque)>>) /\ deque' = Tail(deque)
TakeAll(t)  == Handed(t, deque) /\ deque' = <<>>
Nothing(t)  == Handed(t, <<>>) /\ UNCHANGED deque

Clear == deque' = <<>> /\ UNCHANGED <<offer, hand>>

Next == \/ \E t \in Threads : \/ Offer(t) \/ Push(t)
                              \/ PopFront(t) \/ TakeAll(t) \/ Nothing(t)
        \/ Clear

Spec == Init /\ [][Next]_vars
=============================================================================
