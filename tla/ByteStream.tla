----------------------------- MODULE ByteStream -----------------------------
(***************************************************************************)
(* What a Buffer promises to its user: a stream of bytes.  Bytes come out  *)
(* in the order in which they went in, none is lost, repeated or made up;  *)
(* a push is accepted whole or refused whole, and refused only when the    *)
(* stream would reach its limit.                                           *)
(***************************************************************************)
EXTENDS Naturals, Sequences

CONSTANTS Bytes, Limit

VARIABLES stream,  \* the bytes that were pushed and not yet taken, oldest first
          arg,     \* the bytes that a call has offered and that are not answered yet
          ret      \* the bytes that the last call accepted or delivered

vars == <<stream, arg, ret>>

Init == stream = <<>> /\ arg = <<>> /\ ret = <<>>

Offer == /\ arg = <<>> /\ arg' \in Seq(Bytes)
         /\ UNCHANGED <<stream, ret>>

Accept == /\ Len(stream) + Len(arg) < Limit
          /\ stream' = stream \o arg
          /\ ret' = arg /\ arg' = <<>>

\* a read from the network that finds room for a part only; the rest is still offered
AcceptPart == \E n \in 1 .. Len(arg) : /\ stream' = stream \o SubSeq(arg, 1, n)
                                      /\ ret' = SubSeq(arg, 1, n)
                                      /\ arg' = SubSeq(arg, n + 1, Len(arg))

Refuse == /\ Len(stream) + Len(arg) >= Limit
          /\ ret' = <<>> /\ arg' = <<>>
          /\ UNCHANGED stream

Deliver == /\ \E n \in 0 .. Len(stream) : /\ ret' = SubSeq(stream, 1, n)
                                          /\ stream' = SubSeq(stream, n + 1, Len(stream))
           /\ UNCHANGED arg

\* the user looks at the whole stream and leaves it
Look == ret' = stream /\ UNCHANGED <<stream, arg>>

Clear == stream' = <<>> /\ ret' = <<>> /\ UNCHANGED arg

Next == Offer \/ Accept \/ AcceptPart \/ Refuse \/ Deliver \/ Look \/ Clear

Spec == Init /\ [][Next]_vars
=============================================================================
