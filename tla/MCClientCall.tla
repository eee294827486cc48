---------------------------- MODULE MCClientCall ----------------------------
(* ClientCall for TLC: the calling threads are interchangeable. *)
EXTENDS ClientCall, TLC

Symmetry == Permutations(Callers)
=============================================================================
