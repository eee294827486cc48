---------------------------- MODULE MCNetServer -----------------------------
(* NetServer for TLC: the clients are interchangeable. *)
EXTENDS NetServer, TLC

Symmetry == Permutations(Clients)
=============================================================================
