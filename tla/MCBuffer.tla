------------------------------ MODULE MCBuffer ------------------------------
(* Buffer for TLC: the chunks that are pushed, up to five bytes of two kinds. *)
EXTENDS Buffer

MCChunks == {<<"a">>, <<"b">>, <<"b", "a">>, <<"a", "b", "b">>, <<"b", "a", "b", "a", "a">>}
=============================================================================
