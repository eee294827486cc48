----------------------------- MODULE Containers -----------------------------
(***************************************************************************)
(* The operations of std::list and std::multimap that the program uses, on *)
(* sequences.  They are written without recursion so that facts about them *)
(* can be proved.                                                          *)
(***************************************************************************)
EXTENDS Integers, Sequences

\* s with its k-th element erased
Erased(s, k) == [i \in 1 .. Len(s) - 1 |-> IF i < k THEN s[i] ELSE s[i + 1]]

\* s with x inserted as its k-th element
Inserted(s, k, x) == [i \in 1 .. Len(s) + 1 |->
                        IF i < k THEN s[i] ELSE IF i = k THEN x ELSE s[i - 1]]

\* where multimap::insert puts the key `at': behind the keys that are not greater
UpperBound(s, at) ==
    CHOOSE k \in 1 .. Len(s) + 1 :
        /\ \A i \in 1 .. Len(s) : i < k => s[i].at <= at
        /\ \A i \in 1 .. Len(s) : i >= k => s[i].at > at

\* the place of x in s
Position(s, x) == CHOOSE k \in 1 .. Len(s) : s[k] = x

\* the elements of s, and that none occurs twice
Elements(s) == {s[k] : k \in 1 .. Len(s)}
NoDuplicates(s) == \A j, k \in 1 .. Len(s) : s[j] = s[k] => j = k
=============================================================================
