------------------------------- MODULE Lines -------------------------------
(***************************************************************************)
(* The Go channels and loops of the components form lines: sequences of    *)
(* positions in a log, handed on in order.                                 *)
(***************************************************************************)
EXTENDS Naturals, Sequences

Increasing(s) == \A i, j \in DOMAIN s : i < j => s[i] < s[j]

\* Every number in s is less than k.
Behind(s, k) == \A i \in DOMAIN s : s[i] < k

\* k is one of the numbers in s.
Holds(s, k) == \E i \in DOMAIN s : s[i] = k
=============================================================================
