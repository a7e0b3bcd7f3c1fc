------------------------------- MODULE Sorting -------------------------------
(***************************************************************************)
(* What is sorted by a number of its own.                                  *)
(***************************************************************************)
EXTENDS Naturals, FiniteSets

\* The members of S by their keys, which no two of them share: the k-th has k keys up to its own.
SortedBy(S, key) ==
    [k \in 1 .. Cardinality(S) |-> CHOOSE x \in S : Cardinality({y \in S : key[y] <= key[x]}) = k]

=============================================================================
