------------------------------ MODULE Enumeration ------------------------------
(***************************************************************************)
(* Finite sets of numbers in ascending order, and the part of a sequence   *)
(* at some of its positions.  Both are given by rank and not by recursion, *)
(* so that a proof can use them.                                           *)
(***************************************************************************)
EXTENDS Naturals, Sequences, FiniteSets

Elements(s) == {s[k] : k \in DOMAIN s}

Rank(S, k) == Cardinality({m \in S : m <= k})

Ascending(S) == [j \in 1..Cardinality(S) |-> CHOOSE k \in S : Rank(S, k) = j]

\* The elements of s at the positions in K, in their order.
Subsequence(s, K) == [j \in DOMAIN Ascending(K) |-> s[Ascending(K)[j]]]
=============================================================================
