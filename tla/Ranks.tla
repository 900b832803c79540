-------------------------------- MODULE Ranks -------------------------------
(* The order of the members of a finite set of numbers: the places of a     *)
(* queue that are still taken.                                               *)
EXTENDS Integers, FiniteSets

\* how many members come before x
Rank(S, x) == Cardinality({y \in S : y < x})

\* the k-th least member
Nth(S, k) == CHOOSE x \in S : Rank(S, x) = k - 1

\* what is left of a sequence when only some of its places are kept
KeepAt(seq, S) == [k \in 1..Cardinality(S) |-> seq[Nth(S, k)]]

=============================================================================
