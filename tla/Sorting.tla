------------------------------- MODULE Sorting -------------------------------
(***************************************************************************)
(* What sorted returns: the members of a set as a list, by their ranks,    *)
(* which are pairs of numbers.                                             *)
(***************************************************************************)
EXTENDS Integers, FiniteSets

Precedes(p, q) == p[1] < q[1] \/ (p[1] = q[1] /\ p[2] < q[2])

(* At each place is the member that as many others precede.                *)
InOrder(S, rank) ==
  [i \in 1..Cardinality(S) |->
     CHOOSE x \in S : Cardinality({y \in S : Precedes(rank[y], rank[x])}) = i - 1]
=============================================================================
