------------------------------ MODULE Products ------------------------------
(***************************************************************************)
(* Products of weights: what adding logarithms is, for the numbers they    *)
(* are logarithms of.                                                      *)
(***************************************************************************)
EXTENDS Integers, Functions

ProductOf(factors) == FoldFunction(LAMBDA a, b : a * b, 1, factors)

Power(base, n) == ProductOf([i \in 1..n |-> base])
=============================================================================
