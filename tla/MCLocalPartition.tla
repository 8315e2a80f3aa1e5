-------------------------- MODULE MCLocalPartition --------------------------
(* Instances of LocalPartition for TLC.                                     *)
EXTENDS LocalPartition, TLC

CONSTANTS p1, p2, A, B, C, x1, x2, x3

One == {p1}
Two == {p1, p2}
Three == {x1, x2, x3}
Symmetry == Permutations({x1, x2, x3})
ProcSymmetry == Permutations({x1, x2, x3}) \union Permutations({p1, p2})
=============================================================================
