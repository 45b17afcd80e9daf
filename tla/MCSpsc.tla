------------------------------- MODULE MCSpsc -------------------------------
(* Instances of Spsc for TLC.                                              *)
EXTENDS Spsc, TLC

Symmetry == Permutations(Vals)
=============================================================================
