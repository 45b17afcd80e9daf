------------------------------- MODULE MCEbr -------------------------------
(* Instances of Ebr for TLC.                                               *)
EXTENDS Ebr, TLC

Symmetry == Permutations(Threads) \cup Permutations(Objs)
=============================================================================
