------------------------------ MODULE MCStaging ------------------------------
(* Instance of Staging for TLC: an empty key and a key of one byte, one buffer. *)
EXTENDS Staging, TLC

MCKeys == {<<>>, <<1>>}
MCOwnVals == {<<3>>}
MCFile == <<1, 2>>

\* Threads are interchangeable.
Symmetry == Permutations(Threads)
=============================================================================
