----------------------------- MODULE MCSkipList -----------------------------
(***************************************************************************)
(* SkipList for TLC: the calls each thread makes and the heights of nodes. *)
(***************************************************************************)
EXTENDS SkipList, TLC

\* Every thread makes every call on every key, and every height may be drawn.
AllCalls == [t \in Threads |-> Calls]
AllHeights == [k \in Keys |-> Levels]

\* Keys 1 and 3 have one writer each, key 1 nodes of height 1 and key 3 nodes of every
\* height.  Key 2 has nodes of height 0 only, and both threads write it.  A thread reads
\* what another writes.
CONSTANTS W1, W3
OneTallWriter ==
  LET writers == 1 :> {W1} @@ 2 :> Threads @@ 3 :> {W3}
  IN  [t \in Threads |-> {c \in Calls :
                     IF c.kind = "get" THEN writers[c.key] # {t} ELSE t \in writers[c.key]}]
FlatMiddle == 1 :> {1} @@ 2 :> {0} @@ 3 :> Levels

\* Blocks of memory are interchangeable.
Symmetry == Permutations(Nodes)
=============================================================================
