---------------------------- MODULE MCMeshBatch ----------------------------
(***************************************************************************)
(* MeshBatch for TLC: workloads that cross and overflow the queues.        *)
(***************************************************************************)
EXTENDS MeshBatch, TLC

WorkOf(w, keys) == [p \in 1 .. Len(keys) |-> [key |-> keys[p], from |-> w, pos |-> p]]

\* Two workers with three items each for the other, two of them on a key that only
\* they write, and one item on a key of their own that the other writes too.
Route2 == "a" :> 0 @@ "b" :> 1 @@ "c" :> 0 @@ "d" :> 1
Work2 == 0 :> WorkOf(0, <<"d", "b", "a", "d">>) @@ 1 :> WorkOf(1, <<"c", "a", "b", "c">>)
=============================================================================
