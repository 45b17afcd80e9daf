--------------------------- MODULE MCMeshService ---------------------------
(***************************************************************************)
(* MeshService for TLC: two workers, the second owns the key.              *)
(***************************************************************************)
EXTENDS MeshService, TLC

CONSTANTS c1, c2

\* The first round-robin request, which worker 0 accepts, is forwarded.
OneKey == "a" :> 1
CallsOf == c1 :> 2 @@ c2 :> 1
OneCall == [c \in Clients |-> 1]
=============================================================================
