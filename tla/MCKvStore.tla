----------------------------- MODULE MCKvStore -----------------------------
(***************************************************************************)
(* KvStore for TLC: three puts, two of them of one key, with frames of one *)
(* and two bytes.                                                          *)
(***************************************************************************)
EXTENDS KvStore

ThreeKeyOf == "p1" :> "a" @@ "p2" :> "a" @@ "p3" :> "b"
ThreeFrameLen == "p1" :> 2 @@ "p2" :> 1 @@ "p3" :> 2
=============================================================================
