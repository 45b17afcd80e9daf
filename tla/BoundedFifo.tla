---------------------------- MODULE BoundedFifo ----------------------------
(***************************************************************************)
(* What an SPSC channel promises its two ends: a queue of at most Cap      *)
(* values.  push fails exactly when it is full, pop exactly when it is     *)
(* empty, and values leave in the order in which they came.                *)
(***************************************************************************)
EXTENDS Naturals, Sequences

CONSTANTS Vals, Cap

VARIABLES
  q,         \* the queued values
  pushRes,   \* what the last push returned: "none", "ok" or "full"
  popRes,    \* what the last pop returned: "none", "empty" or a value
  open       \* an end of the channel is left

fvars == <<q, pushRes, popRes, open>>

Init == q = <<>> /\ open = TRUE /\ pushRes = "none" /\ popRes = "none"

Push(v) ==
  /\ Len(q) < Cap
  /\ q' = Append(q, v)
  /\ pushRes' = "ok"
  /\ open = TRUE /\ UNCHANGED <<popRes, open>>

PushFull ==
  /\ Len(q) = Cap
  /\ pushRes' = "full"
  /\ open = TRUE /\ UNCHANGED <<q, popRes, open>>

Pop ==
  /\ q # <<>>
  /\ q' = Tail(q)
  /\ popRes' = Head(q)
  /\ open = TRUE /\ UNCHANGED <<pushRes, open>>

PopEmpty ==
  /\ q = <<>>
  /\ popRes' = "empty"
  /\ open = TRUE /\ UNCHANGED <<q, pushRes, open>>

\* The last end is dropped, and what is still queued with it.
Close ==
  /\ open = TRUE /\ open' = FALSE
  /\ q' = <<>>
  /\ UNCHANGED <<pushRes, popRes>>

Next == (\E v \in Vals : Push(v)) \/ PushFull \/ Pop \/ PopEmpty \/ Close

Spec == Init /\ [][Next]_fvars
=============================================================================
