---------------------------- MODULE WriteOnceMap ----------------------------
(***************************************************************************)
(* What ArenaKv promises: a map in which the first put of a key fixes its  *)
(* value for good.  A put succeeds or fails at one instant of the call,    *)
(* with the bytes it was called with.                                      *)
(***************************************************************************)
CONSTANTS Threads, Keys, Vals, None

VARIABLES
  map,    \* the value of a key, or None
  call,   \* the put a thread is in: [key, val], or None
  res     \* what the last call of a thread returned

mvars == <<map, call, res>>

Init ==
  /\ map = [k \in Keys |-> None]
  /\ call = [t \in Threads |-> None]
  /\ res = [t \in Threads |-> None]

Call(t, k, v) ==
  /\ call[t] = None
  /\ call' = [call EXCEPT ![t] = [key |-> k, val |-> v]]
  /\ res' = [res EXCEPT ![t] = None]
  /\ UNCHANGED map

Put(t) ==
  /\ call[t] # None
  /\ map' = IF map[call[t].key] = None THEN [map EXCEPT ![call[t].key] = call[t].val] ELSE map
  /\ call' = [call EXCEPT ![t] = None]
  /\ res' = [res EXCEPT ![t] = <<"put", TRUE>>]

Fail(t) ==
  /\ call[t] # None
  /\ call' = [call EXCEPT ![t] = None]
  /\ res' = [res EXCEPT ![t] = <<"put", FALSE>>]
  /\ UNCHANGED map

Get(t, k) ==
  /\ call[t] = None
  /\ res' = [res EXCEPT ![t] = <<"get", map[k]>>]
  /\ UNCHANGED <<map, call>>

Next ==
  \E t \in Threads :
    \/ \E k \in Keys, v \in Vals : Call(t, k, v)
    \/ Put(t) \/ Fail(t)
    \/ \E k \in Keys : Get(t, k)

Spec == Init /\ [][Next]_mvars
=============================================================================
