------------------------------ MODULE AtomicKV ------------------------------
(***************************************************************************)
(* What a key-value service promises: every call of a client takes effect  *)
(* on one map at one instant between its start and its return.             *)
(***************************************************************************)
CONSTANTS Clients, Keys, Vals, None

Ops == [kind : {"put"}, key : Keys, val : Vals] \cup [kind : {"get"}, key : Keys]

VARIABLES
  store,   \* [Keys -> Vals \cup {None}]
  call,    \* call[c]: the operation of c that is under way, or None
  status,  \* status[c]: "idle", "called" or "served"
  got      \* got[c]: the result of the operation of c that took effect, until it returns

kvars == <<store, call, status, got>>

Init ==
  /\ store = [k \in Keys |-> None]
  /\ call = [c \in Clients |-> None]
  /\ status = [c \in Clients |-> "idle"]
  /\ got = [c \in Clients |-> None]

Invoke(c, op) ==
  /\ status[c] = "idle"
  /\ call' = [call EXCEPT ![c] = op]
  /\ status' = [status EXCEPT ![c] = "called"]
  /\ UNCHANGED <<store, got>>

Serve(c) ==
  /\ status[c] = "called"
  /\ status' = [status EXCEPT ![c] = "served"]
  /\ \/ /\ call[c].kind = "put"
        /\ store' = [store EXCEPT ![call[c].key] = call[c].val]
        /\ UNCHANGED got
     \/ /\ call[c].kind = "get"
        /\ got' = [got EXCEPT ![c] = store[call[c].key]]
        /\ UNCHANGED store
  /\ UNCHANGED call

Return(c) ==
  /\ status[c] = "served"
  /\ status' = [status EXCEPT ![c] = "idle"]
  /\ call' = [call EXCEPT ![c] = None]
  /\ got' = [got EXCEPT ![c] = None]
  /\ UNCHANGED store

Next == \E c \in Clients : Serve(c) \/ Return(c) \/ \E op \in Ops : Invoke(c, op)

Spec == Init /\ [][Next]_kvars
=============================================================================
