---------------------------- MODULE GracePeriod ----------------------------
(***************************************************************************)
(* What a reclamation domain promises its clients, independently of how it *)
(* keeps the promise.  Objects (skiplist nodes, value cells) are published *)
(* by a thread that holds a guard, taken out of the structure by one,      *)
(* handed to the domain, and freed; their memory may then be reused.       *)
(*                                                                         *)
(* The threads that hold a guard when an object is taken out are exactly   *)
(* the ones that may still have a pointer to it.  They are its blockers    *)
(* until they drop their guards, and the object is not freed before.       *)
(***************************************************************************)
EXTENDS Naturals

CONSTANTS Threads, Objs

VARIABLES
  pinned,     \* the threads that hold a guard
  obj,        \* life of an object: "free", "linked", "unlinked", "retired"
  blockers    \* threads that may still reach an object that was taken out

gvars == <<pinned, obj, blockers>>

Life == {"free", "linked", "unlinked", "retired"}

TypeOK ==
  /\ pinned \subseteq Threads
  /\ obj \in [Objs -> Life]
  /\ blockers \in [Objs -> SUBSET Threads]

Init ==
  /\ pinned = {}
  /\ obj = [o \in Objs |-> "free"]
  /\ blockers = [o \in Objs |-> {}]

Pin(t) ==
  /\ pinned' = pinned \cup {t}
  /\ UNCHANGED <<obj, blockers>>

Unpin(t) ==
  /\ pinned' = pinned \ {t}
  /\ blockers' = [o \in Objs |-> blockers[o] \ {t}]
  /\ UNCHANGED obj

Publish(o) ==
  /\ pinned # {}
  /\ obj[o] = "free"
  /\ obj' = [obj EXCEPT ![o] = "linked"]
  /\ UNCHANGED <<pinned, blockers>>

Unlink(o) ==
  /\ pinned # {}
  /\ obj[o] = "linked"
  /\ obj' = [obj EXCEPT ![o] = "unlinked"]
  /\ blockers' = [blockers EXCEPT ![o] = pinned]
  /\ UNCHANGED pinned

Retire(o) ==
  /\ obj[o] = "unlinked"
  /\ obj' = [obj EXCEPT ![o] = "retired"]
  /\ UNCHANGED <<pinned, blockers>>

Free(o) ==
  /\ obj[o] = "retired"
  /\ blockers[o] = {}
  /\ obj' = [obj EXCEPT ![o] = "free"]
  /\ UNCHANGED <<pinned, blockers>>

Next ==
  \/ \E t \in Threads : Pin(t) \/ Unpin(t)
  \/ \E o \in Objs : Publish(o) \/ Unlink(o) \/ Retire(o) \/ Free(o)

Spec == Init /\ [][Next]_gvars
=============================================================================
