----------------------------- MODULE MeshBatch -----------------------------
(***************************************************************************)
(* The put workload of the N x N mesh (mesh.rs, run_put_workload): workers *)
(* that own one shard each, route every item of their workload to the      *)
(* owner of its key, serve their inboxes, and stop once the mesh is quiet. *)
(*                                                                         *)
(* A queue is used through what Spsc is shown to implement: a bounded FIFO *)
(* whose push and pop take effect at once.  No worker sends a Get in this  *)
(* mode, so the reply matrix stays empty and is left out.                  *)
(***************************************************************************)
EXTENDS Naturals, FiniteSets, Sequences, Functions

CONSTANTS
  N,          \* number of workers
  Keys,
  Route,      \* [Keys -> Workers]: route
  Work,       \* [Workers -> Seq(Items)]: what the workload closure returns
  Cap,        \* capacity of a queue
  None

Workers == 0 .. N - 1

\* A key and a value; the value is the place of the item in the workload it is from.
Items == [key : Keys, from : Workers, pos : Nat]

ASSUME MeshBatchAssumption ==
  /\ N \in Nat \ {0} /\ Cap \in Nat \ {0}
  /\ Route \in [Keys -> Workers]
  /\ Work \in [Workers -> Seq(Items)]
  /\ \A w \in Workers : \A p \in 1 .. Len(Work[w]) :
       Work[w][p].from = w /\ Work[w][p].pos = p
  /\ None \notin Items

VARIABLES
  sent, applied, phase1Done,   \* MeshShared
  cmd,                         \* cmd[src][dst]
  shard,                       \* shard[w]: [Keys -> Items \cup {None}]
  pc, next, src, ret, cur,     \* of a worker: next item, inbox pump is at, what
                               \* follows the pump, item popped and not yet applied
  allDone, sawSent             \* what the quiescence test has loaded

vars == <<sent, applied, phase1Done, cmd, shard, pc, next, src, ret, cur, allDone, sawSent>>
counters == <<sent, applied, phase1Done>>
loads == <<allDone, sawSent>>

AllItems == UNION {Range(Work[w]) : w \in Workers}

Init ==
  /\ sent = 0 /\ applied = 0 /\ phase1Done = 0
  /\ cmd = [s \in Workers |-> [d \in Workers |-> <<>>]]
  /\ shard = [w \in Workers |-> [k \in Keys |-> None]]
  /\ pc = [w \in Workers |-> "put"]
  /\ next = [w \in Workers |-> 1]
  /\ src = [w \in Workers |-> 0]
  /\ ret = [w \in Workers |-> "put"]
  /\ cur = [w \in Workers |-> None]
  /\ allDone = [w \in Workers |-> FALSE]
  /\ sawSent = [w \in Workers |-> 0]

At(w, l) == pc[w] = l
Goto(w, l) == pc' = [pc EXCEPT ![w] = l]
Item(w) == Work[w][next[w]]

\* Mutant: a key that is there keeps its value.
Insert_IfAbsent(w, it) ==
  shard' = IF shard[w][it.key] = None THEN [shard EXCEPT ![w][it.key] = it] ELSE shard
Insert(w, it) == shard' = [shard EXCEPT ![w][it.key] = it]

\* pump starts at the first inbox; r is what follows it.
StartPump(w, r) ==
  /\ Goto(w, "pump")
  /\ src' = [src EXCEPT ![w] = 0]
  /\ ret' = [ret EXCEPT ![w] = r]

\* In the put phase; mutant: the worker does not serve its inboxes while it puts.
Relieve_Not(w, r) == Goto(w, r) /\ UNCHANGED <<src, ret>>
Relieve(w, r) == StartPump(w, r)

-----------------------------------------------------------------------------
(* Phase 1: put, and a pump after every put                                *)

Put(w) ==
  /\ At(w, "put") /\ next[w] <= Len(Work[w])
  /\ sent' = sent + 1
  /\ Goto(w, IF Route[Item(w).key] = w THEN "local" ELSE "route")
  /\ UNCHANGED <<applied, phase1Done, cmd, shard, next, src, ret, cur, loads>>

PutLocal(w) ==
  /\ At(w, "local")
  /\ Insert(w, Item(w))
  /\ applied' = applied + 1
  /\ next' = [next EXCEPT ![w] = @ + 1]
  /\ Relieve(w, "put")
  /\ UNCHANGED <<sent, phase1Done, cmd, cur, loads>>

\* A full queue is not waited for: the worker pumps its own inboxes and retries.
PutRoute(w) ==
  LET d == Route[Item(w).key]
  IN  /\ At(w, "route")
      /\ IF Len(cmd[w][d]) < Cap
         THEN /\ cmd' = [cmd EXCEPT ![w][d] = Append(@, Item(w))]
              /\ next' = [next EXCEPT ![w] = @ + 1]
              /\ Relieve(w, "put")
         ELSE /\ Relieve(w, "route")
              /\ UNCHANGED <<cmd, next>>
      /\ UNCHANGED <<counters, shard, cur, loads>>

-----------------------------------------------------------------------------
(* pump: every inbox in turn, until it is empty                            *)

PumpPop(w) ==
  LET q == cmd[src[w]][w]
  IN  /\ At(w, "pump") /\ q # <<>>
      /\ cur' = [cur EXCEPT ![w] = Head(q)]
      /\ cmd' = [cmd EXCEPT ![src[w]][w] = Tail(q)]
      /\ Goto(w, "apply")
      /\ UNCHANGED <<counters, shard, next, src, ret, loads>>

PumpApply(w) ==
  /\ At(w, "apply")
  /\ Insert(w, cur[w])
  /\ applied' = applied + 1
  /\ cur' = [cur EXCEPT ![w] = None]
  /\ Goto(w, "pump")
  /\ UNCHANGED <<sent, phase1Done, cmd, next, src, ret, loads>>

PumpEmpty(w) ==
  /\ At(w, "pump") /\ cmd[src[w]][w] = <<>>
  /\ IF src[w] < N - 1
     THEN /\ src' = [src EXCEPT ![w] = @ + 1]
          /\ UNCHANGED <<pc, ret>>
     ELSE /\ src' = [src EXCEPT ![w] = 0]
          /\ Goto(w, ret[w])
          /\ ret' = [ret EXCEPT ![w] = "put"]
  /\ UNCHANGED <<counters, cmd, shard, next, cur, loads>>

-----------------------------------------------------------------------------
(* Phase 2: quiescence                                                     *)

Announce(w) ==
  /\ At(w, "put") /\ next[w] > Len(Work[w])
  /\ phase1Done' = phase1Done + 1
  /\ StartPump(w, "loadDone")
  /\ UNCHANGED <<sent, applied, cmd, shard, next, cur, loads>>

\* Mutant: only the counters are compared.
AllAnnounced_Assumed == TRUE
AllAnnounced == phase1Done = N

LoadDone(w) ==
  /\ At(w, "loadDone")
  /\ allDone' = [allDone EXCEPT ![w] = AllAnnounced]
  /\ Goto(w, "loadSent")
  /\ UNCHANGED <<counters, cmd, shard, next, src, ret, cur, sawSent>>

LoadSent(w) ==
  /\ At(w, "loadSent")
  /\ sawSent' = [sawSent EXCEPT ![w] = sent]
  /\ Goto(w, "loadApplied")
  /\ UNCHANGED <<counters, cmd, shard, next, src, ret, cur, allDone>>

\* One last pump when the mesh is quiet, another round when it is not.
LoadApplied(w) ==
  /\ At(w, "loadApplied")
  /\ StartPump(w, IF allDone[w] /\ sawSent[w] = applied THEN "exit" ELSE "loadDone")
  /\ allDone' = [allDone EXCEPT ![w] = FALSE]
  /\ sawSent' = [sawSent EXCEPT ![w] = 0]
  /\ UNCHANGED <<counters, cmd, shard, next, cur>>

Step(w) ==
  \/ Put(w) \/ PutLocal(w) \/ PutRoute(w)
  \/ PumpPop(w) \/ PumpApply(w) \/ PumpEmpty(w)
  \/ Announce(w) \/ LoadDone(w) \/ LoadSent(w) \/ LoadApplied(w)

\* Mesh::shutdown joins the workers and returns applied.
Shutdown ==
  /\ \A w \in Workers : At(w, "exit")
  /\ UNCHANGED vars

Next == Shutdown \/ \E w \in Workers : Step(w)

Spec == Init /\ [][Next]_vars

\* Each worker is a thread that keeps running.
FairSpec == Spec /\ \A w \in Workers : WF_vars(Step(w))

-----------------------------------------------------------------------------
(* Properties                                                              *)

\* A worker that has left finds no more work: no command waits in its inboxes and no
\* peer is still putting ("no peer can route to us anymore, so no put can be stuck
\* on us").
SafeToStop ==
  \A w \in Workers : At(w, "exit") =>
    \A p \in Workers : /\ cmd[p][w] = <<>>
                       /\ ~(At(p, "route") /\ Route[Item(p).key] = w)
                       /\ next[p] > Len(Work[p])

LastOf(w, k) == {it \in Range(Work[w]) : it.key = k
                   /\ \A other \in Range(Work[w]) : other.key = k => other.pos <= it.pos}

\* The count that shutdown returns, and what the shards hold then: every item applied
\* once, and for every key, in the shard of its owner only, the last item that some
\* worker has for it.
ShutdownResult ==
  (\A w \in Workers : At(w, "exit")) =>
    /\ applied = Cardinality(AllItems) /\ sent = Cardinality(AllItems)
    /\ \A w \in Workers, k \in Keys :
         LET lasts == UNION {LastOf(p, k) : p \in Workers}
         IN  IF w # Route[k] \/ lasts = {} THEN shard[w][k] = None
                                           ELSE shard[w][k] \in lasts

\* Every worker leaves, whatever queues fill up ("the mesh cannot deadlock under
\* backpressure").
Quiesces == <>(\A w \in Workers : At(w, "exit"))
=============================================================================
