--------------------------- MODULE CommitRuntime ---------------------------
(***************************************************************************)
(* The group-commit WAL with those who await it: tasks of the Executor and *)
(* threads in block_on, each `async { wal.append(..).await }`, beside ones *)
(* that await a DirectIoRead.  The steps of an append and of a             *)
(* CommitFuture are taken by whoever polls it, the two steps of a wake by  *)
(* the batcher.                                                            *)
(***************************************************************************)
EXTENDS Executor, GroupCommit

ASSUME RuntimeAssumption == Records = Waiters \ Reads

vars == <<execVars, walVars>>

\* TypeOK: every variable of the WAL and of the two executors has its type; the
\* counter of the records wraps, outstanding never goes below zero.
TypeOK == ExecTypeOK /\ WalTypeOK

Init == ExecInit /\ WalInit

-----------------------------------------------------------------------------
(* Those who wait                                                          *)

\* A new waiter borrows the WAL, which is therefore not dropped yet.
Spawn(t) == SpawnCount(t) /\ (t \in Records => running) /\ UNCHANGED walVars
Call(c) == BlockOn(c) /\ (c \in Records => running) /\ UNCHANGED walVars

\* One step of the future that is polled.
PollCommit(r) ==
  /\ Polling(r) /\ r \in Records
  /\ \/ (TakeSeq(r) \/ Push(r) \/ IncCount(r) \/ PollNotDone(r)) /\ UNCHANGED execVars
     \/ RegisterWaker(r) /\ CloneWaker(r, r \in waker)
     \/ RecheckPending(r) /\ IsPending(r) /\ UNCHANGED <<ready, awake, token, submitted>>
     \/ (PollReady(r) \/ RecheckReady(r)) /\ IsReady(r, Cardinality(Freed(r)))

PollStep(w) == PollCommit(w) \/ (PollRead(w) /\ UNCHANGED walVars)

Runner ==
  \/ (Take \/ WakeUp \/ PollFinished) /\ UNCHANGED walVars
  \/ \E t \in Tasks : PollStep(t)

Caller(c) ==
  \/ (SwapAwake(c) \/ Park(c)) /\ UNCHANGED walVars
  \/ PollStep(c)

-----------------------------------------------------------------------------
(* The batcher, and the owner of the WAL                                   *)

Batcher ==
  \/ (LoadRunning \/ SwapHead \/ SubCount \/ Write \/ SignalDone \/ SignalTake) /\ UNCHANGED execVars
  \/ SignalStore /\ WakeStore(batch[i])
  \/ SignalNotify /\ WakeNotify(batch[i])
  \/ CheckExit /\ DropWakers(FreedWithBatch)

\* No waiter borrows the WAL any more: each has its future.
Close ==
  /\ Drop
  /\ \A r \in Records :
       pc[r] \in Futures \/ (IF r \in Tasks THEN spawnPc[r] = "new" ELSE bpos[r] = "new")
  /\ UNCHANGED execVars

Next ==
  \/ \E t \in Tasks : Spawn(t) \/ (SpawnPush(t) /\ UNCHANGED walVars)
  \/ \E c \in Callers : Call(c) \/ Caller(c) \/ (SpuriousUnpark(c) /\ UNCHANGED walVars)
  \/ (Run \/ SpuriousWakeUp) /\ UNCHANGED walVars
  \/ Runner
  \/ Batcher
  \/ Close

Spec == Init /\ [][Next]_vars

\* Every thread runs: the batcher, the one inside run, those in block_on, one that is
\* inside spawn.  Nothing makes a client spawn, call or drop, and no sleep ends
\* without a reason.
FairSpec ==
  /\ Spec
  /\ WF_vars(Batcher)
  /\ WF_vars(Runner)
  /\ \A t \in Tasks : WF_vars(SpawnPush(t) /\ UNCHANGED walVars)
  /\ \A c \in Callers : WF_vars(Caller(c))

-----------------------------------------------------------------------------
(* Properties                                                              *)

\* The handles on the ThreadSignal of a caller: those of block_on and its waker, the
\* clone in the Completion, the one the batcher is about to use up.
Handles(c) ==
  (IF bpos[c] \in {"new", "end"} THEN 0 ELSE 2)
  + Cardinality({c} \cap waker)
  + (IF bpc \in {"store", "notify"} /\ batch[i] = c THEN 1 ELSE 0)

\* The reference count that the RawWaker functions keep by hand is exact at every
\* moment: a batcher still in wake when block_on has returned finds the ThreadSignal
\* there, and the last of them frees it, also when the waker was never used.
SignalCounted == \A c \in Callers : refs[c] = Handles(c)

\* run returns only when each spawned task has finished, not when the ready queue is
\* empty while a task waits for the batcher; a finished task is never counted again.
RunCompletesAll ==
  [][rpc = "take" /\ rpc' = "idle" => \A t \in Tasks : spawnPc[t] = "spawned" => t \notin future]_rpc

\* The calls that have not returned: awaits of a commit, and drop of the WAL.
Calls ==
  {r \in Records : pc[r] # "new" /\ IF r \in Tasks THEN r \in future ELSE bpos[r] # "end"}
  \cup (IF ~running /\ bpc # "exit" THEN {None} ELSE {})

\* Whoever awaits a commit gets the answer, and drop of the WAL returns: a signal
\* between the two loads of done, between the look at an empty queue and the sleep, or
\* between the swap of awake and park is not lost; no record stays behind on the
\* stack when the WAL is dropped; the batcher sees running = FALSE and ends.  (That
\* there are calls leads to there being none.)
EveryCallReturns == []<>(Calls = {})

NeverPolled(t) == t \notin submitted /\ (t \in Records => pc[t] = "new")

\* run returns once every task spawned has been taken from the queue; only a task that
\* spawn pushes while run sleeps, which is not notified, may wait for ever.
RunReturns == []<>(rpc = "idle" \/ (rpc = "sleep" /\ \E t \in Range(ready) : NeverPolled(t)))
=============================================================================
