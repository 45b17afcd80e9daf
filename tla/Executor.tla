------------------------------ MODULE Executor ------------------------------
(***************************************************************************)
(* The two ways of executor.rs to drive a future: the multi-task Executor  *)
(* (ready queue with mutex and condition variable, tasks whose waker       *)
(* pushes them back, the thread inside run) and block_on (a hand-made      *)
(* waker over a counted ThreadSignal, park and unpark).  What a future     *)
(* does when it is polled is left to the modules that use this one, but    *)
(* for DirectIoRead.  What happens with the ready lock held is one step.   *)
(***************************************************************************)
EXTENDS Integers, FiniteSets, SequencesExt

CONSTANTS
  Tasks,      \* spawned on the Executor
  Callers,    \* threads, each in one block_on
  Reads,      \* the tasks and callers that await a DirectIoRead
  None

ASSUME ExecutorAssumption ==
  /\ IsFiniteSet(Tasks) /\ IsFiniteSet(Callers) /\ Tasks \cap Callers = {}
  /\ Reads \subseteq Tasks \cup Callers /\ None \notin Tasks

VARIABLES
  ready, outstanding,       \* SharedQueue
  spawnPc,                  \* of a task: "new", "push" (inside spawn), "spawned"
  future,                   \* Task::future is Some
  rpc, task,                \* where run is, and the task it polls
  signalled,                \* the sleeping runner was notified
  bpos,                     \* of a caller: where block_on is
  awake, refs,              \* ThreadSignal: awake, and the count of its Arc
  token,                    \* the callers with an unpark that no park has used
  submitted                 \* DirectIoRead::submitted

runVars == <<ready, outstanding, spawnPc, future, rpc, task, signalled>>
blockVars == <<bpos, awake, refs, token>>
execVars == <<runVars, blockVars, submitted>>

Waiters == Tasks \cup Callers

ExecTypeOK ==
  /\ ready \in Seq(Tasks)
  /\ outstanding \in 0 .. Cardinality(Tasks)
  /\ spawnPc \in [Tasks -> {"new", "push", "spawned"}]
  /\ future \subseteq Tasks
  /\ rpc \in {"idle", "take", "sleep", "poll"}
  /\ task \in Tasks \cup {None}
  /\ signalled \in BOOLEAN
  /\ bpos \in [Callers -> {"new", "swap", "poll", "park", "end"}]
  /\ awake \subseteq Callers /\ token \subseteq Callers
  /\ refs \in [Callers -> Nat]
  /\ submitted \subseteq Reads

ExecInit ==
  /\ ready = <<>> /\ outstanding = 0
  /\ spawnPc = [t \in Tasks |-> "new"]
  /\ future = {}
  /\ rpc = "idle" /\ task = None /\ signalled = FALSE
  /\ bpos = [c \in Callers |-> "new"]
  /\ awake = {} /\ token = {} /\ submitted = {}
  /\ refs = [c \in Callers |-> 0]

-----------------------------------------------------------------------------
(* Executor: spawn and run                                                 *)

SpawnCount(t) ==
  /\ spawnPc[t] = "new"
  /\ spawnPc' = [spawnPc EXCEPT ![t] = "push"]
  /\ future' = future \cup {t}
  /\ outstanding' = outstanding + 1
  /\ UNCHANGED <<ready, rpc, task, signalled, blockVars, submitted>>

SpawnPush(t) ==
  /\ spawnPc[t] = "push"
  /\ spawnPc' = [spawnPc EXCEPT ![t] = "spawned"]
  /\ ready' = Append(ready, t)
  /\ UNCHANGED <<outstanding, future, rpc, task, signalled, blockVars, submitted>>

Run ==
  /\ rpc = "idle"
  /\ rpc' = "take"
  /\ UNCHANGED <<ready, outstanding, spawnPc, future, task, signalled, blockVars, submitted>>

\* The end of run; mutant: an empty queue is enough.
AllFinished_QueueEmpty == TRUE
AllFinished == outstanding = 0

\* With the lock held: the first ready task, or the end, or a sleep.
Take ==
  /\ rpc = "take"
  /\ \/ /\ ready # <<>>
        /\ task' = Head(ready) /\ ready' = Tail(ready)
        /\ rpc' = "poll"
     \/ /\ ready = <<>>
        /\ rpc' = IF AllFinished THEN "idle" ELSE "sleep"
        /\ UNCHANGED <<task, ready>>
  /\ signalled' = FALSE
  /\ UNCHANGED <<outstanding, spawnPc, future, blockVars, submitted>>

\* Condvar::wait returns after a notification, and may return without one.
WakeUp ==
  /\ rpc = "sleep" /\ signalled
  /\ rpc' = "take" /\ signalled' = FALSE
  /\ UNCHANGED <<ready, outstanding, spawnPc, future, task, blockVars, submitted>>

SpuriousWakeUp ==
  /\ rpc = "sleep" /\ ~signalled
  /\ rpc' = "take"
  /\ UNCHANGED <<ready, outstanding, spawnPc, future, task, signalled, blockVars, submitted>>

\* The task is already finished.
PollFinished ==
  /\ rpc = "poll" /\ task \notin future
  /\ rpc' = "take" /\ task' = None
  /\ UNCHANGED <<ready, outstanding, spawnPc, future, signalled, blockVars, submitted>>

-----------------------------------------------------------------------------
(* block_on                                                                *)

\* The ThreadSignal is made, with awake set; block_on and its waker each own it.
BlockOn(c) ==
  /\ bpos[c] = "new"
  /\ bpos' = [bpos EXCEPT ![c] = "swap"]
  /\ awake' = awake \cup {c}
  /\ refs' = [refs EXCEPT ![c] = 2]
  /\ UNCHANGED <<runVars, token, submitted>>

SwapAwake(c) ==
  /\ bpos[c] = "swap"
  /\ bpos' = [bpos EXCEPT ![c] = IF c \in awake THEN "poll" ELSE "park"]
  /\ awake' = awake \ {c}
  /\ UNCHANGED <<runVars, refs, token, submitted>>

\* park returns when there is a token, which it uses up, and may return without one.
Park(c) ==
  /\ bpos[c] = "park" /\ c \in token
  /\ bpos' = [bpos EXCEPT ![c] = "swap"]
  /\ token' = token \ {c}
  /\ UNCHANGED <<runVars, awake, refs, submitted>>

SpuriousUnpark(c) ==
  /\ bpos[c] = "park" /\ c \notin token
  /\ bpos' = [bpos EXCEPT ![c] = "swap"]
  /\ UNCHANGED <<runVars, awake, refs, token, submitted>>

-----------------------------------------------------------------------------
(* The future of a waiter is polled, and what comes of it                  *)

Polling(w) == (rpc = "poll" /\ task = w /\ w \in future) \/ (w \in Callers /\ bpos[w] = "poll")

\* Poll::Pending: back to the loop of run or of block_on.
IsPending(w) ==
  /\ IF w \in Tasks
     THEN rpc' = "take" /\ task' = None /\ UNCHANGED bpos
     ELSE bpos' = [bpos EXCEPT ![w] = "swap"] /\ UNCHANGED <<rpc, task>>
  /\ UNCHANGED <<outstanding, spawnPc, future, signalled, refs>>

\* fetch_sub on outstanding; mutant: a finished task still counts.
CountedOff_Not == outstanding
CountedOff == outstanding - 1

\* Poll::Ready: the task is counted off, or block_on returns and drops its two handles
\* and what clones its future still has.
IsReady(w, clones) ==
  /\ IF w \in Tasks
     THEN /\ rpc' = "take" /\ task' = None
          /\ future' = future \ {w} /\ outstanding' = CountedOff
          /\ UNCHANGED <<bpos, refs>>
     ELSE /\ bpos' = [bpos EXCEPT ![w] = "end"]
          /\ refs' = [refs EXCEPT ![w] = @ - 2 - clones]
          /\ UNCHANGED <<rpc, task, future, outstanding>>
  /\ UNCHANGED <<ready, spawnPc, signalled, awake, token, submitted>>

\* DirectIoRead::poll: the first time it is pending and wakes itself by reference
\* (the runner is awake, its notify_one finds no sleeper), then it is ready.
PollRead(w) ==
  /\ Polling(w) /\ w \in Reads
  /\ \/ /\ w \in submitted
        /\ IsReady(w, 0)
     \/ /\ w \notin submitted
        /\ submitted' = submitted \cup {w}
        /\ ready' = IF w \in Tasks THEN Append(ready, w) ELSE ready
        /\ awake' = awake \cup ({w} \cap Callers)
        /\ token' = token \cup ({w} \cap Callers)
        /\ IsPending(w)

-----------------------------------------------------------------------------
(* Wakers                                                                  *)

\* clone, in place of a waker that may already be there; mutant: rw_clone gives away
\* the reference of the original.
Clones_NotCounted(w, replaced) == IF replaced THEN -1 ELSE 0
Clones(w, replaced) == IF replaced THEN 0 ELSE 1

CloneWaker(w, replaced) ==
  /\ refs' = IF w \in Callers THEN [refs EXCEPT ![w] = @ + Clones(w, replaced)] ELSE refs
  /\ UNCHANGED <<runVars, bpos, awake, token, submitted>>

\* The clones of these waiters are dropped unused.
DropWakers(ws) ==
  /\ refs' = [c \in Callers |-> IF c \in ws THEN refs[c] - 1 ELSE refs[c]]
  /\ UNCHANGED <<runVars, bpos, awake, token, submitted>>

\* wake, first step: a task is pushed back, a ThreadSignal is set awake.
WakeStore(w) ==
  /\ ready' = IF w \in Tasks THEN Append(ready, w) ELSE ready
  /\ awake' = awake \cup ({w} \cap Callers)
  /\ UNCHANGED <<outstanding, spawnPc, future, rpc, task, signalled, bpos, refs, token, submitted>>

\* Second step: notify_one, nothing unless the runner sleeps; or unpark, after which
\* the reference that wake consumes is dropped.
WakeNotify(w) ==
  /\ signalled' = (signalled \/ (w \in Tasks /\ rpc = "sleep"))
  /\ token' = token \cup ({w} \cap Callers)
  /\ refs' = IF w \in Callers THEN [refs EXCEPT ![w] = @ - 1] ELSE refs
  /\ UNCHANGED <<ready, outstanding, spawnPc, future, rpc, task, bpos, awake, submitted>>
=============================================================================
