--------------------------- MODULE RuntimeProofs ---------------------------
(***************************************************************************)
(* The hand-written reference count of block_on's waker is exact, for any  *)
(* number of tasks, callers and records, in every interleaving of polls,   *)
(* wakes, returns and the dropping of wakers that were never used.         *)
(***************************************************************************)
EXTENDS CommitRuntime, FiniteSetTheorems, TLAPS

BlockPos == {"new", "swap", "poll", "park", "end"}

\* The handles that block_on and its own waker hold, the one in the Completion, the one
\* the batcher is using.
Own(c) == IF bpos[c] \in {"new", "end"} THEN 0 ELSE 2
Stored(c) == IF c \in waker THEN 1 ELSE 0
Used(c) == IF WakerLocked(c) THEN 1 ELSE 0

\* A call that has not begun has no handle anywhere.
CountInv ==
  /\ refs \in [Callers -> Int] /\ bpos \in [Callers -> BlockPos]
  /\ future \subseteq Tasks
  /\ \A c \in Callers : refs[c] = Own(c) + Stored(c) + Used(c)
  /\ \A c \in Callers : bpos[c] = "new" => c \notin waker /\ ~WakerLocked(c)

LEMMA CardOne ==
  ASSUME NEW c, NEW S
  PROVE  Cardinality({c} \cap S) = IF c \in S THEN 1 ELSE 0
<1>1. CASE c \in S
  <2>1. {c} \cap S = {c}
    BY <1>1
  <2> QED
    BY <1>1, <2>1, FS_Singleton
<1>2. CASE c \notin S
  <2>1. {c} \cap S = {}
    BY <1>2
  <2> QED
    BY <1>2, <2>1, FS_EmptySet
<1> QED
  BY <1>1, <1>2

LEMMA CountInvImplies == CountInv => SignalCounted
<1> SUFFICES ASSUME CountInv, NEW c \in Callers PROVE refs[c] = Handles(c)
  BY DEF SignalCounted
<1>1. Cardinality({c} \cap waker) = Stored(c)
  BY CardOne DEF Stored
<1>2. refs[c] = Own(c) + Stored(c) + Used(c)
  BY DEF CountInv
<1> QED
  BY <1>1, <1>2 DEF Handles, Own, Used, WakerLocked

LEMMA CountInit == Init => CountInv
BY DEF Init, ExecInit, WalInit, CountInv, BlockPos, Own, Stored, Used, WakerLocked

\* A step that leaves every handle where it is.
LEMMA SameHandles ==
  ASSUME CountInv, UNCHANGED refs, future' \subseteq Tasks, bpos' \in [Callers -> BlockPos],
         \A c \in Callers : bpos'[c] \in {"new", "end"} <=> bpos[c] \in {"new", "end"},
         \A c \in Callers : bpos'[c] = "new" => bpos[c] = "new",
         \A c \in Callers : c \in waker' <=> c \in waker,
         \A c \in Callers : WakerLocked(c)' <=> WakerLocked(c)
  PROVE  CountInv'
<1>1. \A c \in Callers : Own(c)' = Own(c) /\ Stored(c)' = Stored(c) /\ Used(c)' = Used(c)
  BY DEF Own, Stored, Used
<1> QED
  BY <1>1 DEF CountInv

\* The polls of a caller's future are the caller's own.
LEMMA PollingIs ==
  ASSUME CountInv, NEW w, Polling(w)
  PROVE  \/ w \in Tasks /\ w \notin Callers
         \/ w \in Callers /\ w \notin Tasks /\ bpos[w] = "poll"
<1>1. future \subseteq Tasks /\ \A x : ~(x \in Tasks /\ x \in Callers)
  BY ExecutorAssumption DEF CountInv
<1>2. w \in future \/ (w \in Callers /\ bpos[w] = "poll")
  BY Zenon DEF Polling
<1> QED
  BY <1>1, <1>2, Zenon

LEMMA PendingSame ==
  ASSUME CountInv, NEW w, Polling(w), IsPending(w), UNCHANGED <<waker, batcher>>
  PROVE  CountInv'
<1>1. UNCHANGED <<refs, future, bpc, batch, i>> /\ future' \subseteq Tasks
  BY DEF IsPending, batcher, CountInv
<1>2. \A c \in Callers : WakerLocked(c)' <=> WakerLocked(c)
  BY <1>1 DEF WakerLocked
<1>3. /\ bpos' \in [Callers -> BlockPos]
      /\ \A c \in Callers : bpos'[c] \in {"new", "end"} <=> bpos[c] \in {"new", "end"}
      /\ \A c \in Callers : bpos'[c] = "new" => bpos[c] = "new"
  BY PollingIs DEF IsPending, CountInv, BlockPos
<1> QED
  BY <1>1, <1>2, <1>3, SameHandles

\* block_on returns: its two handles go, and the clone that its future still owns.
LEMMA ReadyCounts ==
  ASSUME CountInv, NEW w, Polling(w), NEW gone \in SUBSET (waker \cap {w}),
         IsReady(w, Cardinality(gone)), waker' = waker \ gone, UNCHANGED batcher
  PROVE  CountInv'
<1>1. UNCHANGED <<bpc, batch, i>> /\ \A c \in Callers : WakerLocked(c)' <=> WakerLocked(c)
  BY DEF batcher, WakerLocked
<1>2. CASE w \in Tasks /\ w \notin Callers
  <2>1. UNCHANGED <<bpos, refs>> /\ future' \subseteq Tasks /\ \A c \in Callers : c \in waker' <=> c \in waker
    BY <1>2 DEF IsReady, CountInv
  <2> QED
    BY <1>1, <2>1, SameHandles DEF CountInv
<1>3. CASE w \in Callers /\ w \notin Tasks /\ bpos[w] = "poll"
  <2>1. /\ bpos' = [bpos EXCEPT ![w] = "end"] /\ UNCHANGED future
        /\ refs' = [refs EXCEPT ![w] = refs[w] - 2 - Cardinality(gone)]
    BY <1>3 DEF IsReady
  <2>2. Cardinality(gone) = IF w \in gone THEN 1 ELSE 0
    <3>1. gone = {w} \cap gone
      OBVIOUS
    <3> QED
      BY <3>1, CardOne
  <2>3. refs' \in [Callers -> Int] /\ bpos' \in [Callers -> BlockPos] /\ future' \subseteq Tasks
    BY <1>3, <2>1, <2>2 DEF CountInv, BlockPos
  <2>4. \A c \in Callers : Used(c)' = Used(c) /\ Used(c) \in Int
    BY <1>1 DEF Used
  <2>5. refs[w] = 2 + Stored(w) + Used(w)
    BY <1>3 DEF CountInv, Own
  <2>6. refs'[w] = Own(w)' + Stored(w)' + Used(w)'
    <3>1. Own(w)' = 0 /\ refs'[w] = refs[w] - 2 - Cardinality(gone)
      BY <1>3, <2>1 DEF Own, CountInv
    <3>2. Stored(w)' = Stored(w) - Cardinality(gone) /\ Stored(w) \in Int /\ Cardinality(gone) \in Int
      BY <2>2 DEF Stored
    <3> QED
      BY <1>3, <2>4, <2>5, <3>1, <3>2
  <2>7. \A c \in Callers : c # w =>
          refs'[c] = refs[c] /\ Own(c)' = Own(c) /\ Stored(c)' = Stored(c) /\ bpos'[c] = bpos[c]
    BY <2>1 DEF Own, Stored, CountInv
  <2>8. \A c \in Callers : refs'[c] = Own(c)' + Stored(c)' + Used(c)'
    BY <2>4, <2>6, <2>7 DEF CountInv
  <2>9. \A c \in Callers : bpos'[c] = "new" => c \notin waker' /\ ~WakerLocked(c)'
    BY <1>1, <1>3, <2>1 DEF CountInv
  <2> QED
    BY <2>3, <2>8, <2>9 DEF CountInv
<1> QED
  BY <1>2, <1>3, PollingIs

-----------------------------------------------------------------------------
(* The actions                                                             *)

\* Actions that change no handle and no step of the batcher's signal.
LEMMA QuietSame ==
  ASSUME CountInv, UNCHANGED <<refs, bpos, waker>>, future' \subseteq Tasks,
         \/ UNCHANGED <<bpc, batch, i>>
         \/ bpc \notin {"store", "notify"} /\ bpc' \notin {"store", "notify"}
         \/ bpc = "store" /\ bpc' = "notify" /\ UNCHANGED <<batch, i>>
  PROVE  CountInv'
<1>1. \A c \in Callers : WakerLocked(c)' <=> WakerLocked(c)
  BY DEF WakerLocked
<1>2. \A c \in Callers : Own(c)' = Own(c) /\ Stored(c)' = Stored(c) /\ Used(c)' = Used(c)
  BY <1>1 DEF Own, Stored, Used
<1> QED
  BY <1>1, <1>2 DEF CountInv

\* block_on begins: nobody has a handle yet.
LEMMA CallCounts ==
  ASSUME CountInv, NEW c \in Callers, Call(c)
  PROVE  CountInv'
<1>1. /\ bpos' = [bpos EXCEPT ![c] = "swap"] /\ refs' = [refs EXCEPT ![c] = 2]
      /\ bpos[c] = "new" /\ UNCHANGED <<future, waker, bpc, batch, i>>
  BY DEF Call, BlockOn, runVars, walVars, batcher
<1>2. \A d \in Callers : WakerLocked(d)' <=> WakerLocked(d)
  BY <1>1 DEF WakerLocked
<1>3. \A d \in Callers : Stored(d)' = Stored(d) /\ Used(d)' = Used(d)
  BY <1>1, <1>2 DEF Stored, Used
<1>4. Stored(c) = 0 /\ Used(c) = 0 /\ Own(c)' = 2 /\ refs'[c] = 2
  BY <1>1 DEF CountInv, Stored, Used, Own
<1>5. \A d \in Callers : d # c => Own(d)' = Own(d) /\ refs'[d] = refs[d] /\ bpos'[d] = bpos[d]
  BY <1>1 DEF CountInv, Own
<1>6. \A d \in Callers : refs'[d] = Own(d)' + Stored(d)' + Used(d)'
  BY <1>3, <1>4, <1>5 DEF CountInv
<1>7. \A d \in Callers : bpos'[d] = "new" => d \notin waker' /\ ~WakerLocked(d)'
  BY <1>1, <1>2, <1>5 DEF CountInv
<1>8. refs' \in [Callers -> Int] /\ bpos' \in [Callers -> BlockPos] /\ future' \subseteq Tasks
  BY <1>1 DEF CountInv, BlockPos
<1> QED
  BY <1>6, <1>7, <1>8 DEF CountInv

\* The clone that the poll stores; the one it replaces is dropped.
LEMMA RegisterCounts ==
  ASSUME CountInv, NEW r, Polling(r), RegisterWaker(r), CloneWaker(r, r \in waker)
  PROVE  CountInv'
<1>1. /\ waker' = waker \cup {r} /\ UNCHANGED <<bpos, future, bpc, batch, i>>
      /\ refs' = IF r \in Callers
                  THEN [refs EXCEPT ![r] = refs[r] + (IF r \in waker THEN 0 ELSE 1)] ELSE refs
  BY DEF RegisterWaker, CloneWaker, Clones, runVars, batcher
<1>2. \A d \in Callers : WakerLocked(d)' <=> WakerLocked(d)
  BY <1>1 DEF WakerLocked
<1>3. \A d \in Callers : Own(d)' = Own(d) /\ Used(d)' = Used(d)
  BY <1>1, <1>2 DEF Own, Used
<1>4. \A d \in Callers : /\ Stored(d)' = Stored(d) + (IF d = r /\ r \notin waker THEN 1 ELSE 0)
                         /\ refs'[d] = refs[d] + (IF d = r /\ r \notin waker THEN 1 ELSE 0)
  BY <1>1 DEF Stored, CountInv
<1>5. \A d \in Callers : Own(d) \in Int /\ Stored(d) \in Int /\ Used(d) \in Int
  BY DEF Own, Stored, Used
<1>6. \A d \in Callers : refs'[d] = Own(d)' + Stored(d)' + Used(d)'
  BY <1>3, <1>4, <1>5 DEF CountInv
<1>7. \A d \in Callers : bpos'[d] = "new" => d \notin waker' /\ ~WakerLocked(d)'
  BY <1>1, <1>2, PollingIs DEF CountInv
<1>8. refs' \in [Callers -> Int] /\ bpos' \in [Callers -> BlockPos] /\ future' \subseteq Tasks
  BY <1>1 DEF CountInv
<1> QED
  BY <1>6, <1>7, <1>8 DEF CountInv

\* The batcher takes the clone out of the Completion to use it.
LEMMA TakeCounts ==
  ASSUME CountInv, SignalTake, UNCHANGED execVars
  PROVE  CountInv'
<1>1. /\ waker' = waker \ {batch[i]} /\ UNCHANGED <<refs, bpos, future, batch>> /\ bpc = "take"
      /\ \/ batch[i] \in waker /\ bpc' = "store" /\ i' = i
         \/ batch[i] \notin waker /\ bpc' \in {"done", "check"}
  BY DEF SignalTake, NextSignal, execVars, runVars, blockVars
<1>2. \A d \in Callers : Used(d) = 0 /\ Used(d)' = (IF d = batch[i] /\ d \in waker THEN 1 ELSE 0)
  BY <1>1 DEF Used, WakerLocked
<1>3. \A d \in Callers : Own(d)' = Own(d) /\ Own(d) \in Int /\ Stored(d)' + Used(d)' = Stored(d)
  BY <1>1, <1>2 DEF Own, Stored
<1>4. \A d \in Callers : Stored(d)' \in Int /\ Used(d)' \in Int /\ Stored(d) \in Int
  BY <1>2 DEF Stored
<1>5. \A d \in Callers : refs'[d] = Own(d)' + Stored(d)' + Used(d)'
  BY <1>1, <1>2, <1>3, <1>4 DEF CountInv
<1>6. \A d \in Callers : bpos'[d] = "new" => d \notin waker' /\ ~WakerLocked(d)'
  BY <1>1 DEF CountInv, WakerLocked
<1> QED
  BY <1>1, <1>5, <1>6 DEF CountInv

\* wake consumes the clone.
LEMMA NotifyCounts ==
  ASSUME CountInv, SignalNotify, WakeNotify(batch[i])
  PROVE  CountInv'
<1>1. /\ UNCHANGED <<waker, bpos, future, batch>> /\ bpc = "notify" /\ bpc' \in {"done", "check"}
      /\ refs' = IF batch[i] \in Callers THEN [refs EXCEPT ![batch[i]] = refs[batch[i]] - 1] ELSE refs
  BY DEF SignalNotify, NextSignal, WakeNotify
<1>2. \A d \in Callers : Used(d)' = 0 /\ Used(d) = IF d = batch[i] THEN 1 ELSE 0
  BY <1>1 DEF Used, WakerLocked
<1>3. \A d \in Callers : Own(d)' = Own(d) /\ Stored(d)' = Stored(d)
  BY <1>1 DEF Own, Stored
<1>4. \A d \in Callers : Own(d) \in Int /\ Stored(d) \in Int
  BY DEF Own, Stored
<1>5. \A d \in Callers : refs'[d] = refs[d] - (IF d = batch[i] THEN 1 ELSE 0)
  BY <1>1 DEF CountInv
<1>6. \A d \in Callers : refs'[d] = Own(d)' + Stored(d)' + Used(d)'
  BY <1>2, <1>3, <1>4, <1>5 DEF CountInv
<1>7. \A d \in Callers : bpos'[d] = "new" => d \notin waker' /\ ~WakerLocked(d)'
  BY <1>1 DEF CountInv, WakerLocked
<1>8. refs' \in [Callers -> Int]
  BY <1>1 DEF CountInv
<1> QED
  BY <1>1, <1>6, <1>7, <1>8 DEF CountInv

\* The clones that die with the batch.
LEMMA CheckCounts ==
  ASSUME CountInv, CheckExit, DropWakers(FreedWithBatch)
  PROVE  CountInv'
<1> DEFINE F == FreedWithBatch
<1>1. /\ waker' = waker \ F /\ UNCHANGED <<bpos, future>> /\ bpc = "check" /\ bpc' \in {"exit", "top"}
      /\ refs' = [c \in Callers |-> IF c \in F THEN refs[c] - 1 ELSE refs[c]]
  BY DEF CheckExit, DropWakers, runVars
<1>2. F \subseteq waker
  BY DEF FreedWithBatch
<1> HIDE DEF F
<1>3. \A d \in Callers : Used(d)' = 0 /\ Used(d) = 0 /\ Own(d)' = Own(d) /\ Own(d) \in Int
  BY <1>1 DEF Used, WakerLocked, Own
<1>4. \A d \in Callers : /\ Stored(d)' = Stored(d) - (IF d \in F THEN 1 ELSE 0) /\ Stored(d) \in Int
                         /\ refs'[d] = refs[d] - (IF d \in F THEN 1 ELSE 0)
  BY <1>1, <1>2 DEF Stored, CountInv
<1>5. \A d \in Callers : refs'[d] = Own(d)' + Stored(d)' + Used(d)'
  BY <1>3, <1>4 DEF CountInv
<1>6. \A d \in Callers : bpos'[d] = "new" => d \notin waker' /\ ~WakerLocked(d)'
  BY <1>1 DEF CountInv, WakerLocked
<1>7. refs' \in [Callers -> Int]
  BY <1>1 DEF CountInv
<1> QED
  BY <1>1, <1>5, <1>6, <1>7 DEF CountInv

LEMMA PollCommitCounts ==
  ASSUME CountInv, NEW r, PollCommit(r)
  PROVE  CountInv'
<1>1. Polling(r) /\ future \subseteq Tasks
  BY DEF PollCommit, CountInv
<1>2. CASE (TakeSeq(r) \/ Push(r) \/ IncCount(r) \/ PollNotDone(r)) /\ UNCHANGED execVars
  <2>1. UNCHANGED <<refs, bpos, waker, future, bpc, batch, i>>
    BY <1>2 DEF TakeSeq, Push, IncCount, PollNotDone, execVars, runVars, blockVars, batcher
  <2> QED
    BY <1>1, <2>1, QuietSame
<1>3. CASE RegisterWaker(r) /\ CloneWaker(r, r \in waker)
  BY <1>1, <1>3, RegisterCounts
<1>4. CASE RecheckPending(r) /\ IsPending(r) /\ UNCHANGED <<ready, awake, token, submitted>>
  <2>1. UNCHANGED <<waker, batcher>>
    BY <1>4 DEF RecheckPending
  <2> QED
    BY <1>1, <1>4, <2>1, PendingSame
<1>5. CASE (PollReady(r) \/ RecheckReady(r)) /\ IsReady(r, Cardinality(Freed(r)))
  <2>1. waker' = waker \ Freed(r) /\ UNCHANGED batcher
    BY <1>5 DEF PollReady, RecheckReady
  <2>2. Freed(r) \in SUBSET (waker \cap {r})
    BY DEF Freed
  <2> QED
    BY <1>1, <1>5, <2>1, <2>2, ReadyCounts
<1> QED
  BY <1>2, <1>3, <1>4, <1>5 DEF PollCommit

LEMMA PollReadCounts ==
  ASSUME CountInv, NEW w, PollRead(w), UNCHANGED walVars
  PROVE  CountInv'
<1>1. Polling(w) /\ UNCHANGED <<waker, batcher>>
  BY DEF PollRead, walVars, batcher
<1>2. CASE IsReady(w, 0)
  <2> DEFINE gone == {}
  <2>1. Cardinality(gone) = 0 /\ gone \in SUBSET (waker \cap {w})
    BY FS_EmptySet
  <2>2. waker' = waker \ gone
    BY <1>1
  <2> HIDE DEF gone
  <2>3. IsReady(w, Cardinality(gone))
    BY <1>2, <2>1
  <2> QED
    BY <1>1, <2>1, <2>2, <2>3, ReadyCounts
<1>3. CASE IsPending(w)
  BY <1>1, <1>3, PendingSame
<1> QED
  BY <1>2, <1>3 DEF PollRead

LEMMA BatcherCounts ==
  ASSUME CountInv, Batcher
  PROVE  CountInv'
<1>0. future \subseteq Tasks
  BY DEF CountInv
<1>1. CASE (LoadRunning \/ SwapHead \/ SubCount \/ Write \/ SignalDone) /\ UNCHANGED execVars
  <2>1. UNCHANGED <<refs, bpos, waker, future>>
    BY <1>1 DEF LoadRunning, SwapHead, SubCount, Write, SignalDone, execVars, runVars, blockVars
  <2>2. bpc \notin {"store", "notify"} /\ bpc' \notin {"store", "notify"}
    BY <1>1 DEF LoadRunning, SwapHead, SubCount, Write, SignalDone
  <2> QED
    BY <1>0, <2>1, <2>2, QuietSame
<1>2. CASE SignalTake /\ UNCHANGED execVars
  BY <1>2, TakeCounts
<1>3. CASE SignalStore /\ WakeStore(batch[i])
  <2>1. UNCHANGED <<refs, bpos, waker, future, batch, i>> /\ bpc = "store" /\ bpc' = "notify"
    BY <1>3 DEF SignalStore, WakeStore
  <2> QED
    BY <1>0, <2>1, QuietSame
<1>4. CASE SignalNotify /\ WakeNotify(batch[i])
  BY <1>4, NotifyCounts
<1>5. CASE CheckExit /\ DropWakers(FreedWithBatch)
  BY <1>5, CheckCounts
<1> QED
  BY <1>1, <1>2, <1>3, <1>4, <1>5 DEF Batcher

\* The steps of run and of spawn outside a poll, and Drop.
LEMMA QuietCounts ==
  ASSUME CountInv,
         \/ \E t \in Tasks : Spawn(t) \/ (SpawnPush(t) /\ UNCHANGED walVars)
         \/ (Run \/ SpuriousWakeUp \/ Take \/ WakeUp \/ PollFinished) /\ UNCHANGED walVars
         \/ Close
         \/ UNCHANGED vars
  PROVE  CountInv'
<1>0. future \subseteq Tasks
  BY DEF CountInv
<1>1. CASE \E t \in Tasks : Spawn(t) \/ (SpawnPush(t) /\ UNCHANGED walVars)
  <2>1. UNCHANGED <<refs, bpos, waker, bpc, batch, i>> /\ future' \subseteq Tasks
    BY <1>0, <1>1 DEF Spawn, SpawnCount, SpawnPush, walVars, blockVars, batcher
  <2> QED
    BY <2>1, QuietSame
<1>2. CASE (Run \/ SpuriousWakeUp \/ Take \/ WakeUp \/ PollFinished) /\ UNCHANGED walVars
  <2>1. UNCHANGED <<refs, bpos, waker, future, bpc, batch, i>>
    BY <1>2 DEF Run, SpuriousWakeUp, Take, WakeUp, PollFinished, walVars, blockVars, batcher
  <2> QED
    BY <1>0, <2>1, QuietSame
<1>3. CASE Close \/ UNCHANGED vars
  <2>1. UNCHANGED <<refs, bpos, waker, future, bpc, batch, i>>
    BY <1>3, Zenon DEF Close, Drop, vars, walVars, execVars, runVars, blockVars, batcher
  <2> QED
    BY <1>0, <2>1, QuietSame
<1> QED
  BY <1>1, <1>2, <1>3

LEMMA CallerCounts ==
  ASSUME CountInv, NEW c \in Callers,
         (SwapAwake(c) \/ Park(c) \/ SpuriousUnpark(c)) /\ UNCHANGED walVars
  PROVE  CountInv'
<1>1. /\ UNCHANGED <<refs, waker, future, bpc, batch, i>> /\ bpos[c] \in {"swap", "park"}
      /\ \E l \in {"swap", "poll", "park"} : bpos' = [bpos EXCEPT ![c] = l]
  BY DEF SwapAwake, Park, SpuriousUnpark, walVars, runVars, batcher
<1>2. /\ bpos' \in [Callers -> BlockPos] /\ future' \subseteq Tasks
      /\ \A d \in Callers : bpos'[d] \in {"new", "end"} <=> bpos[d] \in {"new", "end"}
      /\ \A d \in Callers : bpos'[d] = "new" => bpos[d] = "new"
  BY <1>1 DEF CountInv, BlockPos
<1>3. \A d \in Callers : WakerLocked(d)' <=> WakerLocked(d)
  BY <1>1 DEF WakerLocked
<1> QED
  BY <1>1, <1>2, <1>3, SameHandles

LEMMA CountStep == CountInv /\ [Next]_vars => CountInv'
<1> SUFFICES ASSUME CountInv, [Next]_vars PROVE CountInv'
  OBVIOUS
<1>1. ASSUME NEW w, PollStep(w) PROVE CountInv'
  BY <1>1, PollCommitCounts, PollReadCounts DEF PollStep
<1>2. ASSUME NEW c \in Callers, Call(c) \/ Caller(c) \/ (SpuriousUnpark(c) /\ UNCHANGED walVars)
      PROVE  CountInv'
  BY <1>1, <1>2, CallCounts, CallerCounts DEF Caller
<1>3. CASE Runner
  BY <1>1, <1>3, QuietCounts DEF Runner
<1>4. CASE Batcher
  BY <1>4, BatcherCounts
<1> QED
  BY <1>2, <1>3, <1>4, QuietCounts DEF Next

\* The count of a ThreadSignal is the number of handles on it in every reachable state:
\* rw_clone, rw_wake, rw_wake_by_ref and rw_drop balance for any number of tasks,
\* callers and records, whatever the batcher and the polls do between each other's
\* steps.
THEOREM RuntimeSignalCounted == Spec => []SignalCounted
<1>1. Init => CountInv
  BY CountInit
<1>2. CountInv /\ [Next]_vars => CountInv'
  BY CountStep
<1>3. CountInv => SignalCounted
  BY CountInvImplies
<1> QED
  BY <1>1, <1>2, <1>3, PTL DEF Spec
=============================================================================
