---------------------------- MODULE GroupCommit ----------------------------
(***************************************************************************)
(* The group-commit WAL of group_commit.rs: appends that push records on a *)
(* Treiber stack, the batcher thread that writes what it finds there in    *)
(* one write, and the futures that wait for it.  A record stands for the   *)
(* one append, and the one CommitFuture, of the task or thread of that     *)
(* name; who polls that future is left to the module that uses this one.   *)
(*                                                                         *)
(* The coalescing window only delays the batcher, and is left out.  So are *)
(* the attempts to push whose compare-exchange fails: they change nothing. *)
(***************************************************************************)
EXTENDS Integers, FiniteSets, SequencesExt

CONSTANTS
  Records,
  WordBits    \* width of pending_count

ASSUME GroupCommitAssumption == IsFiniteSet(Records) /\ WordBits \in Nat

VARIABLES
  seq, head, count, running,   \* Shared: seq, head, pending_count, running
  file,                        \* the log: the places reserved, each with its record and
                               \* whether all its bytes were written
  pc, num,                     \* of a record: where its append or future is, its
                               \* sequence number
  done, waker,                 \* Completion: done; waker is Some
  bpc, sawRunning, batch, i,   \* the batcher: running as it was read, batch, index
  before                       \* history: appends returned when this one started

walVars == <<seq, head, count, running, file, pc, num, done, waker,
             bpc, sawRunning, batch, i, before>>
shared == <<seq, head, count, running>>
futures == <<pc, num, before>>
batcher == <<bpc, sawRunning, batch, i>>

Appending == {"push", "count"}
Futures == {"poll", "register", "recheck", "ready"}
Returned == {r \in Records : pc[r] \in Futures}

WalTypeOK ==
  /\ seq \in 0 .. Cardinality(Records)
  /\ head \in Seq(Records) /\ batch \in Seq(Records)
  /\ count \in 0 .. 2 ^ WordBits - 1
  /\ running \in BOOLEAN /\ sawRunning \in BOOLEAN
  /\ file \in Seq([rec : Records, ok : BOOLEAN])
  /\ pc \in [Records -> {"new"} \cup Appending \cup Futures]
  /\ num \in [Records -> 0 .. Cardinality(Records)]
  /\ {done, waker} \subseteq SUBSET Records
  /\ bpc \in {"top", "swap", "sub", "write", "done", "take", "store", "notify", "check", "exit"}
  /\ i \in 1 .. Cardinality(Records) + 1
  /\ before \in [Records -> SUBSET Records]

WalInit ==
  /\ seq = 0 /\ head = <<>> /\ count = 0 /\ running = TRUE
  /\ file = <<>>
  /\ pc = [r \in Records |-> "new"]
  /\ num = [r \in Records |-> 0]
  /\ done = {} /\ waker = {}
  /\ bpc = "top" /\ sawRunning = TRUE /\ batch = <<>> /\ i = 1
  /\ before = [r \in Records |-> {}]

At(r, l) == pc[r] = l
Goto(r, l) == pc' = [pc EXCEPT ![r] = l]

-----------------------------------------------------------------------------
(* append                                                                  *)

\* The call begins; its sequence number is taken before anything is visible.
TakeSeq(r) ==
  /\ At(r, "new")
  /\ num' = [num EXCEPT ![r] = seq]
  /\ seq' = seq + 1
  /\ before' = [before EXCEPT ![r] = Returned]
  /\ Goto(r, "push")
  /\ UNCHANGED <<head, count, running, file, done, waker, batcher>>

\* The compare-exchange that succeeds.
Push(r) ==
  /\ At(r, "push")
  /\ head' = <<r>> \o head
  /\ Goto(r, "count")
  /\ UNCHANGED <<seq, count, running, file, num, before, done, waker, batcher>>

IncCount(r) ==
  /\ At(r, "count")
  /\ count' = (count + 1) % 2 ^ WordBits
  /\ Goto(r, "poll")
  /\ UNCHANGED <<seq, head, running, file, num, before, done, waker, batcher>>

-----------------------------------------------------------------------------
(* CommitFuture::poll                                                      *)

\* The Completion is freed by its last owner, with the waker left in it: by the future
\* that is ready when the batch is gone, or with the batch of a future already ready.
Freed(r) == {r} \cap (waker \ Range(batch))
FreedWithBatch == {r \in waker \cap Range(batch) : At(r, "ready")}

PollReady(r) ==
  /\ At(r, "poll") /\ r \in done
  /\ Goto(r, "ready")
  /\ waker' = waker \ Freed(r)
  /\ UNCHANGED <<shared, file, num, before, done, batcher>>

PollNotDone(r) ==
  /\ At(r, "poll") /\ r \notin done
  /\ Goto(r, "register")
  /\ UNCHANGED <<shared, file, num, before, done, waker, batcher>>

\* signal holds the lock of the waker while it wakes.
WakerLocked(r) == bpc \in {"store", "notify"} /\ batch[i] = r

RegisterWaker(r) ==
  /\ At(r, "register") /\ ~WakerLocked(r)
  /\ waker' = waker \cup {r}
  /\ Goto(r, "recheck")
  /\ UNCHANGED <<shared, file, num, before, done, batcher>>

\* done, read again; mutant: it is not.
DoneAgain_Skipped(r) == FALSE
DoneAgain(r) == r \in done

RecheckReady(r) ==
  /\ At(r, "recheck") /\ DoneAgain(r)
  /\ Goto(r, "ready")
  /\ waker' = waker \ Freed(r)
  /\ UNCHANGED <<shared, file, num, before, done, batcher>>

RecheckPending(r) ==
  /\ At(r, "recheck") /\ ~DoneAgain(r)
  /\ Goto(r, "poll")
  /\ UNCHANGED <<shared, file, num, before, done, waker, batcher>>

-----------------------------------------------------------------------------
(* batcher_loop                                                            *)

LoadRunning ==
  /\ bpc = "top"
  /\ sawRunning' = running
  /\ bpc' = "swap"
  /\ UNCHANGED <<shared, file, futures, done, waker, batch, i>>

\* The stack is detached; when it is empty the loop ends or starts again.
SwapHead ==
  /\ bpc = "swap"
  /\ batch' = head
  /\ head' = <<>>
  /\ bpc' = IF head # <<>> THEN "sub" ELSE IF sawRunning THEN "top" ELSE "exit"
  /\ UNCHANGED <<seq, count, running, file, futures, done, waker, sawRunning, i>>

\* Mutant: the batch is written in stack order.
BySeq_Unsorted(s) == s
BySeq(s) == SortSeq(s, LAMBDA r, t : num[r] < num[t])

\* fetch_sub on pending_count; mutant: it does not wrap.
WrappingSub_Below(n) == count - n
WrappingSub(n) == (count + 2 ^ WordBits - n) % 2 ^ WordBits

SubCount ==
  /\ bpc = "sub"
  /\ count' = WrappingSub(Len(batch))
  /\ batch' = BySeq(batch)
  /\ bpc' = "write"
  /\ UNCHANGED <<seq, head, running, file, futures, done, waker, sawRunning, i>>

\* What write_vectored may leave at the places of the slices: they are written one
\* after the other, each one to its end, and the first error ends it.  Mutant: the
\* last slice is left out, and its place not reserved.
WriteVectored_ButLast(s) == {[k \in 1 .. Len(s) - 1 |-> [rec |-> s[k], ok |-> TRUE]]}
WriteVectored(s) ==
  {[k \in 1 .. Len(s) |-> [rec |-> s[k], ok |-> k <= n]] : n \in 0 .. Len(s)}

\* One write at the offset reserved for the batch; the result is ignored.
Write ==
  /\ bpc = "write"
  /\ \E places \in WriteVectored(batch) : file' = file \o places
  /\ i' = 1
  /\ bpc' = "done"
  /\ UNCHANGED <<shared, futures, done, waker, sawRunning, batch>>

\* Completion::signal, for each record of the batch: done is set, the waker is taken
\* and used, in two steps of its own.
SignalDone ==
  /\ bpc = "done"
  /\ done' = done \cup {batch[i]}
  /\ bpc' = "take"
  /\ UNCHANGED <<shared, file, futures, waker, sawRunning, batch, i>>

NextSignal ==
  /\ i' = IF i < Len(batch) THEN i + 1 ELSE 1
  /\ bpc' = IF i < Len(batch) THEN "done" ELSE "check"

SignalTake ==
  /\ bpc = "take"
  /\ waker' = waker \ {batch[i]}
  /\ IF batch[i] \in waker THEN bpc' = "store" /\ UNCHANGED i ELSE NextSignal
  /\ UNCHANGED <<shared, file, futures, done, sawRunning, batch>>

SignalStore ==
  /\ bpc = "store"
  /\ bpc' = "notify"
  /\ UNCHANGED <<shared, file, futures, done, waker, sawRunning, batch, i>>

SignalNotify ==
  /\ bpc = "notify"
  /\ NextSignal
  /\ UNCHANGED <<shared, file, futures, done, waker, sawRunning, batch>>

\* The end of the loop's body, where the batch is dropped.
CheckExit ==
  /\ bpc = "check"
  /\ bpc' = IF ~sawRunning /\ head = <<>> THEN "exit" ELSE "top"
  /\ batch' = <<>>
  /\ waker' = waker \ FreedWithBatch
  /\ UNCHANGED <<shared, file, futures, done, sawRunning, i>>

\* Drop for GroupCommitWal.
Drop ==
  /\ running
  /\ running' = FALSE
  /\ UNCHANGED <<seq, head, count, file, futures, done, waker, batcher>>

-----------------------------------------------------------------------------
(* Properties                                                              *)

Written(r) == \E k \in 1 .. Len(file) : file[k] = [rec |-> r, ok |-> TRUE]

\* A CommitFuture "resolves only after the batch is durable": a future that is ready
\* has its record in the file, whole.
ResolvedIsWritten == \A r \in Records : At(r, "ready") => Written(r)

OnStack(r) == {k \in 1 .. Len(head) : head[k] = r}
ToWrite(r) == {k \in 1 .. Len(batch) : bpc \in {"sub", "write"} /\ batch[k] = r}
PlacesOf(r) == {k \in 1 .. Len(file) : file[k].rec = r}

\* From its push on, a record is on the stack, in the batch that is to be written, or at
\* its place of the file: in one of the three, and there once.  The batcher signals it
\* only when it has that place, so after the write of its own batch, never with that of
\* another, however appends, batches and the drop of the WAL interleave.
RecordHeldOnce ==
  /\ \A r \in Records :
       Cardinality(OnStack(r)) + Cardinality(ToWrite(r)) + Cardinality(PlacesOf(r))
         = IF pc[r] \in {"new", "push"} THEN 0 ELSE 1
  /\ \A r \in done : PlacesOf(r) # {}

\* The log respects real time, across batches and failing writes too: when an append
\* returned before another one started, its place in the file is ahead of the other's.
RealTimeOrder ==
  \A k \in 1 .. Len(file) : \A r \in before[file[k].rec] : \E j \in 1 .. k - 1 : file[j].rec = r
=============================================================================
