# TLA+ models of zerokv

zerokv is an in-memory key-value engine made of lock-free parts: a skiplist with
epoch-based reclamation, a group-commit write-ahead log, a thread-per-core mesh of
single-producer single-consumer rings, a small async executor, a store over a mapped log,
and an arena and a buffer pool for zero-copy I/O. Its hard questions are about
interleavings, and this directory answers them with TLA+ models checked by TLC and, for
the properties that matter most, proofs checked by TLAPS.

`PROJECT.json` is the machine-readable index: components, runs, mutants, the map from
definitions to source lines, findings, hazards and theorems.

## The system and its parts

| Part | Source | Used by | Modules | Status |
|---|---|---|---|---|
| Epoch-based reclamation | `ebr.rs` | skiplist | `Ebr`, abstract `GracePeriod` | modelled, proved |
| SPSC ring | `spsc.rs` | mesh | `Spsc`, abstract `BoundedFifo` | modelled, proved |
| Skiplist | `skiplist.rs` | sharded index | `SkipList` | keys, values, links, towers |
| Sharded index | `shard.rs` | store | atomic steps of `KvStore` | partly |
| Group commit | `group_commit.rs` | clients, executor | `GroupCommit`, run in `CommitRuntime` | modelled |
| Executor, `block_on` | `executor.rs` | clients | `Executor`, run in `CommitRuntime` | modelled but for buffer contents; reference count proved |
| Mesh, batch mode | `mesh.rs` 1-291 | benchmark | `MeshBatch` | puts and quiescence |
| Mesh, service mode | `mesh.rs` 293-696 | clients | `MeshService`, abstract `AtomicKV` | all but the forwarded Put |
| Store and mapped log | `store.rs`, `mmap_log.rs` | clients | `KvStore` | durable stores; file proved to grow only |
| Registered buffers | `regbuf.rs` | group commit, clients | `RegBuf`, run in `Staging` | modelled, proved |
| Arena | `arena.rs` | zero-copy store | `Arena`, run in `Staging` | all but `reset`; proved |
| Zero-copy store | `zerocopy.rs` | clients | `ArenaKv`, abstract `WriteOnceMap` | `put` and `get` |
| Backoff, level generator | `backoff.rs` | skiplist | level generator in `SkipList` | backoff only delays |
| Facade, benchmark, derive macro | `lib.rs`, `main.rs`, `zerokv-derive` | - | - | no state to model |

How the models meet: `Ebr` is proved to implement `GracePeriod`, and `SkipList` frees
retired nodes by the rule of `GracePeriod`. `Spsc` is proved to implement `BoundedFifo`,
and the two mesh modules use queues whose push and pop are single steps of a bounded
FIFO. `SkipList` is checked to be linearizable, and `KvStore` uses the index as an atomic
map. `CommitRuntime` composes `Executor` and `GroupCommit`: an action of it is an action
of both where they meet (a poll that registers a waker clones it, a signal wakes through
the executor or through a `ThreadSignal`). `Staging` composes `ArenaKv`, which extends
`Arena`, with `RegBuf`: threads put bytes that lie in a registered buffer.

## Conventions

* A step is one access to shared memory (an atomic load, store, swap, add or
  compare-and-swap, or a critical section of a mutex). Thread-local work rides along with
  the step before or after it. A `pc` names the place in the code.
* A compare-and-swap loop that pushes on a stack is the step that succeeds where a failed
  attempt changes nothing; where what was loaded matters (`Arena`, `SkipList`), load and
  compare-and-swap are separate steps.
* **Memory is sequentially consistent.** The code's Acquire/Release/Relaxed orderings are
  not modelled, so reorderings that weaker hardware or the compiler may do are out of
  scope.
* Names with an underscore (`Eligible_OneEpoch`) are mutants: a plausible bug in the
  definition that follows. They are not part of any specification. Many stand before a
  one-line helper (`IsFull`, `DoneAgain`, `HeadIs`) that names the test they break.
* History variables (named as such where they are declared) are written and never read by
  an action's guard, with two exceptions: `obj` in `Ebr` is where the protected structure
  has an object, and `blockers` in `SkipList` is the state of the abstract domain.

## Modules

### Ebr, GracePeriod (`ebr.rs`)

State: the domain (`epoch`, `slots`, `bags`, `hwm`), the thread-locals `mySlot` and
`tick`, the live guards of each thread, and the locals of `pin`, `retire`, `try_collect`
and `reclaim_bag`. `local_slot` is `ClaimSlot`/`PublishHwm`/`SlotsExhausted`; `pin` is
`PinLoad` and `PinStore`, with the epoch possibly stale between them; `Guard::drop` is
`DropGuard`, which starts a collection every `CollectInterval` drops; `retire` is
`RetireLoad`/`RetirePush`; `try_collect` reads the epoch, the high-water mark and the
slots one at a time (`ColLoad`, `ColHwm`, `ColScan`), advances (`ColCas`), and reclaims
each bag (`RecSwap`, `RecFree`/`RecKeep`, `RecPush`, `RecNext`). `Exit` is the end of a
thread and the start of another one in its place: the slot stays claimed, so the slots run
out after as many threads as there are slots, and `pin` panics. `Publish` and `Unlink`
are the protected structure. `GracePeriod` says what the domain promises: the threads that
hold a guard when an object is taken out are its blockers, and it is not freed before the
last of them has dropped its guard.

### Spsc, BoundedFifo (`spsc.rs`)

Push and pop are a load of the other end's cursor, an access to the slot and a store of
the own cursor. Cursors wrap at `2^WordBits`; slots know whether they are initialized, so
a double drop or a read of uninitialized memory shows. Both endpoints may be dropped at
any time between calls; the second drop runs `Ring::drop`. `Pushers` is the set of threads
that push, one in the run: with two, `SlotsExclusive` fails.

### SkipList (`skiplist.rs`)

Every load, store and compare-and-swap of a forward link is a step, and so are the swap
and the load of a value cell. `find` is `LoadRef`, `LoadMarked`, `LoadRight`,
`AtEndOfLevel`, `LoadDown`, `Splice`, `FindDone`; `get` shares the walking steps, skips
marked nodes instead of splicing them and ends in `GetMark` and `GetValue`. `insert` adds
`Swap` (an existing key) or `Publish`, `StoreLink`, `LinkUpper`, `IncLen`; `remove` adds
the marking steps, `DecLen` and `Retire`; `Drop` is the teardown. Memory blocks are reused
after they were freed, so address reuse (the ABA hazard) is in the model. The height of a
new node is any that `random_geometric_level` gives for some random bits, within the bound
`Heights` sets for its key.

The value an insert writes is the name of its thread, and `seen` collects, for each call
under way, the values its key has had since the call began. `Linearizable` says that every
result is allowed by one of them. An insert that swaps the value of a node that has just
been marked takes effect right before the removal (`Overwrites`): it returns false, its
value is gone, and that is a legal history. `overtaken` holds the writers that another
thread has overtaken: it changed a link after their search began. A displaced value is
retired through the same domain as a node and is not tracked apart.

### Executor (`executor.rs`)

`run` takes a task, polls it and sleeps on the condition variable, which may wake
spuriously; `spawn` raises the count and then pushes, at any moment, also while `run` is
under way. `block_on` is `BlockOn` (the signal is made with `awake` set and two handles),
`SwapAwake`, the poll, `Park`. The four `RawWaker` functions appear by what they do to the
count: `CloneWaker` (`Clones`), `WakeStore` and `WakeNotify` (set awake, then unpark and
give up a handle), `DropWakers`; `wake_by_ref` is part of `PollRead`, the poll of
`DirectIoRead`. A clone stored over an older one drops that one, so the count stays.

### GroupCommit (`group_commit.rs`, `write_vectored` of `regbuf.rs`)

A record is one append followed by an awaited `CommitFuture`. The batcher reads `running`,
swaps the stack, subtracts from the counter, sorts, writes, signals each record in up to
four steps (set done, take the waker, store, notify), and tests for exit. The coalescing
window only delays and is left out. `write_vectored` writes slice after slice and stops at
the first error; the batch keeps its places in the file, and each place knows whether its
record was written there (`ok`). The lock of a
Completion's waker is held while the batcher wakes (`WakerLocked`). A Completion is freed,
with a waker left in it, by the last of its two owners (`Freed`, `FreedWithBatch`).

### CommitRuntime

The WAL with those who await it: tasks of the executor and threads in `block_on`, each
`async { wal.append(..).await }`, beside waiters on a `DirectIoRead`. A step of an append
or a future is taken by whoever polls it. The WAL is dropped (`Close`) once nobody borrows
it for an append any more, with futures possibly still waiting.

### MeshBatch (`mesh.rs`, `run_put_workload`)

Workers put their items, pump, announce that they are done and run the quiescence test,
whose three loads are separate steps. No call in this mode creates a Get, so replies are
left out.

### MeshService, AtomicKV (`mesh.rs`, `MeshService`)

Clients submit and wait with check/park; the unpark token is modelled, so a stale one may
wake a client early, and park may return for no reason. Workers pump the matrix, collect
replies, drain their ingress, and test for exit at shutdown; the re-entrant pumps inside a
full forward or a full reply queue are modelled with a return place. Calls may be made at
any time, also after `shutdown`; `late` remembers those made to a worker that has already
left. A forwarded Put (lines 660-667) cannot happen through `ServiceHandle` (`put` always
picks the owner) and is left out. `AtomicKV` is a map on which each call takes effect at
one instant between its start and its return.

### KvStore (`store.rs`, `mmap_log.rs`)

`put` appends a frame under the log's mutex and then updates the index; `flush` rewrites
the file from its start, possibly in parts, possibly failing; the process may end between
any two steps and the log is opened again, perhaps with another capacity. Bytes are
modelled one by one (each is a put and a position), so a torn frame is visible. The file
survives the process, not the operating system: the code never calls `fsync`.

### Arena, ArenaKv, RegBuf, Staging, WriteOnceMap (`arena.rs`, `zerocopy.rs`, `regbuf.rs`)

`Arena`: `alloc_raw` is the load of `head` and the attempts to move it; a weak
compare-and-swap may fail for no reason. Addresses are offsets from `Base`, and alignment
is relative to the address, as in the code. `handed` counts how often a byte was given out.
`ArenaKv`: `put` allocates and copies the key, then the value, then appends the two spans
under the mutex; `get` scans the entries and compares the *bytes of the arena*, so a region
handed out twice would change what it finds. `RegBuf`: the free list is a stack of indexes;
a read may be short and leaves the older bytes behind it. `Staging` lets threads do all of
this together; a put that borrows a buffer keeps it until it returns, as the borrow checker
requires. `WriteOnceMap` is what the store promises: the first put of a key to be pushed
decides its value, and a later put returns true without effect, because `get` takes the
first entry that matches (`zerocopy.rs:125`).

## What the runs check

Each is a TLC run of the module and `.cfg` named in `PROJECT.json`.

| Run | Bounds | Shows |
|---|---|---|
| `ebr` | 2 threads (and their successors), 1 object, 2 slots, epoch up to 2 | no use after free; each retire record on exactly one list; `Ebr` implements `GracePeriod`; the epoch keeps advancing |
| `ebr_nested` | 2 guards per thread | **violation**: nested guards |
| `spsc` | capacity 3 (rounded to 4), 3-bit cursors | slots exclusive, drop exact, `Spsc` implements `BoundedFifo` |
| `skiplist` | 2 threads, 3 keys, 2 levels, 2 blocks | sorted, linearizable, retired nodes unreachable, no use after free, length, retries only after interference |
| `skiplist_race` | 2 levels, two writers of one key | **violation**: a retired node is linked again |
| `commit_runtime` | a task and a thread that commit, a task that reads, 2-bit counter, failing writes | each record in one place, signalled after its write; real-time order; exact reference count; no lost wake-up; `run`, `block_on` and `drop` return |
| `commit_lost_write` | a task and a thread that commit | **violation**: a future resolves and its record is not in the file |
| `mesh_batch` | 2 workers, 4 items each, 1-slot queues | no early stop, right result, all workers end |
| `mesh_service` | 2 clients (2 calls and 1 call), 2 workers, 1-slot queues, shutdown at any moment | a request is held in exactly one place; `MeshService` implements `AtomicKV`; calls return |
| `mesh_service_hang` | 1 client, round-robin get, shutdown | **violation**: the call never returns |
| `kvstore` | 3 puts, logs of 2, 4 and 8 bytes, 3 openings | flushed frames stay, the file only grows, no frame is torn but by the end of the process, log and index in order |
| `staging` | 2 threads, 1 buffer, an arena of 3 bytes | regions disjoint, buffers stable, `Staging` implements `WriteOnceMap` |

### Bounds

* **Ebr.** An object is freed two epochs after its retirement, so an epoch bound of 2
  (no new guard is taken at the bound, collections under way still advance) reaches every
  case of the two-epoch rule. `CollectInterval` is 1 to make every drop collect. Two
  slots make the high-water mark matter. The proofs lift all of these bounds except the
  number of guards.
* **Spsc.** Three-bit cursors wrap after two turns of a four-slot ring, and the queue is
  full, empty and wrapped in every alignment.
* **SkipList.** `OneTallWriter` lets both threads write and read key 2, whose nodes have
  one level, while key 1, with nodes of two levels, and key 3, with nodes of one or two,
  have a single writer each and are read by the other thread. So neighbours are inserted,
  removed and linked on both
  levels around a contended key. Two writers of one *tall* key are what `skiplist_race` is
  about, and are left out of the passing run for that reason. Two blocks of memory are
  soon reused. `WordBits` is 2 so that the length wraps.
* **CommitRuntime.** Two records are one batch of two or two batches, in any arrangement,
  and the order and counting properties compare two records at a time. One of them is
  awaited by the executor and one by `block_on`, so both ways to be woken occur, and the
  reading task keeps the ready queue busy meanwhile. The proof lifts the bounds for the
  reference count.
* **Mesh.** Queues of one slot are full after one push, which 4096-slot queues are not;
  this makes backpressure the common case.
* **KvStore.** Frames of one and two bytes against logs of 2, 4 and 8 bytes cover a frame
  that fits, fits exactly and does not fit, and a torn frame. Three openings allow two torn
  frames inside one file.
* **MeshService.** One key makes the two clients always conflict. `Direct` lets one of them
  put, get from the owner and get round robin, once, while the other gets round robin
  twice: its second call meets tokens and completions the first one left behind, and two
  gets may be forwarded over the same one-slot queue.
* **Staging.** Three bytes are filled by two short puts, so allocation fails for a key, for
  a value, and just fits. One buffer for two threads is always handed on. An empty key
  takes no memory and shares its address with others. The store asks for alignment 1 only,
  so there is no padding in this run; `ArenaDisjoint` is for every alignment.

Symmetry is used for interchangeable values (`spsc`), blocks (`skiplist`,
`skiplist_race`), threads (`staging`) and threads and objects (`ebr_nested`), and never in
a run that checks liveness.

CHECK_DEADLOCK is off where a program may end or its callers may stop calling. It is on in
`mesh_batch`, where a state in which every worker waits would be the deadlock the code's
header excludes (workers that have left stutter by an explicit `Shutdown` step).

### Fairness

* `Ebr`: a thread inside a call goes on (weak fairness); threads keep taking and dropping
  guards (strong fairness on `DropGuard` and on starting a pin). This is what the
  documentation asks of clients: a guard held for ever stops reclamation.
* `SkipList`: none. Lock freedom is checked as a property of steps
  (`RetryMeansProgress`): a search starts again only if another thread has changed a link
  since it began.
* `CommitRuntime`: weak fairness for the batcher, the thread inside `run`, each thread in
  `block_on` and a `spawn` under way: each is an OS thread that keeps running. None for
  spurious wake-ups, and nothing makes a client spawn, call or drop. A push counts as the
  attempt that succeeds; a compare-and-swap loop gives no bound for one thread, but with
  finitely many appends only finitely many attempts can lose to another push, and the
  batcher swaps the stack only once per round.
* `MeshBatch`, `MeshService`: weak fairness per worker and per waiting client: each is an
  OS thread that is never blocked by another one. None for spurious returns of park.

## Where code and text disagree

Four disagreements have a run that ends in a counterexample; `PROJECT.json` quotes the
text.

1. `ebr.rs:87`: a second `pin` of a thread that holds a guard stores the newer epoch over
   the one its first guard relies on, the collector finds the slot current, advances once
   more and frees what the first guard protects (`ebr_nested`). Dropping one of the two
   guards (line 255) unpins the thread to the same effect. The theorems below assume one
   guard at a time.
2. `skiplist.rs:506`: `insert` still links the upper levels of a node that a concurrent
   `remove` of the same key has retired (`skiplist_race`).
3. `group_commit.rs:236`: the result of the write is discarded and its records are
   signalled as durable (`commit_lost_write`). What does hold is `RecordHeldOnce`: a record
   is signalled only after the write of its own batch was tried.
4. `mesh.rs:594`: a worker may leave at shutdown while a peer is about to forward a
   request to it (`mesh_service_hang`). Otherwise every call returns: `CallsReturn` excepts
   a shutdown that meets a forwarded request and calls made to a worker that has left.

Two more show as exceptions in properties that hold otherwise.

5. `group_commit.rs:137`: the sequence number restores submission order (lines 14-16) only
   inside a batch. `RealTimeOrder` orders appends that do not overlap.
6. `executor.rs:165`: `spawn` pushes and does not signal, against lines 117-119.
   `RunReturns` excepts a sleep with a task in the queue that was spawned meanwhile.

Two are outside of what the properties speak about.

7. `store.rs:55`: "writes first append to the pre-allocated WAL" (lines 4-5), but `put`
   discards the result of `append` and updates the index although the log is full.
   No property says that what the index shows was logged.
8. `spsc.rs:57`: the endpoints are `Sync` by auto trait, against the comment above
   ("never `Sync`"), so two threads may push through one `Producer` and write one slot.
   No code in the crate does so; the run and the theorems have one producer.

## What is proved

Each theorem holds for every value of the constants that satisfies the named assumption of
its component (`EbrAssumption`, `SpscAssumption`, `ExecutorAssumption`,
`KvStoreAssumption`; `ArenaAssumption`, `RegBufAssumption` and `StagingAssumption`), which
the runs evaluate.

| Theorem | Module | Statement |
|---|---|---|
| `TypeCorrect` | `EbrTypeProofs` | `Spec => []TypeOK` |
| `RecordsKept` | `EbrTypeProofs` | `Spec => []OneRecord` |
| `Safety` | `EbrProofs` | if `MaxGuards = 1`, `Spec => []NoUseAfterFree` |
| `Refinement` | `EbrProofs` | if `MaxGuards = 1`, `Spec => ImplementsGracePeriod` |
| `SpscSlotsExclusive` | `SpscProofs` | with one producer, `Spec => []SlotsExclusive` |
| `SpscDropIsExact` | `SpscProofs` | with one producer, `Spec => []DropIsExact` |
| `SpscImplementsFifo` | `SpscProofs` | with one producer, `Spec => ImplementsFifo` |
| `RuntimeSignalCounted` | `RuntimeProofs` | `Spec => []SignalCounted` |
| `KvFlushedStays` | `KvStoreProofs` | `Spec => []FlushedStays` |
| `KvFileOnlyGrows` | `KvStoreProofs` | `Spec => FileOnlyGrows` |
| `ArenaDisjoint` | `StagingProofs` | `ArenaSpec => []RegionsDisjoint` |
| `StagingSafe` | `StagingProofs` | `Spec => [](RegionsDisjoint /\ BuffersStable)` |

The assumptions `MaxGuards = 1` and one producer are needed: `ebr_nested` is the
counterexample without the first, and two threads that load one `tail` the one without the
second.

### The reclamation scheme

`NoUseAfterFree` is not inductive: that a free object has no blockers
depends on why `Eligible` (two epochs past the retire epoch) implies that all blockers
have gone. The inductive invariant `IInv` in `Ebr` has

* `BaseInv`: types; a slot has one owner and lies below the high-water mark once its claim
  is published (`SlotInv`); a thread inside `pin` has no guard (`PinInv`); scan positions
  are in range (`ScanInv`); an object between unlink and push belongs to one `retire`
  (`RetInv`); a record is on one list (`ListInv`);
* `ReadInv`: an epoch that some thread has read is not ahead of the global one, and a
  pinned slot holds an epoch;
* `BlockInv`: only objects that were taken out have blockers, and these hold guards;
* `GraceInv`, the heart: while thread `t` blocks `o`, `t`'s slot is at most `o`'s retire
  epoch, the global epoch is at most one more than that, and a collector that has already
  passed `t`'s slot and read the *current* epoch read one that is at most the retire epoch,
  so its compare-and-swap moves the epoch to at most one past it.

The last conjunct is what covers pins that race with a scan, a stale epoch in `pin` and a
high-water mark read before the slot was published. `RecFree` frees only two epochs past
the retire epoch, which `GraceInv` contradicts as long as there is a blocker.

### The ring

`SpscInv` ties the slots to the cursors: with `Used` the wrapping distance of the cursors,
the place `n` behind `head` holds a value exactly if `n` is below `Used`, up to the two
steps in which a push has written and not yet published its slot, or a pop has read and
not yet released it. `Used` is at most the capacity, and a producer that has found room
still has it, because the consumer can only make more. The work is in the remainders:
that the capacity divides the range of the cursors (`SpscAssumption`) is what makes a
wrapped cursor point at the next slot. The queue of `BoundedFifo` is the sequence of the
used places.

### The reference count

`SignalCounted` compares the count with the handles. It is not inductive: nothing in it
says that a caller that has not begun has no handle in a Completion or with the batcher.
`CountInv` adds that, splits the handles by owner (the call's own, the stored clone, the
one the batcher consumes), and that `future` holds tasks only, so that a task and a caller
are never confused (`ExecutorAssumption`).

### The log file

`FileOnlyGrows` needs that a flush, which rewrites the file from its start, writes what is
already there. `KvInv`: mapped log and file agree as far as both reach, and the log is
shorter than the file only if it is full, which happens when a longer file is opened with a
smaller capacity. So an append cannot write over bytes of the file the log does not hold.
`FlushedStays` follows, as a frame found in a prefix stays where it is.

### Arena and buffers

`RegionsDisjoint` says that no byte was handed out twice and none at or above `head` at all;
`ArenaInv` adds the types, and a successful compare-and-swap thus hands out bytes that are
new. `BuffersStable` compares the whole buffer of a holder with what it found there and has
read since; a read changes the buffer of no other holder because no buffer has two, and an
index that is popped is held by nobody because it was free. `PoolInv` adds that the free
list has no duplicates and the types. `StagingInv` adds that a put which borrows a buffer
runs while its thread holds one.

### Only model-checked

All liveness properties (the proof system does not do fairness or `ENABLED`), everything
about `SkipList`, `MeshBatch` and `MeshService`, and of the other modules `RecordHeldOnce`,
`RealTimeOrder`, `RunCompletesAll`, `FramesWhole`, `LogOrder` and `ImplementsWriteOnce`.
`Reach` of `SkipList` is a recursive function, about which nothing can be proved here for
every input.

## Not modelled

* Weak memory; panics and allocation failure (apart from slot exhaustion in `Ebr` and the
  end of the arena).
* `Backoff`: it delays a retry and changes no shared state. The arithmetic of FNV-1a
  (`Route` is any function) and of the random generator (any bits may come).
* The memory layout of nodes, inline keys, prefetching, `AlignedBuf`.
* `Arena::reset`: unsafe, and called by nobody. The `Pod` and `ZeroCopy` traits and the
  derive macro are contracts at compile time.
* Stores without a log, which are the index alone; two `MappedLog`s open on one file.
* The Get path of the mesh in batch mode (no call reaches it; the service mode has the same
  path and is modelled) and the forwarded Put of the service mode (no call reaches it).
* Replay of the log: the code has none. The frame has no value length, so a log cannot be
  cut into frames again; deletions are not logged.
* The facade and the benchmark program, which have no state of their own.
