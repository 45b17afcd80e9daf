------------------------------ MODULE KvStore ------------------------------
(***************************************************************************)
(* The durable store of store.rs over the log of mmap_log.rs: puts that    *)
(* append a frame to the log under its mutex and then update the index,    *)
(* flushes that write the log's buffer to its file, and the end of the     *)
(* process at any point between two steps, after which the store is opened *)
(* again, perhaps with another capacity.                                   *)
(*                                                                         *)
(* The index is a map that each operation reads or changes in one step:    *)
(* the promise of SkipList.  A frame is as many bytes as FrameLen says;    *)
(* byte j of the frame of put p is <<p, j>>.  The file outlives the        *)
(* process, not the operating system: flush never asks for more.           *)
(***************************************************************************)
EXTENDS Integers, FiniteSets, SequencesExt

CONSTANTS
  Puts,        \* the calls of put, each with a value of its own
  KeyOf,       \* the key of a put
  FrameLen,    \* the length of its frame
  Caps,        \* the capacities that open is called with, rounded to pages
  MaxOpens,    \* bound on how often the store is opened
  None

ASSUME KvStoreAssumption ==
  /\ IsFiniteSet(Puts) /\ None \notin Puts
  /\ FrameLen \in [Puts -> Nat \ {0}]
  /\ Caps \subseteq Nat \ {0} /\ MaxOpens \in Nat \ {0}

VARIABLES
  buf, cap, spans,   \* MappedLog: base[..len], cap, and spans as <<first, length>>
  file,              \* the contents of the backing file
  flushed,           \* bytes a running flush has written, None if none runs
  index,             \* KvStore: index
  pc,                \* where each put is
  open, opens,       \* whether the process runs; how often it has opened the log
  before,            \* history: puts that had returned when this one started
  acked              \* history: frames in the log when a flush returned Ok

log == <<buf, cap, spans>>
history == <<before, acked>>
vars == <<log, file, flushed, index, pc, open, opens, history>>

Keys == {KeyOf[p] : p \in Puts}
Frame(p) == [j \in 1 .. FrameLen[p] |-> <<p, j>>]
Bytes == UNION {Range(Frame(p)) : p \in Puts}
Holds(bytes, p) ==
  \E n \in 0 .. Len(bytes) - FrameLen[p] : SubSeq(bytes, n + 1, n + FrameLen[p]) = Frame(p)
Position(bytes, p) == CHOOSE n \in 1 .. Len(bytes) : bytes[n] = <<p, 1>>

\* The log never outgrows its allocation, and every span lies within the log.
TypeOK ==
  /\ buf \in Seq(Bytes) /\ file \in Seq(Bytes)
  /\ cap \in Caps /\ Len(buf) <= cap
  /\ \A s \in Range(spans) : s[1] \in 1 .. Len(buf) /\ s[1] + s[2] - 1 \in 1 .. Len(buf)
  /\ flushed \in 0 .. Len(buf) \cup {None}
  /\ index \in [Keys -> Puts \cup {None}]
  /\ pc \in [Puts -> {"new", "append", "insert", "done", "lost"}]
  /\ open \in BOOLEAN /\ opens \in 1 .. MaxOpens
  /\ before \in [Puts -> SUBSET Puts] /\ acked \subseteq Puts

Init ==
  /\ file = <<>> /\ buf = <<>> /\ spans = <<>> /\ cap \in Caps
  /\ flushed = None
  /\ index = [k \in Keys |-> None]
  /\ pc = [p \in Puts |-> "new"]
  /\ open = TRUE /\ opens = 1
  /\ before = [p \in Puts |-> {}] /\ acked = {}

At(p, l) == open /\ pc[p] = l
Goto(p, l) == pc' = [pc EXCEPT ![p] = l]

-----------------------------------------------------------------------------
(* put and delete                                                          *)

Put(p) ==
  /\ At(p, "new")
  /\ before' = [before EXCEPT ![p] = {q \in Puts : pc[q] \in {"done", "lost"}}]
  /\ Goto(p, "append")
  /\ UNCHANGED <<log, file, flushed, index, open, opens, acked>>

\* The frame fits.  Mutant: no test.
Fits_Always(p) == TRUE
Fits(p) == Len(buf) + FrameLen[p] <= cap

\* MappedLog::append under the mutex.  A frame that does not fit is not
\* appended, and put does not look at the result.
AppendFrame(p) ==
  /\ At(p, "append") /\ flushed = None
  /\ IF Fits(p)
       THEN /\ buf' = buf \o Frame(p)
            /\ spans' = spans \o <<<<Len(buf) + 1, FrameLen[p]>>>>
       ELSE UNCHANGED <<buf, spans>>
  /\ Goto(p, "insert")
  /\ UNCHANGED <<cap, file, flushed, index, open, opens, history>>

\* The value of the key afterwards; mutant: a key that is present keeps its value.
Inserted_IfAbsent(old, p) == IF old = None THEN p ELSE old
Inserted(old, p) == p

Insert(p) ==
  /\ At(p, "insert")
  /\ index' = [index EXCEPT ![KeyOf[p]] = Inserted(@, p)]
  /\ Goto(p, "done")
  /\ UNCHANGED <<log, file, flushed, open, opens, history>>

\* Nothing is logged.
Delete(k) ==
  /\ open /\ index[k] # None
  /\ index' = [index EXCEPT ![k] = None]
  /\ UNCHANGED <<log, file, flushed, pc, open, opens, history>>

-----------------------------------------------------------------------------
(* flush                                                                   *)

\* Takes the mutex and seeks to the start of the file.
Flush ==
  /\ open /\ flushed = None
  /\ flushed' = 0
  /\ UNCHANGED <<log, file, index, pc, open, opens, history>>

\* The file when the first n bytes of the log have been written from its start on.
\* Mutant: flush does not seek, and writes behind what the file holds.
WrittenUpTo_AtEnd(n) == file \o SubSeq(buf, flushed + 1, n)
WrittenUpTo(n) == SubSeq(buf, 1, n) \o SubSeq(file, n + 1, Len(file))

\* write_all writes some of what is left, over what the file has there.
WriteSome ==
  /\ open /\ flushed # None
  /\ \E n \in flushed + 1 .. Len(buf) :
       /\ file' = WrittenUpTo(n)
       /\ flushed' = n
  /\ UNCHANGED <<log, index, pc, open, opens, history>>

\* Mutant: one write, however much of the prefix it took, is enough.
AllWritten_Short == TRUE
AllWritten == flushed = Len(buf)

\* All is written: flush returns Ok and releases the mutex.
FlushOk ==
  /\ open /\ flushed # None /\ AllWritten
  /\ flushed' = None
  /\ acked' = acked \cup {p \in Puts : Holds(buf, p)}
  /\ UNCHANGED <<log, file, index, pc, open, opens, before>>

\* A write fails: what was written stays, and the mutex is released.
FlushErr ==
  /\ open /\ flushed # None /\ flushed < Len(buf)
  /\ flushed' = None
  /\ UNCHANGED <<log, file, index, pc, open, opens, history>>

-----------------------------------------------------------------------------
(* The process ends, by a crash or by dropping the store, which does not   *)
(* flush; and opens the log again.                                         *)

Stop ==
  /\ open /\ opens < MaxOpens
  /\ open' = FALSE
  /\ buf' = <<>> /\ spans' = <<>> /\ flushed' = None
  /\ index' = [k \in Keys |-> None]
  /\ pc' = [p \in Puts |-> IF pc[p] = "new" THEN "new" ELSE "lost"]
  /\ UNCHANGED <<cap, file, opens, history>>

\* Mutant: the log's cursor starts at 0, whatever the file holds.
Loaded_Nothing(c) == <<>>
Loaded(c) == SubSeq(file, 1, IF Len(file) < c THEN Len(file) ELSE c)

\* Loads as much of the file as fits.  Nothing is replayed into the index.
Open(c) ==
  /\ ~open
  /\ open' = TRUE /\ opens' = opens + 1
  /\ cap' = c
  /\ buf' = Loaded(c)
  /\ spans' = <<>>
  /\ UNCHANGED <<file, flushed, index, pc, history>>

Next ==
  \/ \E p \in Puts : Put(p) \/ AppendFrame(p) \/ Insert(p)
  \/ \E k \in Keys : Delete(k)
  \/ Flush \/ WriteSome \/ FlushOk \/ FlushErr
  \/ Stop
  \/ \E c \in Caps : Open(c)

Spec == Init /\ [][Next]_vars

-----------------------------------------------------------------------------
(* Properties                                                              *)

\* What reached the file is never changed or cut off again, by no flush, crash
\* or reopening ("never clobber on open"), a smaller capacity included: a flush
\* rewrites the file from its start, so the mapped log must agree with it.
FileOnlyGrows == [][IsPrefix(file, file')]_vars

\* A frame that was in the log when a flush returned Ok is in the file, whole,
\* from then on, whatever happens later.
FlushedStays == \A p \in acked : Holds(file, p)

\* The place k of the file ends a piece of a frame that does not go on behind it.
TornAt(k) ==
  \E p \in Puts : \E j \in 1 .. FrameLen[p] - 1 :
    file[k] = <<p, j>> /\ (k = Len(file) \/ file[k + 1] # <<p, j + 1>>)

\* The file is made of frames, each there once, from its first byte on and without a
\* gap.  Behind the last piece, which a flush that is under way or has failed may have
\* cut short, all are whole but for one for each time the process ended: a torn frame
\* stays where it is when the log is opened again and goes on behind it, but flushes
\* that fail and are called again tear none.
FramesWhole ==
  /\ \A j, k \in 1 .. Len(file) : file[j] = file[k] => j = k
  /\ \A k \in 1 .. Len(file) : LET b == file[k] IN
       b[2] > 1 => k > 1 /\ file[k - 1] = <<b[1], b[2] - 1>>
  /\ Cardinality({k \in 1 .. Len(file) - 1 : TornAt(k)}) < opens

\* A put that started after another had returned comes after it in the log, across
\* crashes and reopenings, and is never overwritten by it in the index: log and index
\* can disagree on which put of a key was the last one only if the two overlapped.
LogOrder ==
  open => \A q \in Puts : \A r \in before[q] :
    /\ Holds(buf, q) /\ Holds(buf, r) => Position(buf, r) < Position(buf, q)
    /\ pc[q] = "done" /\ KeyOf[r] = KeyOf[q] => index[KeyOf[q]] # r
=============================================================================
