------------------------------- MODULE RegBuf -------------------------------
(***************************************************************************)
(* The pool of registered buffers of regbuf.rs and the positional read     *)
(* into one of them.  acquire and release are single steps under the mutex *)
(* of the free list; acquire returns None, and changes nothing, when the   *)
(* list is empty.  A positional read may return fewer bytes than asked     *)
(* for, and none at the end of the file.                                   *)
(***************************************************************************)
EXTENDS Naturals, Sequences

CONSTANTS
  Clients,    \* threads that share the pool
  Count,      \* count
  BufLen,     \* buf_len
  File,       \* the bytes of the file
  NoBuf       \* no buffer is held

ASSUME RegBufAssumption ==
  Count \in Nat \ {0} /\ BufLen \in Nat /\ File \in Seq(Nat) /\ NoBuf \notin Nat

VARIABLES
  free,    \* RegisteredBuffers::free
  slab,    \* the bytes of every buffer
  held,    \* the FixedBuf of a thread
  got,     \* the count its last read_fixed returned
  view     \* history: its whole buffer, as it got it and as its own reads changed it

poolVars == <<free, slab, held, got, view>>

Indexes == 0 .. Count - 1

\* register: a zeroed slab, all indexes free.
PoolInit ==
  /\ free = [i \in 1 .. Count |-> i - 1]
  /\ slab = [b \in Indexes |-> [i \in 1 .. BufLen |-> 0]]
  /\ held = [t \in Clients |-> NoBuf]
  /\ got = [t \in Clients |-> 0]
  /\ view = [t \in Clients |-> <<>>]

\* pop of the free list; mutant: the index stays in it.
Popped_Stays == free
Popped == SubSeq(free, 1, Len(free) - 1)

Acquire(t) ==
  /\ held[t] = NoBuf /\ free # <<>>
  /\ held' = [held EXCEPT ![t] = free[Len(free)]]
  /\ free' = Popped
  /\ view' = [view EXCEPT ![t] = slab[free[Len(free)]]]
  /\ UNCHANGED <<slab, got>>

Least(a, b) == IF a < b THEN a ELSE b

\* A buffer after n bytes of the file have arrived at its start.
Filled(bytes, off, n) == [i \in 1 .. BufLen |-> IF i <= n THEN File[off + i] ELSE bytes[i]]

\* read_fixed at offset off: n bytes arrive, at most what is asked for, what the
\* buffer takes and what the file has.
ReadFixed(t, off, len, n) ==
  /\ held[t] # NoBuf
  /\ n <= Least(len, BufLen) /\ off + n <= Len(File)
  /\ slab' = [slab EXCEPT ![held[t]] = Filled(@, off, n)]
  /\ got' = [got EXCEPT ![t] = n]
  /\ view' = [view EXCEPT ![t] = Filled(@, off, n)]
  /\ UNCHANGED <<free, held>>

\* Drop for FixedBuf: release.
Release(t) ==
  /\ held[t] # NoBuf
  /\ free' = Append(free, held[t])
  /\ held' = [held EXCEPT ![t] = NoBuf]
  /\ got' = [got EXCEPT ![t] = 0]
  /\ view' = [view EXCEPT ![t] = <<>>]
  /\ UNCHANGED slab

\* as_slice()[..n]
AsSlice(t) == SubSeq(slab[held[t]], 1, got[t])

-----------------------------------------------------------------------------
\* "While this handle lives the buffer is checked out: its bytes are stable and it
\* will not be re-handed-out": a holder finds in every byte of its buffer what its own
\* reads put there or, behind a short read, what it found when it got the buffer; no
\* buffer has two holders, and none is lost: it is free or held.
BuffersStable ==
  /\ \A t \in Clients : held[t] # NoBuf => slab[held[t]] = view[t]
  /\ \A t, u \in Clients : held[t] = held[u] /\ held[t] # NoBuf => t = u
  /\ \A b \in Indexes : (\E i \in DOMAIN free : free[i] = b) # (\E t \in Clients : held[t] = b)
=============================================================================
