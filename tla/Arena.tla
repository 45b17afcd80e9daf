------------------------------- MODULE Arena -------------------------------
(***************************************************************************)
(* The bump allocator of arena.rs.  Addresses are offsets from Base.  The  *)
(* load of head and every compare_exchange_weak of the loop of alloc_raw   *)
(* are steps; a weak compare_exchange may fail although head is cur.       *)
(* reset, unsafe and called by nobody, is left out.                        *)
(***************************************************************************)
EXTENDS Integers

CONSTANTS
  Threads,
  Base,     \* address of the block
  Cap,      \* cap
  Sizes,    \* the sizes that are asked for
  Aligns    \* the alignments that are asked for

ASSUME ArenaAssumption ==
  /\ Base \in Nat /\ Cap \in Nat \ {0}
  /\ Sizes \subseteq Nat /\ Aligns \subseteq Nat \ {0}

VARIABLES
  head,     \* Arena::head
  alloc,    \* the alloc_raw of a thread: label, cur, size, align, result
  handed    \* history: how often a byte was handed out

arenaVars == <<head, alloc, handed>>

Bytes == 0 .. Cap - 1

\* No alloc_raw under way.  st is "load" or "cas" in the loop, "ok" or "none" when
\* it has returned.
NoAlloc == [st |-> "idle", cur |-> 0, size |-> 0, align |-> 1, ptr |-> 0]
Allocs == [st : {"idle", "load", "cas", "ok", "none"}, cur : 0 .. Cap, size : Sizes \cup {0},
           align : Aligns \cup {1}, ptr : 0 .. Cap]

ArenaInit ==
  /\ head = 0
  /\ alloc = [t \in Threads |-> NoAlloc]
  /\ handed = [b \in Bytes |-> 0]

\* The next multiple of align, of an address.
AlignUp(a, align) == ((a + align - 1) \div align) * align

\* Where a chunk that starts at or after cur lies, and the head after it.
Aligned(v) == AlignUp(Base + v.cur, v.align) - Base
NewHead(v) == Aligned(v) + v.size

\* The entry of alloc_raw: nothing to allocate, or on to the loop.
AllocRaw(t, size, align) ==
  /\ alloc[t].st \notin {"load", "cas"}
  /\ alloc' = [alloc EXCEPT ![t] = [NoAlloc EXCEPT !.st = IF size = 0 THEN "ok" ELSE "load",
                                                  !.size = size, !.align = align]]
  /\ UNCHANGED <<head, handed>>

LoadHead(t) ==
  /\ alloc[t].st = "load"
  /\ alloc' = [alloc EXCEPT ![t].st = "cas", ![t].cur = head]
  /\ UNCHANGED <<head, handed>>

\* Mutant: the last byte is given away twice over.
Exhausted_OffByOne(v) == NewHead(v) > Cap + 1
Exhausted(v) == NewHead(v) > Cap

AllocNone(t) ==
  /\ alloc[t].st = "cas" /\ Exhausted(alloc[t])
  /\ alloc' = [alloc EXCEPT ![t] = [NoAlloc EXCEPT !.st = "none"]]
  /\ UNCHANGED <<head, handed>>

\* The compare_exchange of head; mutant: a plain store.
HeadIs_Store(cur) == TRUE
HeadIs(cur) == head = cur

Reserve(t) ==
  LET v == alloc[t]
  IN  /\ v.st = "cas" /\ ~Exhausted(v) /\ HeadIs(v.cur)
      /\ head' = NewHead(v)
      /\ handed' = [b \in Bytes |-> IF Aligned(v) <= b /\ b < NewHead(v) THEN handed[b] + 1
                                    ELSE handed[b]]
      /\ alloc' = [alloc EXCEPT ![t] = [NoAlloc EXCEPT !.st = "ok", !.size = v.size,
                                                      !.ptr = Aligned(v)]]

\* The compare_exchange fails, perhaps spuriously: cur = actual.
ReserveFails(t) ==
  LET v == alloc[t]
  IN  /\ v.st = "cas" /\ ~Exhausted(v)
      /\ alloc' = [alloc EXCEPT ![t].cur = head]
      /\ UNCHANGED <<head, handed>>

\* The caller has taken the result.
AllocDone(t) ==
  /\ alloc[t].st \in {"ok", "none"}
  /\ alloc' = [alloc EXCEPT ![t] = NoAlloc]
  /\ UNCHANGED <<head, handed>>

AllocLoop(t) == LoadHead(t) \/ AllocNone(t) \/ Reserve(t) \/ ReserveFails(t)

ArenaNext ==
  \E t \in Threads :
    AllocLoop(t) \/ AllocDone(t) \/ \E s \in Sizes, a \in Aligns : AllocRaw(t, s, a)

ArenaSpec == ArenaInit /\ [][ArenaNext]_arenaVars

-----------------------------------------------------------------------------
ArenaTypeOK ==
  /\ head \in 0 .. Cap
  /\ alloc \in [Threads -> Allocs]
  /\ handed \in [Bytes -> Nat]

\* "Returned pointers never overlap (each gets a disjoint `[off, off+size)`)": no byte
\* is in two regions that alloc_raw has returned, and the bytes from head on are in none.
RegionsDisjoint ==
  /\ \A b \in Bytes : handed[b] <= 1
  /\ \A b \in Bytes : b >= head => handed[b] = 0
=============================================================================
