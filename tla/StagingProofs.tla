---------------------------- MODULE StagingProofs ---------------------------
(***************************************************************************)
(* Two ways to hand out pieces of one block of memory: alloc_raw hands out *)
(* disjoint regions and the pool of registered buffers hands a buffer to   *)
(* one holder at a time, for any number of threads, any capacity, sizes,   *)
(* alignments and buffers; both also when Staging uses them together.      *)
(***************************************************************************)
EXTENDS Staging, SequenceTheorems, TLAPS

AllocRecs == [st : {"idle", "load", "cas", "ok", "none"}, cur : Nat, size : Nat,
              align : Nat \ {0}, ptr : Nat]

\* The bytes from head on are free: that is what makes the next region disjoint.
ArenaInv ==
  /\ head \in 0 .. Cap
  /\ handed \in [Bytes -> Nat]
  /\ alloc \in [Threads -> AllocRecs]
  /\ RegionsDisjoint

\* Rounding up to a multiple never goes down.
LEMMA AlignUpGrows ==
  ASSUME NEW a \in Nat, NEW n \in Nat \ {0}
  PROVE  AlignUp(a, n) \in Nat /\ AlignUp(a, n) >= a
<1> DEFINE q == (a + n - 1) \div n
<1>1. q \in Int /\ a + n - 1 = n * q + ((a + n - 1) % n) /\ (a + n - 1) % n \in 0 .. n - 1
  OBVIOUS
<1>2. n * q >= a /\ n * q \in Int /\ n * q = q * n
  BY <1>1
<1> QED
  BY <1>2 DEF AlignUp

LEMMA AlignedGrows ==
  ASSUME NEW v \in AllocRecs
  PROVE  Aligned(v) \in Nat /\ Aligned(v) >= v.cur /\ NewHead(v) = Aligned(v) + v.size
<1>1. v.cur \in Nat /\ v.align \in Nat \ {0} /\ Base \in Nat
  BY ArenaAssumption DEF AllocRecs
<1>2. /\ AlignUp(Base + v.cur, v.align) \in Nat
      /\ AlignUp(Base + v.cur, v.align) >= Base + v.cur
  BY <1>1, AlignUpGrows
<1> QED
  BY <1>1, <1>2 DEF Aligned, NewHead

LEMMA ArenaInitInv == ArenaInit => ArenaInv
BY ArenaAssumption DEF ArenaInit, ArenaInv, RegionsDisjoint, NoAlloc, AllocRecs, Bytes

LEMMA AllocRawInv ==
  ASSUME ArenaInv, NEW t \in Threads, NEW s \in Nat, NEW a \in Nat \ {0}, AllocRaw(t, s, a)
  PROVE  ArenaInv'
BY Zenon DEF ArenaInv, AllocRaw, RegionsDisjoint, NoAlloc, AllocRecs

LEMMA Reserved ==
  ASSUME NEW n \in Nat, NEW p \in Nat
  PROVE  [NoAlloc EXCEPT !.st = "ok", !.size = n, !.ptr = p] \in AllocRecs
<1>1. NoAlloc \in AllocRecs
  BY DEF NoAlloc, AllocRecs
<1> QED
  BY <1>1, Zenon DEF AllocRecs

LEMMA ReserveInv ==
  ASSUME ArenaInv, NEW t \in Threads, Reserve(t)
  PROVE  ArenaInv'
<1> DEFINE v == alloc[t]
<1>1. v \in AllocRecs
  BY DEF ArenaInv
<1>2. /\ Aligned(v) \in Nat /\ NewHead(v) \in Nat
      /\ head <= Aligned(v) /\ Aligned(v) <= NewHead(v) /\ NewHead(v) <= Cap
  BY <1>1, AlignedGrows, ArenaAssumption DEF Reserve, Exhausted, HeadIs, AllocRecs
<1>3. /\ head' = NewHead(v)
      /\ handed' = [b \in Bytes |-> IF Aligned(v) <= b /\ b < NewHead(v) THEN handed[b] + 1
                                    ELSE handed[b]]
  BY DEF Reserve
<1>4. alloc' \in [Threads -> AllocRecs]
  <2>1. [NoAlloc EXCEPT !.st = "ok", !.size = v.size, !.ptr = Aligned(v)] \in AllocRecs
    <3>1. v.size \in Nat /\ Aligned(v) \in Nat
      BY <1>1, <1>2 DEF AllocRecs
    <3> QED
      BY <3>1, Reserved, Zenon
  <2> QED
    BY <2>1 DEF Reserve, ArenaInv
<1>5. head' \in 0 .. Cap /\ handed' \in [Bytes -> Nat]
  BY <1>2, <1>3, ArenaAssumption DEF ArenaInv, Bytes
<1>6. RegionsDisjoint'
  BY <1>2, <1>3, ArenaAssumption DEF ArenaInv, RegionsDisjoint, Bytes
<1> QED
  BY <1>4, <1>5, <1>6 DEF ArenaInv

\* The other steps of the loop leave the regions alone.
LEMMA AllocLoopInv ==
  ASSUME ArenaInv, NEW t \in Threads, AllocLoop(t) \/ AllocDone(t)
  PROVE  ArenaInv'
<1>1. CASE Reserve(t)
  BY <1>1, ReserveInv
<1>2. CASE LoadHead(t) \/ AllocNone(t) \/ ReserveFails(t) \/ AllocDone(t)
  <2>1. UNCHANGED <<head, handed>>
    BY <1>2 DEF LoadHead, AllocNone, ReserveFails, AllocDone
  <2>2. head \in Nat
    BY ArenaAssumption DEF ArenaInv
  <2>3. alloc' \in [Threads -> AllocRecs]
    BY <1>2, <2>2 DEF LoadHead, AllocNone, ReserveFails, AllocDone, ArenaInv, AllocRecs, NoAlloc
  <2> QED
    BY <2>1, <2>3 DEF ArenaInv, RegionsDisjoint
<1> QED
  BY <1>1, <1>2 DEF AllocLoop

\* alloc_raw, called by any threads with any sizes and alignments: "Returned pointers
\* never overlap".
THEOREM ArenaDisjoint == ArenaSpec => []RegionsDisjoint
<1>1. ArenaInv /\ [ArenaNext]_arenaVars => ArenaInv'
  <2> SUFFICES ASSUME ArenaInv, [ArenaNext]_arenaVars PROVE ArenaInv'
    OBVIOUS
  <2>1. CASE UNCHANGED arenaVars
    BY <2>1 DEF arenaVars, ArenaInv, RegionsDisjoint
  <2>2. ASSUME NEW t \in Threads, AllocLoop(t) \/ AllocDone(t) PROVE ArenaInv'
    BY <2>2, AllocLoopInv
  <2>3. ASSUME NEW t \in Threads, NEW s \in Sizes, NEW a \in Aligns, AllocRaw(t, s, a)
        PROVE  ArenaInv'
    BY <2>3, AllocRawInv, ArenaAssumption
  <2> QED
    BY <2>1, <2>2, <2>3 DEF ArenaNext
<1>2. ArenaInv => RegionsDisjoint
  BY DEF ArenaInv
<1> QED
  BY ArenaInitInv, <1>1, <1>2, PTL DEF ArenaSpec

-----------------------------------------------------------------------------
(* The pool                                                                *)

PoolInv ==
  /\ free \in Seq(Indexes)
  /\ slab \in [Indexes -> Seq(Nat)] /\ \A b \in Indexes : Len(slab[b]) = BufLen
  /\ held \in [Clients -> Indexes \cup {NoBuf}]
  /\ got \in [Clients -> 0 .. BufLen]
  /\ view \in [Clients -> Seq(Nat)]
  /\ \A i, j \in 1 .. Len(free) : free[i] = free[j] => i = j
  /\ BuffersStable

LEMMA NoBufNotIndex == NoBuf \notin Indexes /\ Indexes \subseteq Nat
BY RegBufAssumption DEF Indexes

LEMMA AcquireInv ==
  ASSUME PoolInv, NEW t \in Clients, Acquire(t)
  PROVE  PoolInv'
<1> DEFINE n == Len(free)
<1>1. n \in Nat \ {0} /\ DOMAIN free = 1 .. n /\ \A i \in 1 .. n : free[i] \in Indexes
  BY LenProperties, EmptySeq, ElementOfSeq DEF PoolInv, Acquire
<1>2. /\ free' \in Seq(Indexes) /\ Len(free') = n - 1 /\ DOMAIN free' = 1 .. n - 1
      /\ \A i \in 1 .. n - 1 : free'[i] = free[i]
  <2>1. free' = SubSeq(free, 1, n - 1)
    BY DEF Acquire, Popped
  <2>2. \A i \in 1 .. n - 1 : free[i] \in Indexes
    BY <1>1
  <2>3. /\ free' \in Seq(Indexes) /\ Len(free') = n - 1
        /\ \A i \in 1 .. n - 1 : free'[i] = free[i]
    BY <1>1, <2>1, <2>2, SubSeqProperties
  <2> QED
    BY <2>3, LenProperties
<1>3. /\ held[t] = NoBuf /\ held' = [held EXCEPT ![t] = free[n]]
      /\ view' = [view EXCEPT ![t] = slab[free[n]]] /\ UNCHANGED <<slab, got>>
  BY DEF Acquire
<1>4. /\ held' \in [Clients -> Indexes \cup {NoBuf}]
      /\ view' \in [Clients -> Seq(Nat)]
  BY <1>1, <1>3 DEF PoolInv
<1>5. \A u \in Clients : held[u] # free[n]
  <2>1. free[n] \in Indexes /\ \E i \in DOMAIN free : free[i] = free[n]
    BY <1>1
  <2>2. \A b \in Indexes : (\E i \in DOMAIN free : free[i] = b) # (\E u \in Clients : held[u] = b)
    BY Zenon DEF PoolInv, BuffersStable
  <2>3. (\E i \in DOMAIN free : free[i] = free[n]) # (\E u \in Clients : held[u] = free[n])
    BY <2>1, <2>2, Zenon
  <2> QED
    BY <2>1, <2>3, Zenon
<1>6. \A i, j \in 1 .. Len(free') : free'[i] = free'[j] => i = j
  BY <1>1, <1>2 DEF PoolInv
<1>7. \A u, w \in Clients : held'[u] = held'[w] /\ held'[u] # NoBuf => u = w
  BY <1>3, <1>5 DEF PoolInv, BuffersStable
<1>8. \A u \in Clients : held'[u] # NoBuf => slab'[held'[u]] = view'[u]
  BY <1>3 DEF PoolInv, BuffersStable
<1>9. \A b \in Indexes : (\E i \in DOMAIN free' : free'[i] = b)
                           # (\E u \in Clients : held'[u] = b)
  <2> SUFFICES ASSUME NEW b \in Indexes
               PROVE  (\E i \in DOMAIN free' : free'[i] = b) # (\E u \in Clients : held'[u] = b)
    OBVIOUS
  <2>0. (\E i \in DOMAIN free : free[i] = b) # (\E u \in Clients : held[u] = b)
    BY Zenon DEF PoolInv, BuffersStable
  <2>1. CASE b = free[n]
    <3>1. held'[t] = b
      BY <1>3, <2>1 DEF PoolInv
    <3>2. \A i \in DOMAIN free' : free'[i] # b
      <4>1. \A i, j \in 1 .. n : free[i] = free[j] => i = j
        BY DEF PoolInv
      <4>2. \A i \in 1 .. n - 1 : free[i] # free[n]
        BY <1>1, <4>1
      <4> QED
        BY <1>2, <2>1, <4>2
    <3> QED
      BY <3>1, <3>2
  <2>2. CASE b # free[n]
    <3>1. (\E i \in DOMAIN free' : free'[i] = b) <=> (\E i \in DOMAIN free : free[i] = b)
      BY <1>1, <1>2, <2>2
    <3>2. (\E u \in Clients : held'[u] = b) <=> (\E u \in Clients : held[u] = b)
      BY <1>3, <2>2, NoBufNotIndex DEF PoolInv
    <3> QED
      BY <2>0, <3>1, <3>2
  <2> QED
    BY <2>1, <2>2
<1> QED
  BY <1>2, <1>3, <1>4, <1>6, <1>7, <1>8, <1>9, Zenon DEF PoolInv, BuffersStable

LEMMA ReleaseInv ==
  ASSUME PoolInv, NEW t \in Clients, Release(t)
  PROVE  PoolInv'
<1> DEFINE n == Len(free)
<1>1. /\ n \in Nat /\ DOMAIN free = 1 .. n /\ \A i \in 1 .. n : free[i] \in Indexes
      /\ held[t] \in Indexes
  BY LenProperties, ElementOfSeq DEF PoolInv, Release
<1>2. /\ free' \in Seq(Indexes) /\ Len(free') = n + 1 /\ DOMAIN free' = 1 .. n + 1
      /\ \A i \in 1 .. n : free'[i] = free[i]
      /\ free'[n + 1] = held[t]
  <2>1. free' = Append(free, held[t]) /\ free \in Seq(Indexes)
    BY DEF Release, PoolInv
  <2>2. /\ free' \in Seq(Indexes) /\ Len(free') = n + 1
        /\ \A i \in 1 .. n : free'[i] = free[i]
        /\ free'[n + 1] = held[t]
    BY <1>1, <2>1, AppendProperties
  <2> QED
    BY <2>2, LenProperties
<1>3. /\ held' = [held EXCEPT ![t] = NoBuf] /\ got' = [got EXCEPT ![t] = 0]
      /\ view' = [view EXCEPT ![t] = <<>>] /\ UNCHANGED slab
  BY DEF Release
<1>4. \A i \in 1 .. n : free[i] # held[t]
  BY <1>1, Zenon DEF PoolInv, BuffersStable
<1>5. /\ held' \in [Clients -> Indexes \cup {NoBuf}] /\ got' \in [Clients -> 0 .. BufLen]
      /\ view' \in [Clients -> Seq(Nat)]
  <2>1. 0 \in 0 .. BufLen /\ <<>> \in Seq(Nat)
    BY RegBufAssumption
  <2> QED
    BY <1>3, <2>1 DEF PoolInv
<1>6. \A i, j \in 1 .. Len(free') : free'[i] = free'[j] => i = j
  <2>1. \A i, j \in 1 .. n : free[i] = free[j] => i = j
    BY DEF PoolInv
  <2>2. \A i \in 1 .. n + 1 : i \in 1 .. n \/ i = n + 1
    BY <1>1
  <2> HIDE DEF n
  <2> QED
    BY <1>2, <1>4, <2>1, <2>2
<1>7. \A u, w \in Clients : held'[u] = held'[w] /\ held'[u] # NoBuf => u = w
  BY <1>3 DEF PoolInv, BuffersStable
<1>8. \A u \in Clients : held'[u] # NoBuf => slab'[held'[u]] = view'[u]
  BY <1>3 DEF PoolInv, BuffersStable
<1>9. \A b \in Indexes : (\E i \in DOMAIN free' : free'[i] = b)
                           # (\E u \in Clients : held'[u] = b)
  <2> SUFFICES ASSUME NEW b \in Indexes
               PROVE  (\E i \in DOMAIN free' : free'[i] = b) # (\E u \in Clients : held'[u] = b)
    OBVIOUS
  <2>0. (\E i \in DOMAIN free : free[i] = b) # (\E u \in Clients : held[u] = b)
    BY Zenon DEF PoolInv, BuffersStable
  <2>1. CASE b = held[t]
    <3>1. n + 1 \in DOMAIN free' /\ free'[n + 1] = b
      BY <1>1, <1>2, <2>1
    <3>2. \A u \in Clients : held'[u] # b
      BY <1>1, <1>3, <2>1, NoBufNotIndex DEF PoolInv, BuffersStable
    <3> QED
      BY <3>1, <3>2
  <2>2. CASE b # held[t]
    <3>1. (\E i \in DOMAIN free' : free'[i] = b) <=> (\E i \in DOMAIN free : free[i] = b)
      BY <1>1, <1>2, <2>2
    <3>2. (\E u \in Clients : held'[u] = b) <=> (\E u \in Clients : held[u] = b)
      BY <1>3, <2>2, NoBufNotIndex DEF PoolInv
    <3> QED
      BY <2>0, <3>1, <3>2
  <2> QED
    BY <2>1, <2>2
<1> QED
  BY <1>2, <1>3, <1>5, <1>6, <1>7, <1>8, <1>9, Zenon DEF PoolInv, BuffersStable

LEMMA FunctionIsSeq ==
  ASSUME NEW S, NEW m \in Nat, NEW f \in [1 .. m -> S]
  PROVE  f \in Seq(S) /\ Len(f) = m
<1>1. f \in Seq(S)
  BY SeqDef
<1> QED
  BY <1>1, LenProperties

LEMMA PoolInitInv == PoolInit => PoolInv
<1> SUFFICES ASSUME PoolInit PROVE PoolInv
  OBVIOUS
<1>1. /\ free \in Seq(Indexes) /\ Len(free) = Count /\ DOMAIN free = 1 .. Count
      /\ \A i \in 1 .. Count : free[i] = i - 1
  <2>1. free = [i \in 1 .. Count |-> i - 1] /\ Count \in Nat
    BY RegBufAssumption DEF PoolInit
  <2>2. free \in [1 .. Count -> Indexes]
    BY <2>1 DEF Indexes
  <2> QED
    BY <2>1, <2>2, FunctionIsSeq
<1>2. slab \in [Indexes -> Seq(Nat)] /\ \A b \in Indexes : Len(slab[b]) = BufLen
  <2>1. [i \in 1 .. BufLen |-> 0] \in [1 .. BufLen -> Nat] /\ BufLen \in Nat
    BY RegBufAssumption
  <2>2. /\ [i \in 1 .. BufLen |-> 0] \in Seq(Nat)
        /\ Len([i \in 1 .. BufLen |-> 0]) = BufLen
    BY <2>1, FunctionIsSeq
  <2> QED
    BY <2>2, Zenon DEF PoolInit
<1>3. /\ \A t \in Clients : held[t] = NoBuf
      /\ held \in [Clients -> Indexes \cup {NoBuf}]
      /\ got \in [Clients -> 0 .. BufLen] /\ view \in [Clients -> Seq(Nat)]
  <2>1. 0 \in 0 .. BufLen /\ <<>> \in Seq(Nat)
    BY RegBufAssumption
  <2> QED
    BY <2>1 DEF PoolInit
<1>4. \A b \in Indexes : (\E i \in DOMAIN free : free[i] = b) # (\E t \in Clients : held[t] = b)
  <2> SUFFICES ASSUME NEW b \in Indexes
               PROVE  (\E i \in DOMAIN free : free[i] = b) /\ (\A t \in Clients : held[t] # b)
    OBVIOUS
  <2>1. b + 1 \in DOMAIN free /\ free[b + 1] = b
    BY <1>1, RegBufAssumption DEF Indexes
  <2> QED
    BY <1>3, <2>1, NoBufNotIndex
<1>5. \A i, j \in 1 .. Len(free) : free[i] = free[j] => i = j
  BY <1>1, RegBufAssumption
<1> QED
  BY <1>1, <1>2, <1>3, <1>4, <1>5 DEF PoolInv, BuffersStable

\* The bytes of a buffer are bytes, before and after a read.
LEMMA FilledIsBuffer ==
  ASSUME NEW off \in Nat, NEW n \in Nat, off + n <= Len(File),
         NEW s \in Seq(Nat), Len(s) = BufLen
  PROVE  Filled(s, off, n) \in Seq(Nat) /\ Len(Filled(s, off, n)) = BufLen
<1>1. BufLen \in Nat /\ File \in Seq(Nat) /\ Len(File) \in Nat
  BY RegBufAssumption, LenProperties
<1>2. \A i \in 1 .. Len(File) : File[i] \in Nat
  BY <1>1, ElementOfSeq
<1>3. \A i \in 1 .. BufLen : s[i] \in Nat
  BY ElementOfSeq
<1>4. \A i \in 1 .. BufLen : i <= n => off + i \in 1 .. Len(File)
  BY <1>1
<1>5. \A i \in 1 .. BufLen : (IF i <= n THEN File[off + i] ELSE s[i]) \in Nat
  BY <1>2, <1>3, <1>4
<1>6. Filled(s, off, n) \in [1 .. BufLen -> Nat]
  BY <1>5 DEF Filled
<1> QED
  BY <1>1, <1>6, FunctionIsSeq

LEMMA ReadFixedInv ==
  ASSUME PoolInv, NEW t \in Clients, NEW off \in Nat, NEW len \in Nat, NEW n \in Nat,
         ReadFixed(t, off, len, n)
  PROVE  PoolInv'
<1> DEFINE h == held[t]
           new == Filled(slab[h], off, n)
<1>1. h \in Indexes /\ n <= BufLen /\ off + n <= Len(File)
  BY RegBufAssumption DEF PoolInv, ReadFixed, Least
<1>2. view[t] = slab[h] /\ \A u \in Clients : u # t => held[u] # h
  BY <1>1, NoBufNotIndex DEF PoolInv, BuffersStable
<1>3. /\ slab' = [slab EXCEPT ![h] = new] /\ got' = [got EXCEPT ![t] = n]
      /\ view' = [view EXCEPT ![t] = new]
      /\ UNCHANGED <<free, held>>
  BY <1>2 DEF ReadFixed, PoolInv
<1>4. new \in Seq(Nat) /\ Len(new) = BufLen
  BY <1>1, FilledIsBuffer DEF PoolInv
<1> HIDE DEF new
<1>5. /\ slab' \in [Indexes -> Seq(Nat)] /\ (\A b \in Indexes : Len(slab'[b]) = BufLen)
      /\ view' \in [Clients -> Seq(Nat)]
  BY <1>1, <1>3, <1>4, Zenon DEF PoolInv
<1>6. got' \in [Clients -> 0 .. BufLen]
  BY <1>1, <1>3 DEF PoolInv
<1>7. \A u \in Clients : held'[u] # NoBuf => slab'[held'[u]] = view'[u]
  <2> SUFFICES ASSUME NEW u \in Clients, held[u] # NoBuf
               PROVE  slab'[held[u]] = view'[u]
    BY <1>3
  <2>1. CASE u = t
    BY <1>1, <1>3, <2>1 DEF PoolInv
  <2>2. CASE u # t
    <3>1. held[u] # h /\ held[u] \in Indexes /\ slab[held[u]] = view[u]
      BY <1>2, <2>2 DEF PoolInv, BuffersStable
    <3> QED
      BY <1>3, <2>2, <3>1 DEF PoolInv
  <2> QED
    BY <2>1, <2>2
<1>8. /\ \A u, v \in Clients : held'[u] = held'[v] /\ held'[u] # NoBuf => u = v
      /\ \A b \in Indexes :
           (\E i \in DOMAIN free' : free'[i] = b) # (\E u \in Clients : held'[u] = b)
  BY <1>3, Zenon DEF PoolInv, BuffersStable
<1>9. BuffersStable'
  BY <1>7, <1>8, Zenon DEF BuffersStable, Indexes
<1>10. /\ free' \in Seq(Indexes) /\ held' \in [Clients -> Indexes \cup {NoBuf}]
       /\ \A i, j \in 1 .. Len(free') : free'[i] = free'[j] => i = j
  BY <1>3, Zenon DEF PoolInv
<1> QED
  BY <1>5, <1>6, <1>9, <1>10, Zenon DEF PoolInv, Indexes

-----------------------------------------------------------------------------
(* The two together                                                        *)

PutRecs == [pc : {"idle", "key", "val", "push"}, key : Seq(Nat), kp : Nat, vp : Nat]

\* A put that borrows a buffer runs while its thread holds one.
StagingInv ==
  /\ ArenaInv
  /\ PoolInv
  /\ put \in [Threads -> PutRecs]
  /\ src \in [Threads -> Seq(Nat) \cup {NoBuf}]
  /\ \A t \in Threads : src[t] = NoBuf => held[t] # NoBuf /\ put[t].pc # "idle"

LEMMA NoPutTyped == NoPut \in PutRecs /\ NoPut.pc = "idle" /\ <<>> \in Seq(Nat) /\ NoBuf # <<>>
<1>1. <<>> \in Seq(Nat)
  OBVIOUS
<1> QED
  BY <1>1, StagingAssumption, Zenon DEF NoPut, PutRecs

LEMMA StagingInit == Init => StagingInv
<1> SUFFICES ASSUME Init PROVE StagingInv
  OBVIOUS
<1>1. ArenaInv /\ PoolInv
  BY ArenaInitInv, PoolInitInv DEF Init
<1>2. put \in [Threads -> PutRecs]
  BY NoPutTyped DEF Init, KvInit
<1>3. src \in [Threads -> Seq(Nat) \cup {NoBuf}] /\ \A t \in Threads : src[t] # NoBuf
  BY NoPutTyped DEF Init
<1> QED
  BY <1>1, <1>2, <1>3 DEF StagingInv

LEMMA PoolUnchanged ==
  ASSUME PoolInv, UNCHANGED poolVars
  PROVE  PoolInv'
BY DEF PoolInv, BuffersStable, poolVars

LEMMA ArenaUnchanged ==
  ASSUME ArenaInv, UNCHANGED arenaVars
  PROVE  ArenaInv'
BY DEF ArenaInv, RegionsDisjoint, arenaVars

\* The bytes a put copies are bytes, wherever they come from.
LEMMA ValIsSeq ==
  ASSUME StagingInv, NEW t \in Threads
  PROVE  Val(t) \in Seq(Nat) /\ Len(Val(t)) \in Nat
<1>1. CASE src[t] # NoBuf
  BY <1>1, LenProperties DEF StagingInv, Val
<1>2. CASE src[t] = NoBuf
  <2> DEFINE s == slab[held[t]]
             n == got[t]
  <2>1. s \in Seq(Nat) /\ Len(s) = BufLen /\ n \in 0 .. BufLen /\ BufLen \in Nat
    BY <1>2, StagingAssumption, RegBufAssumption DEF StagingInv, PoolInv
  <2>2. Val(t) = SubSeq(s, 1, n)
    BY <1>2 DEF Val, AsSlice
  <2> HIDE DEF s, n
  <2>3. n \in Int /\ \A i \in 1 .. n : s[i] \in Nat
    BY <2>1, ElementOfSeq
  <2>4. SubSeq(s, 1, n) \in Seq(Nat)
    BY <2>3, SubSeqProperties
  <2> QED
    BY <2>2, <2>4, LenProperties
<1> QED
  BY <1>1, <1>2

LEMMA CallPutInv ==
  ASSUME StagingInv, NEW t \in Threads, CallPut(t)
  PROVE  StagingInv'
<1>1. PICK k \in Keys : Put(t, k)
  BY DEF CallPut
<1>2. k \in Seq(Nat) /\ Len(k) \in Nat
  BY StagingAssumption, LenProperties
<1>3. ArenaInv'
  <2>1. AllocRaw(t, Len(k), 1) /\ 1 \in Nat \ {0}
    BY <1>1 DEF Put
  <2> QED
    BY <1>2, <2>1, AllocRawInv DEF StagingInv
<1>4. PoolInv' /\ held' = held
  BY PoolUnchanged DEF StagingInv, CallPut, poolVars
<1>5. /\ put' = [put EXCEPT ![t] = [NoPut EXCEPT !.pc = "key", !.key = k]]
      /\ [NoPut EXCEPT !.pc = "key", !.key = k] \in PutRecs
      /\ [NoPut EXCEPT !.pc = "key", !.key = k].pc # "idle"
  <2>1. NoPut \in PutRecs
    BY NoPutTyped
  <2>2. /\ [NoPut EXCEPT !.pc = "key", !.key = k] \in PutRecs
        /\ [NoPut EXCEPT !.pc = "key", !.key = k].pc # "idle"
    BY <1>2, <2>1, Zenon DEF PutRecs
  <2> QED
    BY <1>1, <2>2 DEF Put
<1>6. PICK s \in OwnVals \cup (IF held[t] = NoBuf THEN {} ELSE {NoBuf}) :
        src' = [src EXCEPT ![t] = s]
  BY Zenon DEF CallPut
<1>7. s \in Seq(Nat) \cup {NoBuf} /\ (s = NoBuf => held[t] # NoBuf)
  BY <1>6, StagingAssumption
<1> QED
  BY <1>3, <1>4, <1>5, <1>6, <1>7 DEF StagingInv

LEMMA InPutInv ==
  ASSUME StagingInv, NEW t \in Threads, InPut(t), UNCHANGED poolVars
  PROVE  StagingInv'
<1>1. PoolInv' /\ held' = held
  BY PoolUnchanged DEF StagingInv, poolVars
<1>2. CASE AllocLoop(t) /\ UNCHANGED <<kvVars, src>>
  BY <1>1, <1>2, AllocLoopInv DEF StagingInv, kvVars
<1>3. CASE CopyKey(t, Val(t)) /\ UNCHANGED src
  <2>1. AllocRaw(t, Len(Val(t)), 1)
    BY <1>3 DEF CopyKey
  <2>2. ArenaInv'
    BY <2>1, ValIsSeq, AllocRawInv DEF StagingInv
  <2>3. put' \in [Threads -> PutRecs] /\ \A u \in Threads : put'[u].pc = "idle" => put[u].pc = "idle"
    <3>1. alloc[t].ptr \in Nat
      BY DEF StagingInv, ArenaInv, AllocRecs
    <3>2. put' = [put EXCEPT ![t].pc = "val", ![t].kp = alloc[t].ptr]
      BY <1>3 DEF CopyKey
    <3>3. put \in [Threads -> PutRecs]
      BY DEF StagingInv
    <3> QED
      BY <3>1, <3>2, <3>3, Zenon DEF PutRecs
  <2> QED
    BY <1>1, <1>3, <2>2, <2>3 DEF StagingInv
<1>4. CASE CopyVal(t, Val(t)) /\ UNCHANGED src
  <2>1. ArenaInv'
    BY <1>4, AllocLoopInv DEF CopyVal, StagingInv
  <2>2. put' \in [Threads -> PutRecs] /\ \A u \in Threads : put'[u].pc = "idle" => put[u].pc = "idle"
    <3>1. alloc[t].ptr \in Nat
      BY DEF StagingInv, ArenaInv, AllocRecs
    <3>2. put' = [put EXCEPT ![t].pc = "push", ![t].vp = alloc[t].ptr]
      BY <1>4 DEF CopyVal
    <3>3. put \in [Threads -> PutRecs]
      BY DEF StagingInv
    <3> QED
      BY <3>1, <3>2, <3>3, Zenon DEF PutRecs
  <2> QED
    BY <1>1, <1>4, <2>1, <2>2 DEF StagingInv
<1>5. CASE (Push(t, Val(t)) \/ PutFails(t)) /\ src' = [src EXCEPT ![t] = <<>>]
  <2>1. ArenaInv'
    BY <1>5, AllocLoopInv, ArenaUnchanged, Zenon DEF Push, PutFails, StagingInv
  <2>2. put' = [put EXCEPT ![t] = NoPut]
    BY <1>5, Zenon DEF Push, PutFails
  <2> QED
    BY <1>1, <1>5, <2>1, <2>2, NoPutTyped DEF StagingInv
<1> QED
  BY <1>2, <1>3, <1>4, <1>5 DEF InPut

LEMMA PoolStepInv ==
  ASSUME StagingInv, NEW t \in Threads, PoolStep(t)
  PROVE  StagingInv'
<1>1. ArenaInv' /\ UNCHANGED <<put, src>> /\ put[t].pc = "idle"
  BY ArenaUnchanged DEF PoolStep, StagingInv, kvVars
<1>2. t \in Clients /\ PoolInv /\ Len(File) \in Nat /\ BufLen \in Nat
  BY StagingAssumption, RegBufAssumption, LenProperties DEF StagingInv
<1>3. PoolInv' /\ \A u \in Threads : u # t => held'[u] = held[u]
  <2>1. CASE Acquire(t)
    BY <1>2, <2>1, AcquireInv, StagingAssumption, Zenon DEF Acquire, PoolInv
  <2>2. CASE Release(t)
    BY <1>2, <2>2, ReleaseInv, StagingAssumption, Zenon DEF Release, PoolInv
  <2>3. ASSUME NEW off \in 0 .. Len(File), NEW n \in 0 .. Len(File), ReadFixed(t, off, BufLen, n)
        PROVE  PoolInv' /\ held' = held
    <3>1. off \in Nat /\ n \in Nat
      BY <1>2
    <3> QED
      BY <1>2, <2>3, <3>1, ReadFixedInv, Zenon DEF ReadFixed
  <2> QED
    BY <2>1, <2>2, <2>3 DEF PoolStep
<1>4. src[t] # NoBuf
  BY <1>1 DEF StagingInv
<1> QED
  BY <1>1, <1>3, <1>4, Zenon DEF StagingInv

LEMMA StagingStep == StagingInv /\ [Next]_vars => StagingInv'
<1> SUFFICES ASSUME StagingInv, [Next]_vars PROVE StagingInv'
  OBVIOUS
<1>1. CASE UNCHANGED vars
  BY <1>1, PoolUnchanged, ArenaUnchanged DEF vars, StagingInv, poolVars, kvVars
<1>2. ASSUME NEW t \in Threads, (\E k \in Keys : Get(t, k)) /\ UNCHANGED <<poolVars, src>>
      PROVE  StagingInv'
  BY <1>2, PoolUnchanged, ArenaUnchanged DEF Get, StagingInv, poolVars
<1> QED
  BY <1>1, <1>2, CallPutInv, InPutInv, PoolStepInv DEF Next

\* Threads that stage file contents through the pool into the arena, in any
\* interleaving: the regions alloc_raw returns are disjoint, and a FixedBuf has
\* one holder, and every byte of it is what that holder found or read into it, until it
\* is dropped.
THEOREM StagingSafe == Spec => [](RegionsDisjoint /\ BuffersStable)
<1>1. StagingInv => RegionsDisjoint /\ BuffersStable
  BY DEF StagingInv, ArenaInv, PoolInv
<1> QED
  BY StagingInit, StagingStep, <1>1, PTL DEF Spec
=============================================================================
