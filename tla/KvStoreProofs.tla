--------------------------- MODULE KvStoreProofs ---------------------------
(***************************************************************************)
(* Whatever flushes, write errors, crashes and reopenings with other       *)
(* capacities do, the backing file only grows and what a flush has         *)
(* acknowledged stays in it, for any puts, frame lengths and capacities.   *)
(***************************************************************************)
EXTENDS KvStore, SequenceTheorems, TLAPS

\* s is what the first Len(s) elements of t are.
Starts(s, t) == Len(s) <= Len(t) /\ \A i \in 1 .. Len(s) : s[i] = t[i]

\* The log in memory and the file agree as far as both reach, and only a log that is
\* full can be shorter than the file: that is why an append never puts bytes where the
\* file has others.
KvInv ==
  /\ buf \in Seq(Bytes) /\ file \in Seq(Bytes)
  /\ cap \in Nat /\ Len(buf) <= cap
  /\ ~open => buf = <<>> /\ flushed = None
  /\ flushed # None => flushed \in 0 .. Len(buf) /\ flushed <= Len(file)
  /\ \A i \in 1 .. Len(buf) : i <= Len(file) => buf[i] = file[i]
  /\ open /\ Len(file) > Len(buf) => Len(buf) = cap
  /\ acked \subseteq Puts /\ FlushedStays

-----------------------------------------------------------------------------
(* Sequences                                                               *)

LEMMA SubSeqOf ==
  ASSUME NEW S, NEW s \in Seq(S), NEW m \in Nat \ {0}, NEW n \in Nat, n <= Len(s), m <= n + 1
  PROVE  /\ SubSeq(s, m, n) \in Seq(S) /\ Len(SubSeq(s, m, n)) = n - m + 1
         /\ \A i \in 1 .. n - m + 1 : SubSeq(s, m, n)[i] = s[m + i - 1]
<1>1. Len(s) \in Nat /\ \A i \in 1 .. Len(s) : s[i] \in S
  BY LenProperties, ElementOfSeq
<1>2. \A i \in m .. n : s[i] \in S
  BY <1>1
<1>3. /\ SubSeq(s, m, n) \in Seq(S)
      /\ Len(SubSeq(s, m, n)) = IF m <= n THEN n - m + 1 ELSE 0
      /\ \A i \in 1 .. n - m + 1 : SubSeq(s, m, n)[i] = s[m + i - 1]
  BY <1>2, SubSeqProperties
<1> QED
  BY <1>3

LEMMA SameSubSeq ==
  ASSUME NEW S, NEW s \in Seq(S), NEW t \in Seq(S), Starts(s, t),
         NEW m \in Nat \ {0}, NEW n \in Nat, n <= Len(s), m <= n + 1
  PROVE  SubSeq(s, m, n) = SubSeq(t, m, n)
<1>1. Len(s) \in Nat /\ Len(t) \in Nat /\ n <= Len(t)
  BY LenProperties DEF Starts
<1>2. /\ SubSeq(s, m, n) \in Seq(S) /\ Len(SubSeq(s, m, n)) = n - m + 1
      /\ \A i \in 1 .. n - m + 1 : SubSeq(s, m, n)[i] = s[m + i - 1]
  BY SubSeqOf
<1>3. /\ SubSeq(t, m, n) \in Seq(S) /\ Len(SubSeq(t, m, n)) = n - m + 1
      /\ \A i \in 1 .. n - m + 1 : SubSeq(t, m, n)[i] = t[m + i - 1]
  BY <1>1, SubSeqOf
<1>4. \A i \in 1 .. n - m + 1 : s[m + i - 1] = t[m + i - 1]
  BY <1>1 DEF Starts
<1> QED
  BY <1>2, <1>3, <1>4, SeqEqual, Zenon

LEMMA StartsIsPrefix ==
  ASSUME NEW S, NEW s \in Seq(S), NEW t \in Seq(S), Starts(s, t)
  PROVE  IsPrefix(s, t)
<1>1. Len(s) \in Nat /\ 1 <= Len(s) + 1 /\ Len(s) <= Len(t)
  BY LenProperties DEF Starts
<1>2. SubSeq(s, 1, Len(s)) = SubSeq(t, 1, Len(s))
  BY <1>1, SameSubSeq
<1> QED
  BY <1>1, <1>2 DEF IsPrefix

\* n bytes of s over the start of f.
Over(s, f, n) == SubSeq(s, 1, n) \o SubSeq(f, n + 1, Len(f))

LEMMA Overwrite ==
  ASSUME NEW S, NEW s \in Seq(S), NEW f \in Seq(S), NEW n \in 0 .. Len(s)
  PROVE  /\ Over(s, f, n) \in Seq(S)
         /\ Len(Over(s, f, n)) = (IF n <= Len(f) THEN Len(f) ELSE n)
         /\ \A i \in 1 .. Len(Over(s, f, n)) :
              Over(s, f, n)[i] = IF i <= n THEN s[i] ELSE f[i]
<1> DEFINE a == SubSeq(s, 1, n)
           b == SubSeq(f, n + 1, Len(f))
<1>1. Len(s) \in Nat /\ Len(f) \in Nat /\ n \in Nat
  BY LenProperties
<1>2. /\ a \in Seq(S) /\ Len(a) = n
      /\ \A i \in 1 .. n : a[i] = s[i]
  <2>1. /\ SubSeq(s, 1, n) \in Seq(S) /\ Len(SubSeq(s, 1, n)) = n - 1 + 1
        /\ \A i \in 1 .. n - 1 + 1 : SubSeq(s, 1, n)[i] = s[1 + i - 1]
    BY <1>1, SubSeqOf
  <2> QED
    BY <1>1, <2>1
<1>3. /\ b \in Seq(S) /\ Len(b) = (IF n <= Len(f) THEN Len(f) - n ELSE 0)
      /\ \A i \in 1 .. Len(b) : b[i] = f[n + i]
  <2>1. CASE n <= Len(f)
    <3> DEFINE m == n + 1
    <3>1. m \in Nat \ {0} /\ m <= Len(f) + 1 /\ Len(f) - m + 1 = Len(f) - n
      BY <1>1, <2>1
    <3>2. /\ SubSeq(f, m, Len(f)) \in Seq(S) /\ Len(SubSeq(f, m, Len(f))) = Len(f) - m + 1
          /\ \A i \in 1 .. Len(f) - m + 1 : SubSeq(f, m, Len(f))[i] = f[m + i - 1]
      <4> HIDE DEF m
      <4> QED
        BY <1>1, <3>1, SubSeqOf
    <3>3. \A i \in 1 .. Len(f) - n : m + i - 1 = n + i
      BY <1>1
    <3> QED
      BY <2>1, <3>1, <3>2, <3>3
  <2>2. CASE n > Len(f)
    <3>1. b = <<>>
      BY <1>1, <2>2, SubSeqEmpty
    <3> QED
      BY <1>1, <2>2, <3>1, EmptySeq
  <2> QED
    BY <1>1, <2>1, <2>2
<1> HIDE DEF a, b
<1>4. /\ a \o b \in Seq(S) /\ Len(a \o b) = Len(a) + Len(b)
      /\ \A i \in 1 .. Len(a) + Len(b) : (a \o b)[i] = IF i <= Len(a) THEN a[i] ELSE b[i - Len(a)]
  BY <1>2, <1>3, ConcatProperties, Zenon
<1>5. Len(a \o b) = IF n <= Len(f) THEN Len(f) ELSE n
  BY <1>1, <1>2, <1>3, <1>4
<1>6. \A i \in 1 .. Len(a \o b) : (a \o b)[i] = IF i <= n THEN s[i] ELSE f[i]
  <2> TAKE i \in 1 .. Len(a \o b)
  <2>1. CASE i <= n
    <3>1. i \in 1 .. Len(a) + Len(b) /\ i <= Len(a) /\ i \in 1 .. n
      BY <1>1, <1>2, <1>3, <1>4, <2>1
    <3> QED
      BY <1>2, <1>4, <2>1, <3>1
  <2>2. CASE i > n
    <3>1. i - n \in 1 .. Len(b) /\ n + (i - n) = i
      BY <1>1, <1>2, <1>3, <1>5, <2>2
    <3>2. i \in 1 .. Len(a) + Len(b) /\ ~(i <= Len(a)) /\ Len(a) = n
      BY <1>1, <1>2, <1>3, <1>4, <2>2
    <3>3. (a \o b)[i] = b[i - n]
      BY <1>4, <3>2
    <3>4. b[i - n] = f[i]
      BY <1>3, <3>1
    <3>5. ~(i <= n)
      BY <1>1, <1>2, <1>3, <1>4, <2>2
    <3> QED
      BY <3>3, <3>4, <3>5, Zenon
  <2> QED
    BY <1>1, <1>5, <2>1, <2>2
<1>7. Over(s, f, n) = a \o b
  BY DEF Over, a, b
<1> QED
  BY <1>4, <1>5, <1>6, <1>7

\* What begins with a log that holds a frame holds the frame.
LEMMA HoldsGrows ==
  ASSUME NEW s \in Seq(Bytes), NEW t \in Seq(Bytes), Starts(s, t), NEW p \in Puts, Holds(s, p)
  PROVE  Holds(t, p)
<1>1. FrameLen[p] \in Nat /\ Len(s) \in Nat /\ Len(t) \in Nat /\ Len(s) <= Len(t)
  BY KvStoreAssumption, LenProperties DEF Starts
<1>2. PICK n \in 0 .. Len(s) - FrameLen[p] : SubSeq(s, n + 1, n + FrameLen[p]) = Frame(p)
  BY DEF Holds
<1> DEFINE m == n + 1
           k == n + FrameLen[p]
<1>3. m \in Nat \ {0} /\ k \in Nat /\ k <= Len(s) /\ m <= k + 1 /\ n \in 0 .. Len(t) - FrameLen[p]
  BY <1>1
<1>4. SubSeq(s, m, k) = SubSeq(t, m, k)
  <2> HIDE DEF m, k
  <2> QED
    BY <1>3, SameSubSeq
<1> QED
  BY <1>2, <1>3, <1>4 DEF Holds

LEMMA FrameIsSeq ==
  ASSUME NEW p \in Puts
  PROVE  Frame(p) \in Seq(Bytes) /\ Len(Frame(p)) = FrameLen[p] /\ FrameLen[p] \in Nat \ {0}
<1>1. FrameLen[p] \in Nat \ {0}
  BY KvStoreAssumption
<1>2. \A j \in 1 .. FrameLen[p] : <<p, j>> \in Bytes
  BY DEF Bytes, Frame, Range
<1>3. Frame(p) \in [1 .. FrameLen[p] -> Bytes]
  BY <1>2 DEF Frame
<1>4. Frame(p) \in Seq(Bytes)
  BY <1>1, <1>3, SeqDef
<1> QED
  BY <1>1, <1>3, <1>4, LenProperties

-----------------------------------------------------------------------------
(* The steps                                                               *)

LEMMA KvInitInv == Init => KvInv
<1> SUFFICES ASSUME Init PROVE KvInv
  OBVIOUS
<1>1. <<>> \in Seq(Bytes) /\ Len(<<>>) = 0
  BY EmptySeq
<1> QED
  BY <1>1, KvStoreAssumption DEF Init, KvInv, FlushedStays

\* No step that leaves the log, the file and the flush alone matters.
LEMMA KvUnchanged ==
  ASSUME KvInv, UNCHANGED <<log, file, flushed, open, acked>>
  PROVE  KvInv'
BY DEF KvInv, log, FlushedStays, Holds

LEMMA AppendFrameInv ==
  ASSUME KvInv, NEW p \in Puts, AppendFrame(p)
  PROVE  KvInv'
<1>1. CASE ~Fits(p)
  BY <1>1, KvUnchanged DEF AppendFrame, log, history
<1>2. CASE Fits(p)
  <2>1. /\ buf' = buf \o Frame(p) /\ UNCHANGED <<cap, file, flushed, open, acked>>
        /\ open /\ flushed = None
    BY <1>2 DEF AppendFrame, history, At
  <2>2. /\ Len(buf) \in Nat /\ Len(file) \in Nat /\ FrameLen[p] \in Nat \ {0}
        /\ Len(buf) + FrameLen[p] <= cap
    BY <1>2, FrameIsSeq, LenProperties DEF KvInv, Fits
  <2>3. /\ buf' \in Seq(Bytes) /\ Len(buf') = Len(buf) + FrameLen[p]
        /\ \A i \in 1 .. Len(buf) : buf'[i] = buf[i]
    <3>1. /\ buf \o Frame(p) \in Seq(Bytes)
          /\ Len(buf \o Frame(p)) = Len(buf) + Len(Frame(p))
          /\ \A i \in 1 .. Len(buf) + Len(Frame(p)) : (buf \o Frame(p))[i] =
                  IF i <= Len(buf) THEN buf[i] ELSE Frame(p)[i - Len(buf)]
      BY FrameIsSeq, ConcatProperties DEF KvInv
    <3>2. Len(Frame(p)) = FrameLen[p]
      BY FrameIsSeq
    <3>3. \A i \in 1 .. Len(buf) : i \in 1 .. Len(buf) + Len(Frame(p)) /\ i <= Len(buf)
      BY <2>2, <3>2
    <3> QED
      BY <2>1, <3>1, <3>2, <3>3
  <2>4. Len(file) <= Len(buf)
    BY <2>1, <2>2 DEF KvInv
  <2>5. \A i \in 1 .. Len(buf') : i <= Len(file') => buf'[i] = file'[i]
    <3>1. \A i \in 1 .. Len(buf') : i <= Len(file) => i \in 1 .. Len(buf)
      BY <2>2, <2>3, <2>4
    <3>2. \A i \in 1 .. Len(buf) : i <= Len(file) => buf[i] = file[i]
      BY DEF KvInv
    <3> QED
      BY <2>1, <2>3, <3>1, <3>2
  <2>6. Len(buf') <= cap /\ ~(Len(file') > Len(buf'))
    BY <2>1, <2>2, <2>3, <2>4
  <2>7. FlushedStays'
    BY <2>1 DEF KvInv, FlushedStays, Holds
  <2> QED
    BY <2>1, <2>3, <2>5, <2>6, <2>7 DEF KvInv
<1> QED
  BY <1>1, <1>2

\* A write of the flush changes no byte that the file has.
LEMMA WriteSomeGrows ==
  ASSUME KvInv, NEW n \in 0 .. Len(buf), file' = Over(buf, file, n)
  PROVE  /\ file' \in Seq(Bytes) /\ Len(file') = (IF n <= Len(file) THEN Len(file) ELSE n)
         /\ Starts(file, file')
         /\ \A i \in 1 .. Len(buf) : i <= Len(file') => buf[i] = file'[i]
<1>1. Len(buf) \in Nat /\ Len(file) \in Nat /\ buf \in Seq(Bytes) /\ file \in Seq(Bytes)
  BY LenProperties DEF KvInv
<1>2. /\ file' \in Seq(Bytes)
      /\ Len(file') = (IF n <= Len(file) THEN Len(file) ELSE n)
      /\ \A i \in 1 .. Len(file') : file'[i] = IF i <= n THEN buf[i] ELSE file[i]
  BY <1>1, Overwrite
<1>3. ASSUME NEW g \in Seq(Bytes), Len(g) = (IF n <= Len(file) THEN Len(file) ELSE n),
             \A i \in 1 .. Len(g) : g[i] = IF i <= n THEN buf[i] ELSE file[i]
      PROVE  Starts(file, g) /\ \A i \in 1 .. Len(buf) : i <= Len(g) => buf[i] = g[i]
  <2>1. \A i \in 1 .. Len(buf) : i <= Len(file) => buf[i] = file[i]
    BY DEF KvInv
  <2>2. \A i \in 1 .. Len(file) : file[i] = g[i]
    BY <1>1, <1>3, <2>1
  <2>3. \A i \in 1 .. Len(buf) : i <= Len(g) => buf[i] = g[i]
    BY <1>1, <1>3, <2>1
  <2> QED
    BY <1>1, <1>3, <2>2, <2>3 DEF Starts
<1> QED
  BY <1>2, <1>3

LEMMA WriteSomeInv ==
  ASSUME KvInv, WriteSome
  PROVE  KvInv' /\ Starts(file, file')
<1>1. PICK n \in flushed + 1 .. Len(buf) :
        file' = Over(buf, file, n) /\ flushed' = n
  BY Zenon DEF WriteSome, WrittenUpTo, Over
<1>2. n \in 0 .. Len(buf) /\ Len(buf) \in Nat /\ Len(file) \in Nat /\ open
  BY LenProperties DEF KvInv, WriteSome
<1>3. UNCHANGED <<buf, cap, open, acked>>
  BY DEF WriteSome, log, history
<1>4. /\ file' \in Seq(Bytes) /\ Len(file') = (IF n <= Len(file) THEN Len(file) ELSE n)
      /\ Starts(file, file')
      /\ \A i \in 1 .. Len(buf) : i <= Len(file') => buf[i] = file'[i]
  BY <1>1, <1>2, WriteSomeGrows
<1>5. FlushedStays'
  BY <1>3, <1>4, HoldsGrows DEF KvInv, FlushedStays
<1>6. n <= Len(file') /\ (Len(file') > Len(buf) => Len(file) > Len(buf))
  BY <1>2, <1>4
<1> QED
  BY <1>1, <1>2, <1>3, <1>4, <1>5, <1>6 DEF KvInv

LEMMA FlushOkInv ==
  ASSUME KvInv, FlushOk
  PROVE  KvInv'
<1>1. UNCHANGED <<buf, cap, file, open>> /\ flushed' = None /\ open
  BY DEF FlushOk, log
<1>2. Starts(buf, file)
  BY DEF FlushOk, AllWritten, KvInv, Starts
<1>3. \A p \in Puts : Holds(buf, p) => Holds(file, p)
  BY <1>2, HoldsGrows DEF KvInv
<1>4. acked' \subseteq Puts /\ FlushedStays'
  BY <1>1, <1>3 DEF FlushOk, KvInv, FlushedStays, Holds
<1> QED
  BY <1>1, <1>4 DEF KvInv

LEMMA OpenInv ==
  ASSUME KvInv, NEW c \in Caps, Open(c)
  PROVE  KvInv'
<1> DEFINE n == IF Len(file) < c THEN Len(file) ELSE c
<1>1. /\ c \in Nat /\ Len(file) \in Nat /\ n \in Nat /\ n <= Len(file) /\ n <= c
      /\ (n < Len(file) => n = c)
  BY KvStoreAssumption, LenProperties DEF KvInv
<1>2. /\ buf' = SubSeq(file, 1, n) /\ cap' = c /\ UNCHANGED <<file, flushed, acked>>
      /\ flushed = None
  BY DEF Open, Loaded, history, KvInv
<1>3. buf' \in Seq(Bytes) /\ Len(buf') = n /\ \A i \in 1 .. n : buf'[i] = file[i]
  <2> HIDE DEF n
  <2>1. /\ SubSeq(file, 1, n) \in Seq(Bytes) /\ Len(SubSeq(file, 1, n)) = n - 1 + 1
        /\ \A i \in 1 .. n - 1 + 1 : SubSeq(file, 1, n)[i] = file[1 + i - 1]
    BY <1>1, SubSeqOf DEF KvInv
  <2> QED
    BY <1>1, <1>2, <2>1
<1>4. FlushedStays'
  BY <1>2 DEF KvInv, FlushedStays, Holds
<1>5. open' = TRUE
  BY DEF Open
<1> HIDE DEF n
<1> QED
  BY <1>1, <1>2, <1>3, <1>4, <1>5 DEF KvInv

LEMMA KvStep ==
  ASSUME KvInv, [Next]_vars
  PROVE  KvInv' /\ (file' = file \/ Starts(file, file'))
<1>1. CASE UNCHANGED <<log, file, flushed, open, acked>>
  BY <1>1, KvUnchanged
<1>2. ASSUME NEW p \in Puts, AppendFrame(p) PROVE KvInv' /\ file' = file
  BY <1>2, AppendFrameInv, Zenon DEF AppendFrame
<1>3. CASE Flush
  <2>1. UNCHANGED <<log, file, open, acked>> /\ flushed' = 0 /\ open
    BY <1>3 DEF Flush, history
  <2>2. 0 \in 0 .. Len(buf) /\ 0 <= Len(file)
    BY LenProperties DEF KvInv
  <2> QED
    BY <2>1, <2>2 DEF KvInv, log, FlushedStays, Holds
<1>4. CASE WriteSome
  BY <1>4, WriteSomeInv
<1>5. CASE FlushOk
  BY <1>5, FlushOkInv DEF FlushOk
<1>6. CASE FlushErr
  BY <1>6 DEF FlushErr, KvInv, log, history, FlushedStays, Holds
<1>7. CASE Stop
  <2>1. /\ buf' = <<>> /\ flushed' = None /\ open' = FALSE
        /\ UNCHANGED <<cap, file, acked>>
    BY <1>7 DEF Stop, history
  <2>2. <<>> \in Seq(Bytes) /\ Len(<<>>) = 0
    BY EmptySeq
  <2> QED
    BY <2>1, <2>2 DEF KvInv, FlushedStays, Holds
<1>8. ASSUME NEW c \in Caps, Open(c) PROVE KvInv' /\ file' = file
  BY <1>8, OpenInv DEF Open
<1>9. ASSUME NEW p \in Puts, Put(p) \/ Insert(p) PROVE UNCHANGED <<log, file, flushed, open, acked>>
  BY <1>9 DEF Put, Insert, history
<1>10. ASSUME NEW k \in Keys, Delete(k) PROVE UNCHANGED <<log, file, flushed, open, acked>>
  BY <1>10 DEF Delete, history
<1>11. UNCHANGED vars => UNCHANGED <<log, file, flushed, open, acked>>
  BY DEF vars, history
<1> QED
  BY <1>1, <1>2, <1>3, <1>4, <1>5, <1>6, <1>7, <1>8, <1>9, <1>10, <1>11 DEF Next

-----------------------------------------------------------------------------
(* The theorems                                                            *)

\* A flush that returned Ok is kept: "flush" promises the appended frames in the file,
\* and no later flush, failed flush, crash or reopening takes them out again.
THEOREM KvFlushedStays == Spec => []FlushedStays
<1>1. KvInv /\ [Next]_vars => KvInv'
  BY KvStep
<1>2. KvInv => FlushedStays
  BY DEF KvInv
<1> QED
  BY KvInitInv, <1>1, <1>2, PTL DEF Spec

\* MappedLog::open "never clobber": every step leaves the file a prefix of what it is
\* afterwards.
THEOREM KvFileOnlyGrows == Spec => FileOnlyGrows
<1>1. KvInv /\ [Next]_vars => KvInv'
  BY KvStep
<1>2. KvInv /\ KvInv' /\ [Next]_vars => [IsPrefix(file, file')]_vars
  <2> SUFFICES ASSUME KvInv, KvInv', [Next]_vars PROVE IsPrefix(file, file')
    OBVIOUS
  <2>1. Starts(file, file)
    BY LenProperties DEF KvInv, Starts
  <2>2. Starts(file, file')
    BY <2>1, KvStep
  <2> QED
    BY <2>2, StartsIsPrefix DEF KvInv
<1> QED
  BY KvInitInv, <1>1, <1>2, PTL DEF Spec, FileOnlyGrows
=============================================================================
