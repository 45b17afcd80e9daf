----------------------------- MODULE SpscProofs -----------------------------
(***************************************************************************)
(* The ring with one producer and one consumer, for any capacity and any   *)
(* width of the cursors: the two ends never meet in a slot, and Ring::drop *)
(* drops exactly the values that are queued.                               *)
(***************************************************************************)
EXTENDS Spsc, Integers, SequenceTheorems, TLAPS

-----------------------------------------------------------------------------
(* Remainders                                                              *)

LEMMA MulAtLeast ==
  ASSUME NEW c \in Nat \ {0}, NEW d \in Int, d >= 1
  PROVE  c * d >= c /\ c * d \in Int
<1>1. c * (d - 1) >= 0
  OBVIOUS
<1>2. c * d = c * (d - 1) + c
  OBVIOUS
<1> QED
  BY <1>1, <1>2

LEMMA DivMod ==
  ASSUME NEW c \in Nat \ {0}, NEW x \in Int
  PROVE  x \div c \in Int /\ x % c \in 0 .. c - 1 /\ x = c * (x \div c) + (x % c)
OBVIOUS

LEMMA ModUnique ==
  ASSUME NEW c \in Nat \ {0}, NEW q \in Int, NEW r \in 0 .. c - 1
  PROVE  (c * q + r) % c = r
<1> DEFINE x == c * q + r
           p == x \div c
           s == x % c
<1>1. x \in Int
  OBVIOUS
<1>2. p \in Int /\ s \in 0 .. c - 1 /\ x = c * p + s
  <2> HIDE DEF x
  <2> QED
    BY <1>1, DivMod
<1> HIDE DEF p, s
<1>3. c * (p - q) = r - s /\ c * (q - p) = s - r
  BY <1>1, <1>2
<1>4. ~(p - q >= 1)
  <2> SUFFICES ASSUME p - q >= 1 PROVE FALSE
    OBVIOUS
  <2>1. c * (p - q) >= c
    BY <1>2, MulAtLeast
  <2> QED
    BY <1>2, <1>3, <2>1
<1>5. ~(q - p >= 1)
  <2> SUFFICES ASSUME q - p >= 1 PROVE FALSE
    OBVIOUS
  <2>1. c * (q - p) >= c
    BY <1>2, MulAtLeast
  <2> QED
    BY <1>2, <1>3, <2>1
<1>6. p = q
  BY <1>2, <1>4, <1>5
<1>7. s = r
  BY <1>2, <1>6
<1> QED
  BY <1>7 DEF s

\* Adding a multiple changes no remainder.
LEMMA ModShift ==
  ASSUME NEW c \in Nat \ {0}, NEW x \in Int, NEW k \in Int
  PROVE  (x + k * c) % c = x % c
<1> DEFINE q == x \div c
           r == x % c
<1>1. q \in Int /\ r \in 0 .. c - 1 /\ x = c * q + r
  BY DivMod
<1> HIDE DEF q, r
<1>2. x + k * c = c * (q + k) + r
  BY <1>1
<1>3. (c * (q + k) + r) % c = r
  BY <1>1, ModUnique
<1> QED
  BY <1>2, <1>3 DEF r

\* Less than c apart, two numbers differ modulo c.
LEMMA ModInjective ==
  ASSUME NEW c \in Nat \ {0}, NEW x \in Int, NEW y \in Int, x < y, y < x + c
  PROVE  x % c # y % c
<1> SUFFICES ASSUME x % c = y % c PROVE FALSE
  OBVIOUS
<1> DEFINE q == x \div c
           p == y \div c
           r == x % c
<1>1. q \in Int /\ p \in Int /\ r \in 0 .. c - 1 /\ x = c * q + r /\ y = c * p + r
  BY DivMod
<1> HIDE DEF q, p, r
<1>2. y - x = c * (p - q)
  BY <1>1
<1>3. CASE p - q >= 1
  <2>1. c * (p - q) >= c
    BY <1>1, <1>3, MulAtLeast
  <2> QED
    BY <1>2, <2>1
<1>4. CASE q - p >= 0
  <2>1. c * (q - p) >= 0
    BY <1>1, <1>4
  <2>2. c * (p - q) = -(c * (q - p))
    BY <1>1
  <2> QED
    BY <1>1, <1>2, <2>1, <2>2
<1> QED
  BY <1>1, <1>3, <1>4

\* Below 2 * w a remainder is one subtraction.
LEMMA ModOnce ==
  ASSUME NEW w \in Nat \ {0}, NEW x \in Nat, x < 2 * w
  PROVE  x % w = IF x < w THEN x ELSE x - w
<1>1. CASE x < w
  <2>1. (w * 0 + x) % w = x
    BY <1>1, ModUnique
  <2> QED
    BY <1>1, <2>1
<1>2. CASE x >= w
  <2>1. x - w \in 0 .. w - 1
    BY <1>2
  <2>2. (w * 1 + (x - w)) % w = x - w
    BY <2>1, ModUnique
  <2>3. w * 1 + (x - w) = x
    OBVIOUS
  <2> QED
    BY <1>2, <2>2, <2>3
<1> QED
  BY <1>1, <1>2

-----------------------------------------------------------------------------
(* Cursors and slots                                                       *)

LEMMA RingSizes ==
  /\ Word \in Nat \ {0} /\ Cap \in Nat \ {0} /\ 2 * Cap <= Word
  /\ \E m \in Int : Word = m * Cap
<1>1. PICK m \in 2 .. Word : Word = m * Cap
  BY SpscAssumption
<1>2. Word \in Nat \ {0} /\ Cap \in Nat \ {0} /\ m \in Int /\ m - 1 >= 1
  BY SpscAssumption
<1>3. Cap * (m - 1) >= Cap
  BY <1>2, MulAtLeast
<1>4. m * Cap = Cap * (m - 1) + Cap
  BY <1>2
<1> QED
  BY <1>1, <1>2, <1>3, <1>4

LEMMA AddIs ==
  ASSUME NEW h \in Cursors, NEW n \in 0 .. Cap
  PROVE  /\ WrappingAdd(h, n) \in Cursors
         /\ WrappingAdd(h, n) = IF h + n < Word THEN h + n ELSE h + n - Word
<1>1. h \in Nat /\ n \in Nat /\ h < Word /\ h + n \in Nat /\ h + n < 2 * Word
  BY RingSizes DEF Cursors
<1> DEFINE x == h + n
<1>2. x % Word = IF x < Word THEN x ELSE x - Word
  <2> HIDE DEF x
  <2> QED
    BY <1>1, RingSizes, ModOnce, Zenon DEF x
<1> QED
  BY <1>1, <1>2, RingSizes DEF WrappingAdd, Cursors

LEMMA SubIs ==
  ASSUME NEW t \in Cursors, NEW h \in Cursors
  PROVE  WrappingSub(t, h) = IF t >= h THEN t - h ELSE t + Word - h
<1>1. t \in Nat /\ h \in Nat /\ t < Word /\ h < Word /\ t + Word - h \in Nat /\ t + Word - h < 2 * Word
  BY RingSizes DEF Cursors
<1> DEFINE x == t + Word - h
<1>2. x % Word = IF x < Word THEN x ELSE x - Word
  <2> HIDE DEF x
  <2> QED
    BY <1>1, RingSizes, ModOnce, Zenon DEF x
<1> QED
  BY <1>1, <1>2, RingSizes DEF WrappingSub

\* The mask of a wrapped cursor is that of the unwrapped one: Cap divides Word.
LEMMA SlotAdd ==
  ASSUME NEW h \in Cursors, NEW n \in 0 .. Cap
  PROVE  Slot(WrappingAdd(h, n)) = (h + n) % Cap /\ Slot(WrappingAdd(h, n)) \in SlotIds
<1>1. PICK m \in Int : Word = m * Cap
  BY RingSizes
<1> DEFINE x == h + n
           k == -m
<1>2. x \in Int /\ k \in Int /\ x - Word = x + k * Cap /\ Cap \in Nat \ {0}
  BY <1>1, RingSizes DEF Cursors
<1>3. (x + k * Cap) % Cap = x % Cap /\ x % Cap \in 0 .. Cap - 1
  <2> HIDE DEF x, k
  <2> QED
    BY <1>2, ModShift, DivMod, Zenon
<1>4. WrappingAdd(h, n) = x \/ WrappingAdd(h, n) = x + k * Cap
  <2>1. WrappingAdd(h, n) = x \/ WrappingAdd(h, n) = x - Word
    <3>1. WrappingAdd(h, n) = IF h + n < Word THEN h + n ELSE h + n - Word
      BY AddIs
    <3>2. h \in Int /\ n \in Int /\ Word \in Int
      BY RingSizes DEF Cursors
    <3> QED
      BY <3>1, <3>2
  <2> HIDE DEF x, k
  <2> QED
    BY <1>2, <2>1
<1> HIDE DEF x, k
<1>5. Slot(WrappingAdd(h, n)) = x % Cap
  BY <1>3, <1>4 DEF Slot
<1> QED
  BY <1>3, <1>5 DEF SlotIds, x

LEMMA SlotsDiffer ==
  ASSUME NEW h \in Cursors, NEW n \in 0 .. Cap - 1, NEW m \in 0 .. Cap - 1, n # m
  PROVE  Slot(WrappingAdd(h, n)) # Slot(WrappingAdd(h, m))
<1>1. /\ n \in 0 .. Cap /\ m \in 0 .. Cap /\ h + n \in Int /\ h + m \in Int
      /\ Cap \in Nat \ {0}
      /\ \/ h + n < h + m /\ h + m < (h + n) + Cap
         \/ h + m < h + n /\ h + n < (h + m) + Cap
  BY RingSizes DEF Cursors
<1> DEFINE x == h + n
           y == h + m
<1>2. x % Cap # y % Cap
  <2> HIDE DEF x, y
  <2> QED
    BY <1>1, ModInjective DEF x, y
<1> QED
  BY <1>1, <1>2, SlotAdd

LEMMA SlotCovered ==
  ASSUME NEW h \in Cursors, NEW i \in SlotIds
  PROVE  \E n \in 0 .. Cap - 1 : Slot(WrappingAdd(h, n)) = i
<1> DEFINE r == h % Cap
           q == h \div Cap
           n == IF i >= r THEN i - r ELSE i + Cap - r
<1>1. Cap \in Nat \ {0} /\ h \in Int /\ i \in 0 .. Cap - 1
  BY RingSizes DEF Cursors, SlotIds
<1>2. q \in Int /\ r \in 0 .. Cap - 1 /\ h = Cap * q + r
  BY <1>1, DivMod
<1> HIDE DEF r, q
<1>3. n \in 0 .. Cap - 1 /\ n \in 0 .. Cap
  BY <1>1, <1>2
<1>4. h + n = Cap * q + i \/ h + n = Cap * (q + 1) + i
  BY <1>1, <1>2
<1>5. (Cap * q + i) % Cap = i /\ (Cap * (q + 1) + i) % Cap = i
  <2>1. q + 1 \in Int
    BY <1>2
  <2> QED
    BY <1>1, <1>2, <2>1, ModUnique
<1>6. (h + n) % Cap = i
  BY <1>4, <1>5
<1> HIDE DEF n
<1>7. Slot(WrappingAdd(h, n)) = i
  BY <1>3, <1>6, SlotAdd
<1> QED
  BY <1>3, <1>7

\* The length of the queue.
Used == WrappingSub(tail, head)

\* The slot n places behind head.
Place(n) == Slot(WrappingAdd(head, n))

LEMMA UsedIs ==
  ASSUME tail \in Cursors, head \in Cursors
  PROVE  /\ Used \in Nat /\ Used < Word
         /\ Used = 0 <=> head = tail
         /\ Used <= Cap => tail = WrappingAdd(head, Used)
<1>1. tail \in Nat /\ head \in Nat /\ tail < Word /\ head < Word
  BY RingSizes DEF Cursors
<1>2. Used = IF tail >= head THEN tail - head ELSE tail + Word - head
  BY SubIs DEF Used
<1>3. Used \in Nat /\ Used < Word /\ (Used = 0 <=> head = tail)
  BY <1>1, <1>2, RingSizes
<1>4. ASSUME Used <= Cap PROVE tail = WrappingAdd(head, Used)
  <2>1. WrappingAdd(head, Used) = IF head + Used < Word THEN head + Used ELSE head + Used - Word
    BY <1>3, <1>4, RingSizes, AddIs
  <2> QED
    BY <1>1, <1>2, <2>1, RingSizes
<1> QED
  BY <1>3, <1>4

-----------------------------------------------------------------------------
(* The invariant                                                           *)

\* The slot n places behind head holds a value: it is queued and has not been moved
\* out by a pop, or a push has written it and not yet stored tail.
Full(n) ==
  \/ n < Used /\ ~(n = 0 /\ cPc = "publish")
  \/ n = Used /\ \E p \in Pushers : pPc[p] = "publish"

SpscInv ==
  /\ TypeOK
  /\ Used <= Cap
  /\ \A p \in Pushers : pPc[p] # "idle" => pOpen /\ pTail[p] = tail /\ Used < Cap
  /\ \A p \in Pushers : pPc[p] = "write" => pVal[p] \in Vals
  /\ cPc \in {"read", "publish"} => cHead = head /\ Used > 0 /\ left > 0
  /\ cPc = "publish" => cVal \in Vals
  /\ Open => \A n \in 0 .. Cap - 1 : Full(n) <=> buf[Place(n)] # Uninit
  /\ ~Open => \A i \in SlotIds : buf[i] = Uninit

\* "exactly one producer touches `tail` + writes slots ahead of `head`"
OneProducer == \A p, q \in Pushers : p = q

LEMMA SpscInitInv == Init => SpscInv
<1> SUFFICES ASSUME Init PROVE SpscInv
  OBVIOUS
<1>1. 0 \in Cursors /\ 0 \in 0 .. MaxDrain /\ Cap \in Nat
  BY RingSizes, SpscAssumption DEF Cursors
<1>2. TypeOK
  BY <1>1 DEF Init, TypeOK
<1>3. Used = 0
  BY <1>1, UsedIs DEF Init
<1>4. \A n \in 0 .. Cap - 1 : ~Full(n) /\ buf[Place(n)] = Uninit
  <2> TAKE n \in 0 .. Cap - 1
  <2>1. Place(n) \in SlotIds
    BY <1>1, SlotAdd DEF Place, Init
  <2>2. ~Full(n)
    BY <1>3 DEF Full, Init
  <2> QED
    BY <2>1, <2>2 DEF Init
<1> QED
  BY <1>1, <1>2, <1>3, <1>4 DEF SpscInv, Init, Open

\* The slots the places 0 .. Cap - 1 lie in.
LEMMA Places ==
  ASSUME TypeOK
  PROVE  /\ \A n \in 0 .. Cap - 1 : Place(n) \in SlotIds
         /\ \A n, m \in 0 .. Cap - 1 : Place(n) = Place(m) => n = m
         /\ \A i \in SlotIds : \E n \in 0 .. Cap - 1 : Place(n) = i
         /\ Used \in Nat
         /\ Used < Cap => Place(Used) = Slot(tail)
         /\ Place(0) = Slot(head)
<1>1. head \in Cursors /\ tail \in Cursors /\ Cap \in Nat \ {0}
  BY RingSizes DEF TypeOK
<1>2. \A n \in 0 .. Cap - 1 : Place(n) \in SlotIds
  BY <1>1, SlotAdd DEF Place
<1>3. \A n, m \in 0 .. Cap - 1 : Place(n) = Place(m) => n = m
  BY <1>1, SlotsDiffer DEF Place
<1>4. \A i \in SlotIds : \E n \in 0 .. Cap - 1 : Place(n) = i
  BY <1>1, SlotCovered DEF Place
<1>5. Used \in Nat /\ (Used < Cap => Place(Used) = Slot(tail))
  BY <1>1, UsedIs DEF Place
<1>6. Place(0) = Slot(head)
  <2>1. WrappingAdd(head, 0) = head
    BY <1>1, AddIs, RingSizes DEF Cursors
  <2> QED
    BY <2>1 DEF Place
<1> QED
  BY <1>2, <1>3, <1>4, <1>5, <1>6

\* The slots Ring::drop visits are those of the places below Used.
LEMMA QueuedIs ==
  ASSUME TypeOK, Used <= Cap
  PROVE  Queued = {Place(n) : n \in {m \in 0 .. Cap - 1 : m < Used}}
<1>1. Cap \in Nat /\ Word \in Nat /\ Used \in Nat /\ Cap <= Word
  BY RingSizes, Places
<1>2. {m \in 0 .. Word : m < Used} = {m \in 0 .. Cap - 1 : m < Used}
  BY <1>1
<1> QED
  BY <1>2 DEF Queued, Place, Used

LEMMA InvImplies ==
  ASSUME OneProducer, SpscInv
  PROVE  SlotsExclusive /\ DropIsExact
<1>1. TypeOK /\ Used <= Cap /\ Cap \in Nat \ {0} /\ Used \in Nat
  BY Places, RingSizes DEF SpscInv
<1>2. ASSUME NEW p \in Pushers, pPc[p] = "write"
      PROVE  buf[Slot(pTail[p])] = Uninit /\ (cPc = "read" => Slot(pTail[p]) # Slot(cHead))
  <2>1. pTail[p] = tail /\ Used \in 0 .. Cap - 1 /\ Place(Used) = Slot(tail) /\ Open
    BY <1>1, <1>2, Places DEF SpscInv, Open
  <2>2. 0 \in 0 .. Cap - 1 /\ Place(0) = Slot(head)
    BY <1>1, Places
  <2>3. ~(\E q \in Pushers : pPc[q] = "publish")
    BY <1>2 DEF OneProducer
  <2>4. ~Full(Used)
    BY <1>1, <2>3 DEF Full
  <2>5. buf[Slot(tail)] = Uninit
    BY <2>1, <2>4 DEF SpscInv
  <2>6. cPc = "read" => cHead = head /\ Used # 0
    BY <1>1 DEF SpscInv
  <2>7. cPc = "read" => Slot(tail) # Slot(cHead)
    BY <1>1, <2>1, <2>2, <2>6, Places
  <2> QED
    BY <2>1, <2>5, <2>7
<1>3. cPc = "read" => buf[Slot(cHead)] # Uninit
  <2> SUFFICES ASSUME cPc = "read" PROVE buf[Slot(cHead)] # Uninit
    OBVIOUS
  <2>1. cHead = head /\ Used > 0 /\ Open
    BY DEF SpscInv, Open
  <2>2. 0 \in 0 .. Cap - 1 /\ Place(0) = Slot(head)
    BY <1>1, Places
  <2>3. Full(0)
    BY <2>1 DEF Full
  <2> QED
    BY <2>1, <2>2, <2>3 DEF SpscInv
<1>4. ASSUME \A p \in Pushers : pPc[p] = "idle", cPc \in {"idle", "dropped"}, Open, NEW i \in SlotIds
      PROVE  i \in Queued <=> buf[i] # Uninit
  <2>1. PICK n \in 0 .. Cap - 1 : Place(n) = i
    BY <1>1, Places
  <2>2. i \in Queued <=> n < Used
    <3>1. i \in Queued <=> \E m \in 0 .. Cap - 1 : m < Used /\ i = Place(m)
      BY <1>1, QueuedIs
    <3>2. \A m \in 0 .. Cap - 1 : i = Place(m) => m = n
      BY <1>1, <2>1, Places
    <3> QED
      BY <2>1, <3>1, <3>2
  <2>3. Full(n) <=> n < Used
    BY <1>4 DEF Full
  <2>4. Full(n) <=> buf[Place(n)] # Uninit
    BY <1>4 DEF SpscInv
  <2> QED
    BY <2>1, <2>2, <2>3, <2>4
<1>5. SlotsExclusive
  BY <1>2, <1>3 DEF SlotsExclusive
<1>6. DropIsExact
  BY <1>4 DEF DropIsExact, SpscInv
<1> QED
  BY <1>5, <1>6

-----------------------------------------------------------------------------
(* The steps                                                               *)

\* Nothing that the invariant's account of the slots mentions changes.
LEMMA SameSlots ==
  ASSUME SpscInv, Open', UNCHANGED ring,
         (\E p \in Pushers : pPc[p] = "publish") <=> (\E p \in Pushers : pPc'[p] = "publish"),
         cPc = "publish" <=> cPc' = "publish", Open
  PROVE  /\ Used' = Used
         /\ \A n \in 0 .. Cap - 1 : Full(n)' <=> buf'[Place(n)'] # Uninit
<1>1. Used' = Used /\ \A n \in 0 .. Cap - 1 : Place(n)' = Place(n)
  BY DEF ring, Used, Place
<1>2. \A n \in 0 .. Cap - 1 : Full(n)' <=> Full(n)
  BY <1>1 DEF Full
<1> QED
  BY <1>1, <1>2 DEF SpscInv, ring

LEMMA PushLoadInv ==
  ASSUME SpscInv, NEW p \in Pushers, NEW v \in Vals, PushLoad(p, v)
  PROVE  SpscInv'
<1>1. Open /\ Open' /\ UNCHANGED <<ring, pOpen, consumer>> /\ pOpen /\ cPc' = cPc
  BY DEF PushLoad, Open, consumer
<1>2. TypeOK'
  BY <1>1 DEF PushLoad, SpscInv, TypeOK, ring, consumer
<1>3. Used' = Used /\ \A n \in 0 .. Cap - 1 : Full(n)' <=> buf'[Place(n)'] # Uninit
  <2>1. \A q \in Pushers : pPc[q] = "publish" <=> pPc'[q] = "publish"
    BY DEF PushLoad, SpscInv, TypeOK
  <2> QED
    BY <1>1, <2>1, SameSlots
<1>4. UNCHANGED <<tail, head, cHead, cVal, left>>
  BY <1>1 DEF ring, consumer
<1>5. /\ \A q \in Pushers : pPc'[q] # "idle" => pOpen' /\ pTail'[q] = tail' /\ Used' < Cap
      /\ \A q \in Pushers : pPc'[q] = "write" => pVal'[q] \in Vals
  <2>1. CASE IsFull
    BY <1>1, <1>3, <1>4, <2>1 DEF PushLoad, SpscInv
  <2>2. CASE ~IsFull
    <3>1. Used < Cap
      BY <2>2, Places, RingSizes DEF SpscInv, IsFull, Used
    <3> QED
      BY <1>1, <1>3, <1>4, <2>2, <3>1 DEF PushLoad, SpscInv, TypeOK
  <2> QED
    BY <2>1, <2>2
<1> QED
  BY <1>1, <1>2, <1>3, <1>4, <1>5 DEF SpscInv

LEMMA PushWriteInv ==
  ASSUME OneProducer, SpscInv, NEW p \in Pushers, PushWrite(p)
  PROVE  SpscInv'
<1>1. /\ Open /\ Open' /\ pTail[p] = tail /\ Used < Cap /\ pVal[p] \in Vals /\ pPc[p] = "write"
      /\ pOpen
  BY DEF PushWrite, SpscInv, Open, consumer
<1>2. /\ buf' = [buf EXCEPT ![Slot(tail)] = pVal[p]]
      /\ pPc' = [pPc EXCEPT ![p] = "publish"] /\ pVal' = [pVal EXCEPT ![p] = Uninit]
      /\ UNCHANGED <<tail, head, pTail, pOpen, pushRes, cPc, cHead, cVal, popRes, left>>
  BY <1>1 DEF PushWrite, consumer
<1>3. TypeOK'
  BY <1>1, <1>2, Zenon DEF SpscInv, TypeOK
<1>4. TypeOK /\ Used' = Used /\ Cap \in Nat \ {0}
  BY <1>2, RingSizes DEF SpscInv, Used
<1>5. \A n \in 0 .. Cap - 1 : Full(n)' <=> buf'[Place(n)'] # Uninit
  <2> TAKE n \in 0 .. Cap - 1
  <2>1. Place(n)' = Place(n) /\ Place(n) \in SlotIds
    BY <1>2, <1>4, Places DEF Place
  <2>2. Place(Used) = Slot(tail) /\ Used \in 0 .. Cap - 1
    BY <1>1, <1>4, Places
  <2>3. (\E q \in Pushers : pPc'[q] = "publish") /\ ~(\E q \in Pushers : pPc[q] = "publish")
    BY <1>1, <1>2, <1>4 DEF OneProducer, TypeOK
  <2>4. CASE n = Used
    <3>1. buf'[Place(n)] = pVal[p] /\ pVal[p] # Uninit
      BY <1>1, <1>2, <1>4, <2>1, <2>2, <2>4, SpscAssumption DEF TypeOK
    <3>2. Full(n)'
      BY <1>4, <2>3, <2>4 DEF Full
    <3> QED
      BY <2>1, <3>1, <3>2
  <2>5. CASE n # Used
    <3>1. Place(n) # Slot(tail)
      BY <1>4, <2>2, <2>5, Places
    <3>2. buf'[Place(n)] = buf[Place(n)]
      BY <1>2, <1>4, <2>1, <3>1 DEF TypeOK
    <3>3. Full(n)' <=> Full(n)
      BY <1>2, <1>4, <2>5 DEF Full
    <3> QED
      BY <1>1, <2>1, <3>2, <3>3 DEF SpscInv
  <2> QED
    BY <2>4, <2>5
<1>6. /\ \A q \in Pushers : pPc'[q] # "idle" => pOpen' /\ pTail'[q] = tail' /\ Used' < Cap
      /\ \A q \in Pushers : pPc'[q] = "write" => pVal'[q] \in Vals
  BY <1>1, <1>2, <1>4 DEF OneProducer, TypeOK
<1>7. UNCHANGED <<head, cPc, cHead, cVal, left>> /\ Used' <= Cap
  BY <1>2, <1>4 DEF SpscInv
<1> QED
  BY <1>1, <1>3, <1>4, <1>5, <1>6, <1>7 DEF SpscInv

LEMMA PushedUsed ==
  ASSUME TypeOK, Used < Cap, tail' = WrappingAdd(tail, 1), head' = head
  PROVE  Used' = Used + 1
<1>1. /\ tail \in Nat /\ head \in Nat /\ tail < Word /\ head < Word
      /\ tail \in Cursors /\ head \in Cursors /\ 1 \in 0 .. Cap
      /\ Word \in Nat /\ Cap \in Nat /\ 2 * Cap <= Word
  BY RingSizes DEF TypeOK, Cursors
<1>2. /\ WrappingAdd(tail, 1) \in Cursors
      /\ WrappingAdd(tail, 1) = IF tail + 1 < Word THEN tail + 1 ELSE tail + 1 - Word
  BY <1>1, AddIs
<1>3. Used = IF tail >= head THEN tail - head ELSE tail + Word - head
  BY <1>1, SubIs DEF Used
<1>4. Used' = IF tail' >= head THEN tail' - head ELSE tail' + Word - head
  BY <1>1, <1>2, SubIs DEF Used
<1> QED
  BY <1>1, <1>2, <1>3, <1>4

LEMMA PushStoreInv ==
  ASSUME OneProducer, SpscInv, NEW p \in Pushers, PushStore(p)
  PROVE  SpscInv'
<1>1. Open /\ Open' /\ pTail[p] = tail /\ Used < Cap /\ pPc[p] = "publish"
  BY DEF PushStore, SpscInv, Open, consumer
<1>2. /\ tail' = WrappingAdd(tail, 1)
      /\ pPc' = [pPc EXCEPT ![p] = "idle"] /\ pTail' = [pTail EXCEPT ![p] = 0] /\ pushRes' = "ok"
      /\ UNCHANGED <<buf, head, pVal, pOpen, cPc, cHead, cVal, popRes, left>>
  BY <1>1 DEF PushStore, consumer
<1>3. TypeOK /\ Cap \in Nat \ {0} /\ Used \in Nat
  BY RingSizes, Places DEF SpscInv
<1>4. TypeOK'
  <2>1. tail' \in Cursors /\ 0 \in Cursors
    BY <1>2, <1>3, AddIs, RingSizes DEF TypeOK, Cursors
  <2> QED
    BY <1>2, <1>3, <2>1 DEF TypeOK
<1>5. Used' = Used + 1
  BY <1>1, <1>2, <1>3, PushedUsed
<1>6. \A q \in Pushers : pPc'[q] = "idle"
  BY <1>2, <1>3 DEF OneProducer, TypeOK
<1>7. \A n \in 0 .. Cap - 1 : Full(n)' <=> buf'[Place(n)'] # Uninit
  <2> TAKE n \in 0 .. Cap - 1
  <2>1. Place(n)' = Place(n)
    BY <1>2 DEF Place
  <2>2. cPc = "publish" => Used > 0
    BY DEF SpscInv
  <2>3. Full(n)' <=> n < Used + 1 /\ ~(n = 0 /\ cPc = "publish")
    BY <1>2, <1>5, <1>6 DEF Full
  <2>4. Full(n) <=> (n < Used /\ ~(n = 0 /\ cPc = "publish")) \/ n = Used
    BY <1>1 DEF Full
  <2>5. n < Used + 1 <=> n < Used \/ n = Used
    BY <1>3
  <2>6. n = Used => ~(n = 0 /\ cPc = "publish")
    BY <1>3, <2>2
  <2>7. Full(n)' <=> Full(n)
    BY <2>3, <2>4, <2>5, <2>6
  <2> QED
    BY <1>1, <1>2, <2>1, <2>7 DEF SpscInv
<1>8. Used' <= Cap /\ Used' > 0
  BY <1>1, <1>3, <1>5
<1> QED
  BY <1>1, <1>2, <1>4, <1>6, <1>7, <1>8 DEF SpscInv

LEMMA CallPopInv ==
  ASSUME SpscInv, NEW max \in 1 .. MaxDrain, CallPop(max)
  PROVE  SpscInv'
<1>1. Open /\ Open' /\ UNCHANGED <<ring, producer, cPc, cHead, cVal, popRes>> /\ left' = max /\ cPc = "idle"
  BY DEF CallPop, Open, producer
<1>2. TypeOK'
  BY <1>1, SpscAssumption DEF SpscInv, TypeOK, ring, producer
<1>3. Used' = Used /\ \A n \in 0 .. Cap - 1 : Full(n)' <=> buf'[Place(n)'] # Uninit
  BY <1>1, SameSlots DEF producer
<1> QED
  BY <1>1, <1>2, <1>3 DEF SpscInv, ring, producer

LEMMA PopLoadInv ==
  ASSUME SpscInv, PopLoad
  PROVE  SpscInv'
<1>1. /\ Open /\ Open' /\ UNCHANGED <<ring, producer, cVal>> /\ left > 0
      /\ cPc = "idle" /\ cPc' # "publish"
  BY DEF PopLoad, Open, producer
<1>2. TypeOK'
  BY <1>1, SpscAssumption DEF PopLoad, SpscInv, TypeOK, ring, producer
<1>3. Used' = Used /\ \A n \in 0 .. Cap - 1 : Full(n)' <=> buf'[Place(n)'] # Uninit
  BY <1>1, SameSlots DEF producer
<1>4. cPc' = "read" => cHead' = head' /\ Used > 0 /\ left' > 0
  <2>1. head # tail => Used > 0
    BY UsedIs DEF SpscInv, TypeOK
  <2> QED
    BY <1>1, <2>1 DEF PopLoad, ring
<1> QED
  BY <1>1, <1>2, <1>3, <1>4 DEF SpscInv, ring, producer

LEMMA PopReadInv ==
  ASSUME SpscInv, PopRead
  PROVE  SpscInv'
<1>1. /\ Open /\ Open' /\ cPc = "read" /\ cPc' = "publish" /\ cHead = head /\ Used > 0 /\ left > 0
      /\ cVal' = buf[Slot(head)] /\ buf' = [buf EXCEPT ![Slot(head)] = Uninit]
      /\ UNCHANGED <<tail, head, producer, cHead, popRes, left>>
  BY DEF PopRead, Open, SpscInv, producer
<1>2. TypeOK /\ Cap \in Nat \ {0} /\ Used \in Nat /\ Used' = Used
  BY <1>1, RingSizes, Places DEF SpscInv, Used
<1>3. 0 \in 0 .. Cap - 1 /\ Place(0) = Slot(head) /\ Slot(head) \in SlotIds
  <2>1. 0 \in 0 .. Cap - 1
    BY <1>2
  <2> QED
    BY <1>2, <2>1, Places
<1>4. cVal' \in Vals
  <2>1. Full(0)
    BY <1>1 DEF Full
  <2>2. buf[Slot(head)] # Uninit
    BY <1>1, <1>3, <2>1 DEF SpscInv
  <2> QED
    BY <1>1, <1>2, <1>3, <2>2 DEF TypeOK
<1>5. TypeOK'
  BY <1>1, <1>2, <1>3, <1>4 DEF TypeOK, producer
<1>6. \A n \in 0 .. Cap - 1 : Full(n)' <=> buf'[Place(n)'] # Uninit
  <2> TAKE n \in 0 .. Cap - 1
  <2>1. Place(n)' = Place(n) /\ Place(n) \in SlotIds /\ UNCHANGED pPc
    BY <1>1, <1>2, Places DEF Place, producer
  <2>2. CASE n = 0
    <3>1. ~Full(n)'
      BY <1>1, <1>2, <2>2 DEF Full
    <3> QED
      BY <1>1, <1>2, <1>3, <2>1, <2>2, <3>1 DEF TypeOK
  <2>3. CASE n # 0
    <3>1. Full(n)' <=> Full(n)
      BY <1>2, <2>1, <2>3 DEF Full
    <3>2. Place(n) # Slot(head)
      BY <1>2, <1>3, <2>3, Places
    <3>3. buf'[Place(n)] = buf[Place(n)]
      BY <1>1, <1>2, <2>1, <3>2 DEF TypeOK
    <3> QED
      BY <1>1, <2>1, <3>1, <3>3 DEF SpscInv
  <2> QED
    BY <2>2, <2>3
<1> QED
  BY <1>1, <1>2, <1>4, <1>5, <1>6 DEF SpscInv, producer

LEMMA PoppedUsed ==
  ASSUME TypeOK, Used > 0, head' = WrappingAdd(head, 1), tail' = tail
  PROVE  head' \in Cursors /\ Used' = Used - 1
<1>1. /\ tail \in Nat /\ head \in Nat /\ tail < Word /\ head < Word
      /\ tail \in Cursors /\ head \in Cursors /\ 1 \in 0 .. Cap /\ Word \in Nat
  BY RingSizes DEF TypeOK, Cursors
<1>2. /\ WrappingAdd(head, 1) \in Cursors
      /\ WrappingAdd(head, 1) = IF head + 1 < Word THEN head + 1 ELSE head + 1 - Word
  BY <1>1, AddIs
<1>3. Used = IF tail >= head THEN tail - head ELSE tail + Word - head
  BY <1>1, SubIs DEF Used
<1>4. Used' = IF tail >= head' THEN tail - head' ELSE tail + Word - head'
  BY <1>1, <1>2, SubIs DEF Used
<1> QED
  BY <1>1, <1>2, <1>3, <1>4

\* After a pop every place is one nearer, and the slot of the first is the last.
LEMMA PoppedPlace ==
  ASSUME TypeOK, head' = WrappingAdd(head, 1), NEW n \in 0 .. Cap - 1
  PROVE  Place(n)' = IF n + 1 < Cap THEN Place(n + 1) ELSE Place(0)
<1>1. PICK m \in Int : Word = m * Cap
  BY RingSizes
<1>2. /\ head \in Cursors /\ head \in Nat /\ Cap \in Nat \ {0} /\ 1 \in 0 .. Cap /\ 0 \in 0 .. Cap
      /\ n + 1 \in 0 .. Cap /\ n \in 0 .. Cap
  BY RingSizes DEF TypeOK, Cursors
<1>3. head' \in Cursors /\ (head' = head + 1 \/ head' = head + 1 - Word)
  BY <1>2, AddIs
<1> DEFINE x == head + 1 + n
           k == -m
<1>4. Place(n)' = (head' + n) % Cap
  BY <1>2, <1>3, SlotAdd DEF Place
<1>5. x \in Int /\ k \in Int /\ (head' + n = x \/ head' + n = x + k * Cap)
  BY <1>1, <1>2, <1>3
<1>6. (x + k * Cap) % Cap = x % Cap
  <2> HIDE DEF x, k
  <2> QED
    BY <1>2, <1>5, ModShift, Zenon
<1>7. Place(n)' = x % Cap
  BY <1>4, <1>5, <1>6
<1>8. CASE n + 1 < Cap
  <2>1. Place(n + 1) = (head + (n + 1)) % Cap
    BY <1>2, SlotAdd DEF Place
  <2>2. head + (n + 1) = x
    BY <1>2
  <2> QED
    BY <1>7, <1>8, <2>1, <2>2
<1>9. CASE ~(n + 1 < Cap)
  <2> DEFINE one == 1
  <2>1. x = head + one * Cap
    BY <1>2, <1>9
  <2>2. (head + one * Cap) % Cap = head % Cap
    <3>1. one \in Int /\ head \in Int /\ Cap \in Nat \ {0}
      BY <1>2
    <3> HIDE DEF one
    <3> QED
      BY <3>1, ModShift, Zenon
  <2>3. Place(0) = (head + 0) % Cap /\ head + 0 = head
    BY <1>2, SlotAdd DEF Place
  <2> QED
    BY <1>7, <1>9, <2>1, <2>2, <2>3
<1> QED
  BY <1>8, <1>9

LEMMA PopStoreInv ==
  ASSUME SpscInv, PopStore
  PROVE  SpscInv'
<1>1. /\ Open /\ Open' /\ cPc = "publish" /\ cPc' = "idle" /\ Used > 0 /\ left > 0 /\ cVal \in Vals
      /\ head' = WrappingAdd(head, 1) /\ cHead' = 0 /\ cVal' = Uninit /\ left' = left - 1
      /\ popRes' = cVal /\ UNCHANGED <<buf, tail, producer>>
  BY DEF PopStore, SpscInv, Open, producer
<1>2. TypeOK /\ Cap \in Nat \ {0} /\ Used \in Nat /\ Used <= Cap
  BY RingSizes, Places DEF SpscInv
<1>3. head' \in Cursors /\ Used' = Used - 1
  BY <1>1, <1>2, PoppedUsed
<1>4. TypeOK'
  <2>1. left' \in 0 .. MaxDrain /\ 0 \in Cursors
    BY <1>1, <1>2, SpscAssumption, RingSizes DEF TypeOK, Cursors
  <2> QED
    BY <1>1, <1>2, <1>3, <2>1 DEF TypeOK, producer
<1>5. \A p \in Pushers : pPc[p] # "idle" => Used < Cap
  BY DEF SpscInv
<1>6. \A n \in 0 .. Cap - 1 : Full(n)' <=> buf'[Place(n)'] # Uninit
  <2> TAKE n \in 0 .. Cap - 1
  <2>1. Full(n)' <=> n < Used - 1 \/ (n = Used - 1 /\ \E p \in Pushers : pPc[p] = "publish")
    BY <1>1, <1>3 DEF Full, producer
  <2>2. CASE n + 1 < Cap
    <3>1. Full(n + 1) <=> n + 1 < Used \/ (n + 1 = Used /\ \E p \in Pushers : pPc[p] = "publish")
      BY DEF Full
    <3>2. Full(n)' <=> Full(n + 1)
      BY <1>2, <2>1, <3>1
    <3>3. Place(n)' = Place(n + 1) /\ n + 1 \in 0 .. Cap - 1
      BY <1>1, <1>2, <2>2, PoppedPlace
    <3> QED
      BY <1>1, <3>2, <3>3 DEF SpscInv
  <2>3. CASE ~(n + 1 < Cap)
    <3>1. n = Cap - 1
      BY <1>2, <2>3
    <3>2. ~Full(n)'
      BY <1>2, <1>5, <2>1, <3>1
    <3>3. Place(n)' = Place(0) /\ 0 \in 0 .. Cap - 1
      BY <1>1, <1>2, <2>3, PoppedPlace
    <3>4. ~Full(0)
      BY <1>1 DEF Full
    <3> QED
      BY <1>1, <3>2, <3>3, <3>4 DEF SpscInv
  <2> QED
    BY <2>2, <2>3
<1>7. Used' <= Cap /\ \A p \in Pushers : pPc[p] # "idle" => Used' < Cap
  BY <1>2, <1>3, <1>5
<1> QED
  BY <1>1, <1>4, <1>6, <1>7 DEF SpscInv, producer

LEMMA RingDropInv ==
  ASSUME SpscInv, \A p \in Pushers : pPc[p] = "idle", cPc \in {"idle", "dropped"}, Open, RingDrop
  PROVE  buf' = [i \in SlotIds |-> Uninit]
<1>1. TypeOK /\ Used <= Cap
  BY DEF SpscInv
<1>2. ASSUME NEW i \in SlotIds, i \notin Queued PROVE buf[i] = Uninit
  <2>1. PICK n \in 0 .. Cap - 1 : Place(n) = i
    BY <1>1, Places
  <2>2. ~(n < Used)
    BY <1>1, <1>2, <2>1, QueuedIs
  <2>3. ~Full(n)
    BY <2>2 DEF Full
  <2> QED
    BY <2>1, <2>3 DEF SpscInv
<1> QED
  BY <1>2 DEF RingDrop

LEMMA DropProducerInv ==
  ASSUME SpscInv, DropProducer
  PROVE  SpscInv'
<1>1. /\ Open /\ pOpen' = FALSE /\ \A p \in Pushers : pPc[p] = "idle"
      /\ UNCHANGED <<tail, head, pPc, pTail, pVal, pushRes, cPc, cHead, cVal, popRes, left>>
  BY DEF DropProducer, Open, consumer
<1>2. TypeOK /\ Used' = Used
  BY <1>1 DEF SpscInv, Used
<1>3. CASE cPc = "dropped"
  <2>1. buf' = [i \in SlotIds |-> Uninit]
    BY <1>1, <1>3, RingDropInv DEF DropProducer
  <2>2. TypeOK' /\ ~Open'
    BY <1>1, <1>2, <1>3, <2>1, Zenon DEF TypeOK, Open
  <2> QED
    BY <1>1, <1>2, <1>3, <2>1, <2>2 DEF SpscInv
<1>4. CASE cPc # "dropped"
  <2>1. UNCHANGED ring /\ Open'
    BY <1>1, <1>4 DEF DropProducer, ring, Open
  <2>2. TypeOK'
    BY <1>1, <1>2, <2>1, Zenon DEF TypeOK, ring
  <2>3. \A n \in 0 .. Cap - 1 : Full(n)' <=> buf'[Place(n)'] # Uninit
    BY <1>1, <2>1, SameSlots
  <2> QED
    BY <1>1, <1>2, <2>1, <2>2, <2>3 DEF SpscInv
<1> QED
  BY <1>3, <1>4

LEMMA DropConsumerInv ==
  ASSUME SpscInv, DropConsumer
  PROVE  SpscInv'
<1>1. /\ Open /\ cPc = "idle" /\ cPc' = "dropped"
      /\ UNCHANGED <<tail, head, producer, cHead, cVal, popRes, left>>
  BY DEF DropConsumer, Open
<1>2. TypeOK /\ Used' = Used /\ UNCHANGED <<pPc, pTail, pVal, pOpen, pushRes>>
  BY <1>1 DEF SpscInv, Used, producer
<1>3. CASE ~pOpen
  <2>1. \A p \in Pushers : pPc[p] = "idle"
    BY <1>3 DEF SpscInv
  <2>2. buf' = [i \in SlotIds |-> Uninit]
    BY <1>1, <1>3, <2>1, RingDropInv DEF DropConsumer
  <2>3. TypeOK' /\ ~Open'
    BY <1>1, <1>2, <1>3, <2>2 DEF TypeOK, Open
  <2> QED
    BY <1>1, <1>2, <2>1, <2>2, <2>3 DEF SpscInv
<1>4. CASE pOpen
  <2>1. UNCHANGED ring /\ Open'
    BY <1>1, <1>2, <1>4 DEF DropConsumer, ring, Open
  <2>2. TypeOK'
    BY <1>1, <1>2, <2>1 DEF TypeOK, ring
  <2>3. \A n \in 0 .. Cap - 1 : Full(n)' <=> buf'[Place(n)'] # Uninit
    BY <1>1, <1>2, <2>1, SameSlots
  <2> QED
    BY <1>1, <1>2, <2>1, <2>2, <2>3 DEF SpscInv
<1> QED
  BY <1>3, <1>4

LEMMA SpscStep ==
  ASSUME OneProducer, SpscInv, [Next]_vars
  PROVE  SpscInv'
<1>1. CASE UNCHANGED vars
  <2>1. UNCHANGED <<ring, producer, consumer>> /\ UNCHANGED <<pPc, pOpen, cPc>>
    BY <1>1 DEF vars, producer, consumer
  <2>2. TypeOK' /\ Open' = Open /\ Used' = Used
    BY <2>1 DEF SpscInv, TypeOK, Open, Used, ring, producer, consumer
  <2>3. Open => \A n \in 0 .. Cap - 1 : Full(n)' <=> buf'[Place(n)'] # Uninit
    BY <2>1, <2>2, SameSlots
  <2> QED
    BY <2>1, <2>2, <2>3 DEF SpscInv, ring, producer, consumer
<1>2. CASE Next
  BY <1>2, PushLoadInv, PushWriteInv, PushStoreInv, CallPopInv, PopLoadInv, PopReadInv,
     PopStoreInv, DropProducerInv, DropConsumerInv DEF Next
<1> QED
  BY <1>1, <1>2

-----------------------------------------------------------------------------
(* The theorems                                                            *)

\* The SAFETY comments of push and pop, for every capacity and cursor width: with one
\* producer, push writes only an empty slot, pop reads only a written one, never the same.
THEOREM SpscSlotsExclusive == ASSUME OneProducer PROVE Spec => []SlotsExclusive
<1>1. SpscInv /\ [Next]_vars => SpscInv'
  BY SpscStep
<1>2. SpscInv => SlotsExclusive
  BY InvImplies
<1> QED
  BY SpscInitInv, <1>1, <1>2, PTL DEF Spec

\* Ring::drop leaves no value behind and drops none twice, whatever the two ends did
\* before and whichever of them goes last.
THEOREM SpscDropIsExact == ASSUME OneProducer PROVE Spec => []DropIsExact
<1>1. SpscInv /\ [Next]_vars => SpscInv'
  BY SpscStep
<1>2. SpscInv => DropIsExact
  BY InvImplies
<1> QED
  BY SpscInitInv, <1>1, <1>2, PTL DEF Spec

-----------------------------------------------------------------------------
(* The refinement                                                          *)

\* The value n places behind head.
Item(n) == IF n = 0 /\ cPc = "publish" THEN cVal ELSE buf[Place(n)]

QueueOK ==
  /\ Queue \in Seq(Vals) /\ Len(Queue) = Used
  /\ \A n \in 1 .. Used : Queue[n] = Item(n - 1)

LEMMA QueueIs == SpscInv /\ Open => QueueOK
<1> SUFFICES ASSUME SpscInv, Open PROVE QueueOK
  OBVIOUS
<1>1. TypeOK /\ Used \in Nat /\ Used <= Cap /\ Cap \in Nat \ {0}
  BY Places, RingSizes DEF SpscInv
<1>2. Queue = [n \in 1 .. Used |-> Item(n - 1)]
  <2>1. \A n \in 1 .. Used : (n = 1 <=> n - 1 = 0)
    BY <1>1
  <2> QED
    BY <2>1 DEF Queue, Item, Place, Used
<1>3. \A n \in 1 .. Used : Item(n - 1) \in Vals
  <2> TAKE n \in 1 .. Used
  <2>1. n - 1 \in 0 .. Cap - 1 /\ n - 1 < Used
    BY <1>1
  <2>2. CASE n - 1 = 0 /\ cPc = "publish"
    BY <2>2 DEF Item, SpscInv
  <2>3. CASE ~(n - 1 = 0 /\ cPc = "publish")
    <3>1. Full(n - 1)
      BY <2>1, <2>3 DEF Full
    <3>2. buf[Place(n - 1)] # Uninit /\ Place(n - 1) \in SlotIds
      BY <1>1, <2>1, <3>1, Places DEF SpscInv
    <3>3. Item(n - 1) = buf[Place(n - 1)]
      BY <2>3 DEF Item
    <3> QED
      BY <1>1, <3>2, <3>3 DEF TypeOK
  <2> QED
    BY <2>2, <2>3
<1>4. Queue \in [1 .. Used -> Vals]
  BY <1>2, <1>3
<1>5. Queue \in Seq(Vals)
  BY <1>1, <1>4, SeqDef
<1>6. Len(Queue) = Used
  BY <1>1, <1>4, <1>5, LenProperties
<1> QED
  BY <1>2, <1>5, <1>6, Zenon DEF QueueOK

LEMMA QueueIsAfter == SpscInv' /\ Open' => QueueOK'
BY QueueIs, PTL

\* The step leaves every queued value in its place.
LEMMA SameQueue ==
  ASSUME SpscInv, SpscInv', Open, Open', Used' = Used,
         \A n \in 0 .. Used - 1 : Item(n)' = Item(n)
  PROVE  Queue' = Queue
<1>1. QueueOK /\ QueueOK' /\ Used \in Nat
  BY QueueIs, QueueIsAfter, Places DEF SpscInv
<1>2. /\ Queue \in Seq(Vals) /\ Len(Queue) = Used
      /\ \A n \in 1 .. Used : Queue[n] = Item(n - 1)
  BY <1>1 DEF QueueOK
<1>3. /\ Queue' \in Seq(Vals) /\ Len(Queue') = Used
      /\ \A n \in 1 .. Used : Queue'[n] = Item(n - 1)'
  BY <1>1 DEF QueueOK
<1>4. \A n \in 1 .. Used : n - 1 \in 0 .. Used - 1
  BY <1>1
<1>5. \A n \in 1 .. Used : Queue'[n] = Queue[n]
  BY <1>2, <1>3, <1>4
<1> QED
  BY <1>2, <1>3, <1>5, SeqEqual

LEMMA RefineInit == Init => Fifo!Init
<1> SUFFICES ASSUME Init PROVE Fifo!Init
  OBVIOUS
<1>1. SpscInv /\ Open
  BY SpscInitInv DEF Init, Open
<1>2. Used = 0
  BY <1>1, UsedIs DEF SpscInv, TypeOK, Init
<1>3. Queue = <<>>
  BY <1>1, <1>2, QueueIs, EmptySeq DEF QueueOK
<1> QED
  BY <1>1, <1>3 DEF Init, Fifo!Init

LEMMA RefinePushLoad ==
  ASSUME SpscInv, SpscInv', NEW p \in Pushers, NEW v \in Vals, PushLoad(p, v)
  PROVE  Fifo!PushFull \/ UNCHANGED Fifo!fvars
<1>1. Open /\ Open' /\ UNCHANGED <<ring, consumer>>
  BY DEF PushLoad, Open, consumer
<1>2. Used' = Used /\ UNCHANGED <<cPc, cVal, popRes, buf>> /\ \A n \in 0 .. Used - 1 : Place(n)' = Place(n)
  BY <1>1 DEF ring, consumer, Used, Place
<1>3. Queue' = Queue
  <2>1. \A n \in 0 .. Used - 1 : Item(n)' = Item(n)
    BY <1>2 DEF Item
  <2> QED
    BY <1>1, <1>2, <2>1, SameQueue
<1>4. CASE IsFull
  <2>1. Len(Queue) = Cap
    BY <1>1, <1>4, QueueIs DEF QueueOK, IsFull, Used
  <2> QED
    BY <1>1, <1>2, <1>3, <1>4, <2>1 DEF PushLoad, Fifo!PushFull
<1>5. CASE ~IsFull
  BY <1>1, <1>2, <1>3, <1>5 DEF PushLoad, Fifo!fvars
<1> QED
  BY <1>4, <1>5

LEMMA RefinePushWrite ==
  ASSUME OneProducer, SpscInv, SpscInv', NEW p \in Pushers, PushWrite(p)
  PROVE  UNCHANGED Fifo!fvars
<1>1. Open /\ Open' /\ pTail[p] = tail /\ Used < Cap
  BY DEF PushWrite, SpscInv, Open, consumer
<1>2. /\ buf' = [buf EXCEPT ![Slot(tail)] = pVal[p]]
      /\ UNCHANGED <<tail, head, pushRes, cPc, cVal, popRes>>
  BY <1>1 DEF PushWrite, consumer
<1>3. TypeOK /\ Used' = Used /\ Used \in 0 .. Cap - 1 /\ Place(Used) = Slot(tail)
  <2>1. TypeOK
    BY <1>1 DEF SpscInv
  <2>2. Used' = Used
    BY <1>2 DEF Used
  <2>3. Used \in Nat /\ Place(Used) = Slot(tail)
    BY <1>1, <2>1, Places
  <2>4. Used \in 0 .. Cap - 1
    BY <1>1, <2>3, RingSizes
  <2> QED
    BY <2>1, <2>2, <2>3, <2>4
<1>4. \A n \in 0 .. Used - 1 : Item(n)' = Item(n)
  <2> TAKE n \in 0 .. Used - 1
  <2>1. n \in 0 .. Cap - 1 /\ n # Used
    BY <1>3, RingSizes
  <2>2. Place(n)' = Place(n) /\ Place(n) # Slot(tail) /\ Place(n) \in SlotIds
    BY <1>2, <1>3, <2>1, Places DEF Place
  <2>3. buf'[Place(n)] = buf[Place(n)]
    BY <1>2, <1>3, <2>2 DEF TypeOK
  <2> QED
    BY <1>2, <2>2, <2>3 DEF Item
<1>5. Queue' = Queue
  BY <1>1, <1>3, <1>4, SameQueue
<1> QED
  BY <1>1, <1>2, <1>5 DEF Fifo!fvars

LEMMA RefinePushStore ==
  ASSUME OneProducer, SpscInv, SpscInv', NEW p \in Pushers, PushStore(p)
  PROVE  \E v \in Vals : Fifo!Push(v)
<1>1. Open /\ Open' /\ pTail[p] = tail /\ Used < Cap /\ pPc[p] = "publish"
  BY DEF PushStore, SpscInv, Open, consumer
<1>2. tail' = WrappingAdd(tail, 1) /\ pushRes' = "ok" /\ UNCHANGED <<buf, head, cPc, cVal, popRes>>
  BY <1>1 DEF PushStore, consumer
<1>3. TypeOK /\ Used' = Used + 1 /\ Used \in Nat /\ Used \in 0 .. Cap - 1 /\ Place(Used) \in SlotIds
  <2>1. TypeOK
    BY <1>1 DEF SpscInv
  <2>2. Used' = Used + 1
    BY <1>1, <1>2, <2>1, PushedUsed
  <2>3. Used \in Nat
    BY <2>1, Places
  <2>4. Used \in 0 .. Cap - 1
    BY <1>1, <2>3, RingSizes
  <2>5. Place(Used) \in SlotIds
    BY <2>1, <2>4, Places
  <2> QED
    BY <2>1, <2>2, <2>3, <2>4, <2>5
<1> DEFINE v == buf[Place(Used)]
<1>4. v \in Vals /\ ~(Used = 0 /\ cPc = "publish")
  <2>1. Full(Used)
    BY <1>1 DEF Full
  <2>2. v # Uninit
    BY <1>1, <1>3, <2>1 DEF SpscInv
  <2>3. ~(Used = 0 /\ cPc = "publish")
    BY <1>3 DEF SpscInv
  <2> QED
    BY <1>3, <2>2, <2>3 DEF TypeOK
<1>5. \A n \in 0 .. Used : Item(n)' = IF n = Used THEN v ELSE Item(n)
  <2>1. \A n \in 0 .. Used : Place(n)' = Place(n)
    BY <1>2 DEF Place
  <2> QED
    BY <1>2, <1>4, <2>1 DEF Item
<1> HIDE DEF v
<1>6. /\ Queue \in Seq(Vals) /\ Len(Queue) = Used
      /\ \A n \in 1 .. Used : Queue[n] = Item(n - 1)
  BY <1>1, QueueIs DEF QueueOK
<1>7. /\ Queue' \in Seq(Vals) /\ Len(Queue') = Used + 1
      /\ \A n \in 1 .. Used + 1 : Queue'[n] = Item(n - 1)'
  BY <1>1, <1>3, QueueIsAfter DEF QueueOK
<1>8. /\ Append(Queue, v) \in Seq(Vals) /\ Len(Append(Queue, v)) = Used + 1
      /\ \A n \in 1 .. Used : Append(Queue, v)[n] = Queue[n]
      /\ Append(Queue, v)[Used + 1] = v
  BY <1>4, <1>6, AppendProperties
<1>9. Queue' = Append(Queue, v)
  <2>1. \A n \in 1 .. Used : Queue'[n] = Queue[n]
    <3>1. \A n \in 1 .. Used : n \in 1 .. Used + 1 /\ n - 1 \in 0 .. Used /\ n - 1 # Used
      BY <1>3
    <3> QED
      BY <1>5, <1>6, <1>7, <3>1
  <2>2. Queue'[Used + 1] = v
    <3>1. Used + 1 \in 1 .. Used + 1 /\ (Used + 1) - 1 = Used /\ Used \in 0 .. Used
      BY <1>3
    <3>2. \A n \in 1 .. Used + 1 : n - 1 = Used => Queue'[n] = v
      <4>1. \A n \in 1 .. Used + 1 : n - 1 \in 0 .. Used
        BY <1>3
      <4> QED
        BY <1>5, <1>7, <4>1
    <3> QED
      BY <3>1, <3>2
  <2>3. \A n \in 1 .. Used + 1 : n \in 1 .. Used \/ n = Used + 1
    BY <1>3
  <2>4. \A n \in 1 .. Used + 1 : Queue'[n] = Append(Queue, v)[n]
    BY <1>8, <2>1, <2>2, <2>3
  <2> QED
    BY <1>7, <1>8, <2>4, SeqEqual
<1>10. Fifo!Push(v)
  BY <1>1, <1>2, <1>6, <1>9 DEF Fifo!Push
<1> QED
  BY <1>4, <1>10

LEMMA RefinePopLoad ==
  ASSUME SpscInv, SpscInv', PopLoad
  PROVE  Fifo!PopEmpty \/ UNCHANGED Fifo!fvars
<1>1. /\ Open /\ Open' /\ UNCHANGED <<ring, producer, cVal>>
      /\ cPc = "idle" /\ cPc' # "publish"
  BY DEF PopLoad, Open, producer
<1>2. /\ Used' = Used /\ UNCHANGED <<buf, pushRes>> /\ \A n \in 0 .. Used - 1 : Place(n)' = Place(n)
  BY <1>1 DEF ring, producer, Used, Place
<1>3. Queue' = Queue
  <2>1. \A n \in 0 .. Used - 1 : Item(n)' = Item(n)
    BY <1>1, <1>2 DEF Item
  <2> QED
    BY <1>1, <1>2, <2>1, SameQueue
<1>4. CASE head = tail
  <2>1. Used = 0
    BY <1>4, UsedIs DEF SpscInv, TypeOK
  <2>2. Queue = <<>>
    BY <1>1, <2>1, QueueIs, EmptySeq DEF QueueOK
  <2> QED
    BY <1>1, <1>2, <1>3, <1>4, <2>2 DEF PopLoad, Fifo!PopEmpty
<1>5. CASE head # tail
  BY <1>1, <1>2, <1>3, <1>5 DEF PopLoad, Fifo!fvars
<1> QED
  BY <1>4, <1>5

LEMMA RefinePopRead ==
  ASSUME SpscInv, SpscInv', PopRead
  PROVE  UNCHANGED Fifo!fvars
<1>1. /\ Open /\ Open' /\ cPc = "read" /\ cPc' = "publish" /\ cHead = head
      /\ cVal' = buf[Slot(head)] /\ buf' = [buf EXCEPT ![Slot(head)] = Uninit]
      /\ UNCHANGED <<tail, head, pushRes, popRes>>
  BY DEF PopRead, Open, SpscInv, producer
<1>2. TypeOK /\ Cap \in Nat \ {0} /\ Used \in Nat /\ Used <= Cap /\ Used' = Used
  BY <1>1, RingSizes, Places DEF SpscInv, Used
<1>3. \A n \in 0 .. Used - 1 : Item(n)' = Item(n)
  <2> TAKE n \in 0 .. Used - 1
  <2>1. n \in 0 .. Cap - 1 /\ 0 \in 0 .. Cap - 1 /\ Place(0) = Slot(head)
    BY <1>2, Places
  <2>2. Place(n)' = Place(n) /\ Place(n) \in SlotIds
    BY <1>1, <1>2, <2>1, Places DEF Place
  <2>3. CASE n = 0
    BY <1>1, <2>1, <2>3 DEF Item
  <2>4. CASE n # 0
    <3>1. Place(n) # Slot(head)
      BY <1>2, <2>1, <2>4, Places
    <3>2. buf'[Place(n)] = buf[Place(n)]
      BY <1>1, <1>2, <2>2, <3>1 DEF TypeOK
    <3> QED
      BY <2>2, <2>4, <3>2 DEF Item
  <2> QED
    BY <2>3, <2>4
<1>4. Queue' = Queue
  BY <1>1, <1>2, <1>3, SameQueue
<1> QED
  BY <1>1, <1>4 DEF Fifo!fvars

LEMMA RefinePopStore ==
  ASSUME SpscInv, SpscInv', PopStore
  PROVE  Fifo!Pop
<1>1. /\ Open /\ Open' /\ cPc = "publish" /\ cPc' = "idle" /\ Used > 0
      /\ head' = WrappingAdd(head, 1) /\ popRes' = cVal /\ UNCHANGED <<buf, tail, pushRes>>
  BY DEF PopStore, SpscInv, Open, producer
<1>2. TypeOK /\ Used \in Nat /\ Used <= Cap /\ Used' = Used - 1 /\ Cap \in Nat
  BY <1>1, Places, PoppedUsed, RingSizes DEF SpscInv
<1>3. /\ Queue \in Seq(Vals) /\ Len(Queue) = Used
      /\ \A n \in 1 .. Used : Queue[n] = Item(n - 1)
  BY <1>1, QueueIs DEF QueueOK
<1>4. /\ Queue' \in Seq(Vals) /\ Len(Queue') = Used - 1
      /\ \A n \in 1 .. Used - 1 : Queue'[n] = Item(n - 1)'
  BY <1>1, <1>2, QueueIsAfter DEF QueueOK
<1>5. Queue # <<>> /\ Head(Queue) = cVal
  <2>1. Queue # <<>> /\ Head(Queue) = Queue[1]
    BY <1>1, <1>2, <1>3, EmptySeq, HeadTailProperties
  <2>2. 1 \in 1 .. Used /\ 1 - 1 = 0
    BY <1>1, <1>2
  <2>3. \A n \in 1 .. Used : n - 1 = 0 => Item(n - 1) = cVal
    BY <1>1 DEF Item
  <2> QED
    BY <1>3, <2>1, <2>2, <2>3
<1>6. /\ Tail(Queue) \in Seq(Vals) /\ Len(Tail(Queue)) = Used - 1
      /\ \A n \in 1 .. Used - 1 : Tail(Queue)[n] = Queue[n + 1]
  BY <1>3, <1>5, HeadTailProperties
<1>7. \A n \in 1 .. Used - 1 : Queue'[n] = Queue[n + 1]
  <2> TAKE n \in 1 .. Used - 1
  <2> DEFINE k == n - 1
             j == n + 1
  <2>1. k \in 0 .. Cap - 1 /\ k + 1 < Cap /\ k + 1 # 0 /\ j \in 1 .. Used /\ j - 1 = k + 1
    BY <1>2
  <2>2. Place(k)' = Place(k + 1)
    <3> HIDE DEF k
    <3> QED
      BY <1>1, <1>2, <2>1, PoppedPlace
  <2>3. Queue'[n] = buf[Place(k)']
    BY <1>1, <1>4 DEF Item
  <2>4. Queue[j] = Item(k + 1)
    <3> HIDE DEF j, k
    <3> QED
      BY <1>3, <2>1
  <2>5. Item(k + 1) = buf[Place(k + 1)]
    BY <2>1 DEF Item
  <2> QED
    BY <2>2, <2>3, <2>4, <2>5
<1>8. Queue' = Tail(Queue)
  <2>1. \A n \in 1 .. Used - 1 : Queue'[n] = Tail(Queue)[n]
    BY <1>6, <1>7
  <2> QED
    BY <1>4, <1>6, <2>1, SeqEqual
<1> QED
  BY <1>1, <1>5, <1>8 DEF Fifo!Pop

\* A step of an end that leaves the ring alone.
LEMMA RefineSame ==
  ASSUME SpscInv, SpscInv', Open, Open', UNCHANGED <<ring, pushRes, popRes, cVal>>,
         cPc = "publish" <=> cPc' = "publish"
  PROVE  UNCHANGED Fifo!fvars
<1>1. Used' = Used /\ UNCHANGED buf /\ \A n \in 0 .. Used - 1 : Place(n)' = Place(n)
  BY DEF ring, Used, Place
<1>2. \A n \in 0 .. Used - 1 : Item(n)' = Item(n)
  BY <1>1 DEF Item
<1>3. Queue' = Queue
  BY <1>1, <1>2, SameQueue
<1> QED
  BY <1>3 DEF Fifo!fvars

\* Once both ends are gone the queue is empty.
QueueGone == Queue = <<>>

LEMMA ClosedQueue == ~Open => QueueGone
<1> SUFFICES ASSUME ~Open PROVE Queue = <<>>
  BY DEF QueueGone
<1>1. DOMAIN Queue = 1 .. 0 /\ Queue = [n \in 1 .. 0 |-> Queue[n]]
  BY DEF Queue
<1> QED
  BY <1>1

LEMMA ClosedQueueAfter == ~Open' => QueueGone'
BY ClosedQueue, PTL

LEMMA RefineDrop ==
  ASSUME SpscInv, SpscInv', DropProducer \/ DropConsumer
  PROVE  Fifo!Close \/ UNCHANGED Fifo!fvars
<1>1. /\ Open /\ UNCHANGED <<pushRes, popRes, cVal, tail, head>>
      /\ cPc = "publish" <=> cPc' = "publish"
  <2>1. CASE DropProducer
    BY <2>1 DEF DropProducer, Open, consumer
  <2>2. CASE DropConsumer
    BY <2>2 DEF DropConsumer, Open, producer
  <2> QED
    BY <2>1, <2>2
<1>2. CASE Open'
  <2>1. UNCHANGED ring
    BY <1>1, <1>2 DEF DropProducer, DropConsumer, Open, ring, consumer, producer
  <2> QED
    BY <1>1, <1>2, <2>1, RefineSame
<1>3. CASE ~Open'
  <2>1. Queue' = <<>>
    BY <1>3, ClosedQueueAfter DEF QueueGone
  <2> QED
    BY <1>1, <1>3, <2>1 DEF Fifo!Close
<1> QED
  BY <1>2, <1>3

LEMMA RefineStep ==
  ASSUME OneProducer, SpscInv, SpscInv', [Next]_vars
  PROVE  [Fifo!Next]_Fifo!fvars
<1>1. CASE UNCHANGED vars
  BY <1>1 DEF vars, ring, producer, consumer, Fifo!fvars, Queue, Open, Slot, WrappingAdd, WrappingSub
<1>2. ASSUME NEW p \in Pushers, NEW v \in Vals, PushLoad(p, v) PROVE [Fifo!Next]_Fifo!fvars
  BY <1>2, RefinePushLoad DEF Fifo!Next
<1>3. ASSUME NEW p \in Pushers, PushWrite(p) PROVE [Fifo!Next]_Fifo!fvars
  BY <1>3, RefinePushWrite
<1>4. ASSUME NEW p \in Pushers, PushStore(p) PROVE [Fifo!Next]_Fifo!fvars
  BY <1>4, RefinePushStore DEF Fifo!Next
<1>5. ASSUME NEW max \in 1 .. MaxDrain, CallPop(max) PROVE [Fifo!Next]_Fifo!fvars
  <2>1. Open /\ Open' /\ UNCHANGED <<ring, pushRes, popRes, cVal, cPc>>
    BY <1>5 DEF CallPop, Open, producer
  <2> QED
    BY <2>1, RefineSame
<1>6. CASE PopLoad
  BY <1>6, RefinePopLoad DEF Fifo!Next
<1>7. CASE PopRead
  BY <1>7, RefinePopRead
<1>8. CASE PopStore
  BY <1>8, RefinePopStore DEF Fifo!Next
<1>9. CASE DropProducer \/ DropConsumer
  BY <1>9, RefineDrop DEF Fifo!Next
<1> QED
  BY <1>1, <1>2, <1>3, <1>4, <1>5, <1>6, <1>7, <1>8, <1>9 DEF Next

\* The ring of spsc.rs implements a bounded FIFO queue for every capacity, also when its
\* cursors wrap around: nothing is lost, duplicated or reordered, and push and pop fail
\* exactly when the queue was full or empty.
THEOREM SpscImplementsFifo == ASSUME OneProducer PROVE Spec => ImplementsFifo
<1>1. SpscInv /\ [Next]_vars => SpscInv'
  BY SpscStep
<1>2. SpscInv /\ SpscInv' /\ [Next]_vars => [Fifo!Next]_Fifo!fvars
  BY RefineStep
<1> QED
  BY SpscInitInv, RefineInit, <1>1, <1>2, PTL DEF Spec, ImplementsFifo, Fifo!Spec
=============================================================================
