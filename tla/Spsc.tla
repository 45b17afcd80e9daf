-------------------------------- MODULE Spsc --------------------------------
(***************************************************************************)
(* The single-producer single-consumer ring of spsc.rs.  The load of the   *)
(* cursors, the access to the slot and the store of the own cursor are     *)
(* separate steps.  A slot is initialized from its write until the value   *)
(* is moved or dropped out of it.  Cursors wrap at 2^WordBits.  push takes *)
(* &self: Pushers are the threads that call it, one when the end is used   *)
(* as its documentation says.                                              *)
(***************************************************************************)
EXTENDS Naturals, FiniteSets

CONSTANTS
  Vals,       \* the values that are sent
  Pushers,    \* the threads that hold a reference to the Producer
  Capacity,   \* the argument of channel
  WordBits,   \* width of usize
  MaxDrain,   \* largest max of a drain call
  Uninit      \* contents of an uninitialized slot

VARIABLES
  buf, tail, head,             \* the Ring
  pPc, pTail, pVal,            \* a push: label, tail read, value
  pOpen, pushRes,              \* the Producer exists; result of the last push
  cPc, cHead, cVal, popRes,    \* pop: label, head, value, last result
  left                         \* items the current pop or drain may still take

ring == <<buf, tail, head>>
producer == <<pPc, pTail, pVal, pOpen, pushRes>>
consumer == <<cPc, cHead, cVal, popRes, left>>
vars == <<ring, producer, consumer>>

Word == 2 ^ WordBits
Cursors == 0 .. Word - 1

\* capacity.max(2).next_power_of_two()
Cap == CHOOSE c \in {2 ^ k : k \in 1 .. WordBits} :
         c >= Capacity /\ \A k \in 1 .. WordBits : 2 ^ k >= Capacity => c <= 2 ^ k

\* channel allocates Cap slots, at most half of the address space, and both
\* numbers are powers of two.
ASSUME SpscAssumption ==
  /\ Word \in Nat \ {0} /\ Cap \in Nat \ {0} /\ MaxDrain \in Nat \ {0}
  /\ \E m \in 2 .. Word : Word = m * Cap
  /\ Uninit \notin Vals
  /\ Vals \cap {"none", "ok", "full", "empty"} = {}

SlotIds == 0 .. Cap - 1

\* i & mask, of a mask of ones
Slot(i) == i % Cap

\* Mutant: the cursor does not wrap.
WrappingAdd_NoWrap(i, n) == i + n
WrappingAdd(i, n) == (i + n) % Word
WrappingSub(i, j) == (i + Word - j) % Word

TypeOK ==
  /\ buf \in [SlotIds -> Vals \cup {Uninit}]
  /\ tail \in Cursors /\ head \in Cursors
  /\ pPc \in [Pushers -> {"idle", "write", "publish"}]
  /\ pTail \in [Pushers -> Cursors] /\ pVal \in [Pushers -> Vals \cup {Uninit}]
  /\ pOpen \in BOOLEAN /\ pushRes \in {"none", "ok", "full"}
  /\ cPc \in {"idle", "read", "publish", "dropped"}
  /\ cHead \in Cursors /\ cVal \in Vals \cup {Uninit}
  /\ popRes \in Vals \cup {"none", "empty"}
  /\ left \in 0 .. MaxDrain

Init ==
  /\ buf = [i \in SlotIds |-> Uninit] /\ tail = 0 /\ head = 0
  /\ pPc = [p \in Pushers |-> "idle"] /\ pTail = [p \in Pushers |-> 0]
  /\ pVal = [p \in Pushers |-> Uninit] /\ pOpen = TRUE /\ pushRes = "none"
  /\ cPc = "idle" /\ cHead = 0 /\ cVal = Uninit /\ popRes = "none"
  /\ left = 0

-----------------------------------------------------------------------------
(* push                                                                    *)

\* Mutants: the full ring is recognised one element too late; one slot is
\* kept empty.
IsFull_OneTooMany == WrappingSub(tail, head) = Cap + 1
IsFull_OneTooFew == WrappingSub(tail, head) = Cap - 1
IsFull == WrappingSub(tail, head) = Cap

PushLoad(p, v) ==
  /\ pOpen /\ pPc[p] = "idle"
  /\ IF IsFull
     THEN pushRes' = "full" /\ UNCHANGED <<pPc, pTail, pVal>>
     ELSE /\ pPc' = [pPc EXCEPT ![p] = "write"]
          /\ pTail' = [pTail EXCEPT ![p] = tail]
          /\ pVal' = [pVal EXCEPT ![p] = v]
          /\ UNCHANGED pushRes
  /\ UNCHANGED <<ring, pOpen, consumer>>

PushWrite(p) ==
  /\ pPc[p] = "write"
  /\ buf' = [buf EXCEPT ![Slot(pTail[p])] = pVal[p]]
  /\ pPc' = [pPc EXCEPT ![p] = "publish"] /\ pVal' = [pVal EXCEPT ![p] = Uninit]
  /\ UNCHANGED <<tail, head, pTail, pOpen, pushRes, consumer>>

PushStore(p) ==
  /\ pPc[p] = "publish"
  /\ tail' = WrappingAdd(pTail[p], 1)
  /\ pPc' = [pPc EXCEPT ![p] = "idle"] /\ pTail' = [pTail EXCEPT ![p] = 0]
  /\ pushRes' = "ok"
  /\ UNCHANGED <<buf, head, pVal, pOpen, consumer>>

-----------------------------------------------------------------------------
(* pop and drain: a pop is a drain of one item                             *)

CallPop(max) ==
  /\ cPc = "idle" /\ left = 0
  /\ left' = max
  /\ UNCHANGED <<ring, producer, cPc, cHead, cVal, popRes>>

PopLoad ==
  /\ cPc = "idle" /\ left > 0
  /\ IF head = tail
     THEN popRes' = "empty" /\ left' = 0 /\ UNCHANGED <<cPc, cHead>>
     ELSE cPc' = "read" /\ cHead' = head /\ UNCHANGED <<popRes, left>>
  /\ UNCHANGED <<ring, producer, cVal>>

PopRead ==
  /\ cPc = "read"
  /\ cVal' = buf[Slot(cHead)]
  /\ buf' = [buf EXCEPT ![Slot(cHead)] = Uninit]
  /\ cPc' = "publish"
  /\ UNCHANGED <<tail, head, producer, cHead, popRes, left>>

PopStore ==
  /\ cPc = "publish"
  /\ head' = WrappingAdd(cHead, 1)
  /\ popRes' = cVal
  /\ cPc' = "idle" /\ cHead' = 0 /\ cVal' = Uninit /\ left' = left - 1
  /\ UNCHANGED <<buf, tail, producer>>

-----------------------------------------------------------------------------
(* Dropping the ends; the second one runs Ring::drop                       *)

\* The slots the loop of Ring::drop visits; mutant: all but the last.
Queued_ButLast == {Slot(WrappingAdd(head, n)) : n \in {m \in 0 .. Word : m + 1 < WrappingSub(tail, head)}}
Queued == {Slot(WrappingAdd(head, n)) : n \in {m \in 0 .. Word : m < WrappingSub(tail, head)}}

RingDrop == buf' = [i \in SlotIds |-> IF i \in Queued THEN Uninit ELSE buf[i]]

\* The Producer is dropped when no thread borrows it any more.
DropProducer ==
  /\ pOpen /\ \A p \in Pushers : pPc[p] = "idle"
  /\ pOpen' = FALSE
  /\ IF cPc = "dropped" THEN RingDrop ELSE UNCHANGED buf
  /\ UNCHANGED <<tail, head, pPc, pTail, pVal, pushRes, consumer>>

DropConsumer ==
  /\ cPc = "idle" /\ left = 0
  /\ cPc' = "dropped"
  /\ IF pOpen THEN UNCHANGED buf ELSE RingDrop
  /\ UNCHANGED <<tail, head, producer, cHead, cVal, popRes, left>>

Next ==
  \/ \E p \in Pushers : (\E v \in Vals : PushLoad(p, v)) \/ PushWrite(p) \/ PushStore(p)
  \/ \E max \in 1 .. MaxDrain : CallPop(max)
  \/ PopLoad \/ PopRead \/ PopStore
  \/ DropProducer \/ DropConsumer

Spec == Init /\ [][Next]_vars

-----------------------------------------------------------------------------
(* Properties                                                              *)

\* One of the ends is still there.
Open == pOpen \/ cPc # "dropped"

\* The SAFETY comments of push and pop: the slot push writes holds no value
\* that would be overwritten, the slot pop reads was fully written, and the
\* two ends never touch the same slot at once.  It rests on one thread pushing,
\* which the comment at the Send impls claims: "never `Sync` (would allow two
\* producers/consumers)".
SlotsExclusive ==
  /\ \A p \in Pushers : pPc[p] = "write" => buf[Slot(pTail[p])] = Uninit
  /\ cPc = "read" => buf[Slot(cHead)] # Uninit
  /\ cPc = "read" => \A p \in Pushers : pPc[p] = "write" => Slot(pTail[p]) # Slot(cHead)

\* Ring::drop is exact: between two calls the slots in [head, tail) are the
\* initialized ones, so that it drops no uninitialized slot, and once both ends
\* are gone no value is left behind.
DropIsExact ==
  /\ (\A p \in Pushers : pPc[p] = "idle") /\ cPc \in {"idle", "dropped"} /\ Open
       => \A i \in SlotIds : i \in Queued <=> buf[i] # Uninit
  /\ ~Open => \A i \in SlotIds : buf[i] = Uninit

Queue == [n \in 1 .. IF Open THEN WrappingSub(tail, head) ELSE 0 |->
            IF n = 1 /\ cPc = "publish" THEN cVal ELSE buf[Slot(WrappingAdd(head, n - 1))]]
Fifo == INSTANCE BoundedFifo WITH q <- Queue, open <- Open

\* The ring is a bounded FIFO queue: the store of tail enqueues, the store of
\* head dequeues, and a push or a pop that gives up found the queue full or
\* empty when it read the other end's cursor.
ImplementsFifo == Fifo!Spec
=============================================================================
