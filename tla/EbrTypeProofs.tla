----------------------------- MODULE EbrTypeProofs -----------------------------
(***************************************************************************)
(* Proofs about Ebr, for any threads, objects, number of slots, collection *)
(* interval, epoch bound and nesting of guards: its types, what the slots  *)
(* and the scan rely on, and that no retired record is lost or duplicated. *)
(***************************************************************************)
EXTENDS Ebr, TLAPS

\* What the proofs need to know of the slot indices.
LEMMA SlotRange ==
  0 \in SlotIds /\ SlotIds \subseteq Nat /\ NoSlot \notin SlotIds
BY EbrAssumption DEF SlotIds

LEMMA NextSlot == ASSUME NEW i \in SlotIds, NEW j \in SlotIds, i <= j, i # j
                  PROVE  i + 1 \in SlotIds
BY EbrAssumption DEF SlotIds

\* An epoch modulo three names a bag.
LEMMA BagRange ==
  /\ \A n \in Nat : n % NBags \in BagIds
  /\ 0 \in BagIds
BY DEF BagIds, NBags

LEMMA NextBag == ASSUME NEW i \in BagIds, i # NBags - 1 PROVE i + 1 \in BagIds
BY DEF BagIds, NBags

LEMMA TickRange == \A n \in Nat : n % CollectInterval \in 0 .. CollectInterval - 1
BY EbrAssumption

LEMMA InitBase == Init => BaseInv
<1> SUFFICES ASSUME Init PROVE BaseInv
  OBVIOUS
<1> USE EbrAssumption, SlotRange, BagRange DEF Init
<1>1. TypeOK
  BY DEF TypeOK, Life, Labels
<1>2. SlotInv /\ PinInv /\ ScanInv /\ RetInv
  BY DEF SlotInv, PinInv, ScanInv, RetInv
<1>3. ListInv
  BY Zenon DEF ListInv, OneRecord, OneRecordOf
<1> QED
  BY <1>1, <1>2, <1>3 DEF BaseInv

LEMMA TypeStep == BaseInv /\ [Next]_vars => TypeOK'
<1> SUFFICES ASSUME BaseInv, [Next]_vars PROVE TypeOK'
  OBVIOUS
<1> USE EbrAssumption, SlotRange DEF BaseInv, TypeOK, Goto, Life, Labels, domainVars,
        pinVars, collectVars, objVars
<1>1. ASSUME NEW t \in Threads, ClaimSlot(t) PROVE TypeOK'
  BY <1>1 DEF ClaimSlot
<1>2. ASSUME NEW t \in Threads, SlotsExhausted(t) PROVE TypeOK'
  BY <1>2 DEF SlotsExhausted
<1>3. ASSUME NEW t \in Threads, PublishHwm(t) PROVE TypeOK'
  BY <1>3 DEF PublishHwm, SlotInv
<1>4. ASSUME NEW t \in Threads, PinLoad(t) PROVE TypeOK'
  <2>1. pc' = [pc EXCEPT ![t] = "pinStore"]
    BY <1>4 DEF PinLoad
  <2> QED
    BY <1>4, <2>1, Zenon DEF PinLoad
<1>5. ASSUME NEW t \in Threads, PinStore(t) PROVE TypeOK'
  <2>1. guards[t] + 1 \in 0 .. MaxGuards
    BY <1>5 DEF PinStore, PinInv
  <2> QED
    BY <1>5, <2>1, Zenon DEF PinStore
<1>6. ASSUME NEW t \in Threads, DropGuard(t) PROVE TypeOK'
  <2>1. (tick[t] + 1) % CollectInterval \in 0 .. CollectInterval - 1
    BY tick[t] + 1 \in Nat, TickRange
  <2>2. guards[t] - 1 \in 0 .. MaxGuards
    BY <1>6 DEF DropGuard
  <2>3. pc' \in [Threads -> Labels] /\ blockers' \in [Objs -> SUBSET Threads]
    BY <1>6 DEF DropGuard
  <2> QED
    BY <1>6, <2>1, <2>2, <2>3, Zenon DEF DropGuard
<1>7. ASSUME NEW t \in Threads, Exit(t) PROVE TypeOK'
  BY <1>7 DEF Exit
<1>8. ASSUME NEW t \in Threads, NEW o \in Objs, Publish(t, o) PROVE TypeOK'
  BY <1>8 DEF Publish
<1>9. ASSUME NEW t \in Threads, NEW o \in Objs, Unlink(t, o) PROVE TypeOK'
  BY <1>9 DEF Unlink, Pinned
<1>10. ASSUME NEW t \in Threads, RetireLoad(t) PROVE TypeOK'
  BY <1>10, Zenon DEF RetireLoad
<1>11. ASSUME NEW t \in Threads, RetirePush(t) PROVE TypeOK'
  <2>1. retObj[t] \in Objs /\ retEpoch[retObj[t]] % NBags \in BagIds
    BY <1>11, BagRange DEF RetirePush, RetInv
  <2> QED
    BY <1>11, <2>1 DEF RetirePush
<1>12. ASSUME NEW t \in Threads, ColLoad(t) PROVE TypeOK'
  <2>1. pc' = [pc EXCEPT ![t] = "colHwm"]
    BY <1>12 DEF ColLoad
  <2> QED
    BY <1>12, <2>1 DEF ColLoad
<1>13. ASSUME NEW t \in Threads, ColHwm(t) PROVE TypeOK'
  BY <1>13 DEF ColHwm
<1>14. ASSUME NEW t \in Threads, ColScan(t) PROVE TypeOK'
  BY <1>14, NextSlot, Zenon DEF ColScan, ScanInv
<1>15. ASSUME NEW t \in Threads, ColCas(t) PROVE TypeOK'
  BY <1>15 DEF ColCas
<1>16. ASSUME NEW t \in Threads, ColCur(t) PROVE TypeOK'
  BY <1>16, BagRange DEF ColCur
<1>17. ASSUME NEW t \in Threads, RecSwap(t) PROVE TypeOK'
  BY <1>17 DEF RecSwap
<1>18. ASSUME NEW t \in Threads, NEW o \in Objs, RecFree(t, o) PROVE TypeOK'
  BY <1>18 DEF RecFree
<1>19. ASSUME NEW t \in Threads, NEW o \in Objs, RecKeep(t, o) PROVE TypeOK'
  BY <1>19 DEF RecKeep
<1>20. ASSUME NEW t \in Threads, NEW o \in Objs, RecPush(t, o) PROVE TypeOK'
  BY <1>20 DEF RecPush
<1>21. ASSUME NEW t \in Threads, RecNext(t) PROVE TypeOK'
  <2>1. colBag[t] # NBags - 1 => colBag[t] + 1 \in BagIds
    BY NextBag, Zenon
  <2>2. pc' \in [Threads -> Labels]
    BY <1>21 DEF RecNext
  <2>3. colBag' \in [Threads -> BagIds] /\ colCur' \in [Threads -> Nat]
    BY <1>21, <2>1, BagRange, Zenon DEF RecNext
  <2> QED
    BY <1>21, <2>2, <2>3, Zenon DEF RecNext
<1>22. CASE UNCHANGED vars
  BY <1>22 DEF vars
<1> QED
  BY <1>1, <1>2, <1>3, <1>4, <1>5, <1>6, <1>7, <1>8, <1>9, <1>10, <1>11, <1>12,
     <1>13, <1>14, <1>15, <1>16, <1>17, <1>18, <1>19, <1>20, <1>21, <1>22, ZenonT(30)
     DEF Next, PinUnpin, Client, Collect

\* Labels of a thread that is inside pin.
PinLabels == {"hwm", "pinLoad", "pinStore"}

\* Outside pin and Guard::drop a step leaves slots and guards alone.
PinFrame(t) ==
  /\ UNCHANGED <<mySlot, slots, guards, hwm, pinEpoch>>
  /\ pc[t] \notin PinLabels
  /\ \E l \in Labels \ PinLabels : pc' = [pc EXCEPT ![t] = l]

LEMMA PinFrameStep ==
  ASSUME TypeOK, NEW t \in Threads,
         Client(t) \/ Collect(t) \/ SlotsExhausted(t)
  PROVE  PinFrame(t)
<1> USE DEF Goto, Labels, PinLabels, PinFrame, domainVars, pinVars
<1>1. CASE Client(t)
  <2>1. CASE RetireLoad(t)
    BY <2>1, Zenon DEF RetireLoad
  <2>2. CASE RetirePush(t)
    BY <2>2, Zenon DEF RetirePush
  <2>3. ASSUME NEW o \in Objs, Publish(t, o) \/ Unlink(t, o) PROVE PinFrame(t)
    BY <2>3 DEF Publish, Unlink, TypeOK
  <2> QED
    BY <1>1, <2>1, <2>2, <2>3 DEF Client
<1>2. CASE ColLoad(t) \/ ColHwm(t) \/ ColScan(t) \/ ColCas(t) \/ ColCur(t)
  BY <1>2 DEF ColLoad, ColHwm, ColScan, ColCas, ColCur
<1>3. CASE RecSwap(t) \/ RecNext(t)
  BY <1>3, Zenon DEF RecSwap, RecNext
<1>4. ASSUME NEW o \in Objs, RecFree(t, o) \/ RecKeep(t, o) \/ RecPush(t, o)
      PROVE  PinFrame(t)
  BY <1>4, SMTT(30) DEF RecFree, RecKeep, RecPush, TypeOK
<1>5. CASE SlotsExhausted(t)
  BY <1>5, Zenon DEF SlotsExhausted
<1> QED
  BY <1>1, <1>2, <1>3, <1>4, <1>5, ZenonT(30) DEF Collect

LEMMA SlotStep == BaseInv /\ [Next]_vars => SlotInv' /\ PinInv'
<1> SUFFICES ASSUME BaseInv, [Next]_vars PROVE SlotInv' /\ PinInv'
  OBVIOUS
<1>t. /\ slots \in [SlotIds -> Nat \cup {FREE, UNPINNED}]
      /\ hwm \in SlotIds
      /\ mySlot \in [Threads -> SlotIds \cup {NoSlot}]
      /\ guards \in [Threads -> 0 .. MaxGuards]
      /\ pc \in [Threads -> Labels]
  BY DEF BaseInv, TypeOK
<1>i. TypeOK /\ SlotInv /\ PinInv
  BY DEF BaseInv
<1> USE <1>t, <1>i, EbrAssumption, SlotRange DEF Goto, domainVars, pinVars
<1>1. ASSUME NEW t \in Threads, PinFrame(t) PROVE SlotInv' /\ PinInv'
  <2>1. PICK l \in Labels \ PinLabels : pc' = [pc EXCEPT ![t] = l]
    BY <1>1, Zenon DEF PinFrame
  <2>2. \A u \in Threads : pc'[u] \in PinLabels => pc[u] = pc'[u]
    BY <2>1 DEF PinLabels
  <2>3. \A u \in Threads : pc[u] = "hwm" => pc'[u] = "hwm"
    BY <1>1, <2>1 DEF PinFrame, PinLabels
  <2> QED
    BY <1>1, <2>2, <2>3 DEF PinFrame, SlotInv, PinInv, PinLabels
<1>2. ASSUME NEW t \in Threads, ClaimSlot(t) PROVE SlotInv' /\ PinInv'
  BY <1>2 DEF ClaimSlot, CanPin, SlotInv, PinInv
<1>3. ASSUME NEW t \in Threads, PublishHwm(t) PROVE SlotInv' /\ PinInv'
  <2>1. hwm' \in Nat /\ hwm <= hwm' /\ mySlot[t] <= hwm'
    <3>1. mySlot[t] \in Nat /\ hwm \in Nat
      BY <1>3, Zenon DEF PublishHwm, SlotInv
    <3> QED
      BY <1>3, <3>1 DEF PublishHwm
  <2>2. ASSUME NEW u \in Threads, mySlot[u] # NoSlot, pc'[u] # "hwm"
        PROVE  mySlot[u] <= hwm'
    <3>1. mySlot[u] \in Nat /\ hwm \in Nat
      BY <2>2, Zenon
    <3>2. u = t \/ mySlot[u] <= hwm
      BY <1>3, <2>2 DEF PublishHwm, SlotInv
    <3> QED
      BY <2>1, <3>1, <3>2
  <2> QED
    BY <1>3, <2>2 DEF PublishHwm, SlotInv, PinInv
<1>4. ASSUME NEW t \in Threads, PinLoad(t) PROVE SlotInv' /\ PinInv'
  BY <1>4 DEF PinLoad, CanPin, SlotInv, PinInv
<1>5. ASSUME NEW t \in Threads, PinStore(t) PROVE SlotInv' /\ PinInv'
  <2>1. guards[t] + 1 > 0 /\ mySlot[t] # NoSlot /\ pinEpoch[t] # FREE
    BY <1>5 DEF PinStore, SlotInv, BaseInv, TypeOK
  <2>2. SlotInv'
    BY <1>5, <2>1, Zenon DEF PinStore, SlotInv
  <2>3. PinInv'
    BY <1>5 DEF PinStore, PinInv
  <2> QED
    BY <2>2, <2>3, ZenonT(30)
<1>6. ASSUME NEW t \in Threads, DropGuard(t) PROVE SlotInv' /\ PinInv'
  BY <1>6 DEF DropGuard, SlotInv, PinInv
<1>7. ASSUME NEW t \in Threads, Exit(t) PROVE SlotInv' /\ PinInv'
  BY <1>7 DEF Exit, SlotInv, PinInv
<1>8. CASE UNCHANGED vars
  BY <1>8, SMTT(30) DEF vars, SlotInv, PinInv
<1> QED
  BY <1>1, <1>2, <1>3, <1>4, <1>5, <1>6, <1>7, <1>8, PinFrameStep DEF Next, PinUnpin

LEMMA ScanStep == BaseInv /\ [Next]_vars => ScanInv'
<1> SUFFICES ASSUME BaseInv, [Next]_vars PROVE ScanInv'
  OBVIOUS
<1>t. /\ hwm \in SlotIds
      /\ pc \in [Threads -> Labels]
      /\ colHwm \in [Threads -> SlotIds]
      /\ colIdx \in [Threads -> SlotIds]
  BY DEF BaseInv, TypeOK
<1>i. ScanInv
  BY DEF BaseInv
<1> USE <1>t, <1>i, SlotRange DEF Goto, domainVars, pinVars, collectVars, ScanInv
<1>1. ASSUME NEW t \in Threads, PinUnpin(t) PROVE ScanInv'
  BY <1>1, SMTT(30) DEF PinUnpin, ClaimSlot, SlotsExhausted, PublishHwm, PinLoad, PinStore,
              DropGuard, Exit
<1>2. ASSUME NEW t \in Threads, Client(t) PROVE ScanInv'
  BY <1>2, ZenonT(30) DEF Client, RetireLoad, RetirePush, Publish, Unlink
<1>3. ASSUME NEW t \in Threads, ColLoad(t) \/ ColCas(t) \/ ColCur(t)
      PROVE  ScanInv'
  BY <1>3 DEF ColLoad, ColCas, ColCur
<1>4. ASSUME NEW t \in Threads, ColHwm(t) \/ ColScan(t) PROVE ScanInv'
  <2>1. hwm \in Nat /\ colIdx[t] \in Nat /\ colHwm[t] \in Nat
    BY Zenon
  <2>2. pc'[t] = "colScan" => colIdx'[t] <= colHwm'[t]
    <3>1. CASE ColHwm(t)
      BY <2>1, <3>1 DEF ColHwm
    <3>2. CASE ColScan(t)
      BY <2>1, <3>2 DEF ColScan
    <3> QED
      BY <1>4, <3>1, <3>2
  <2>3. \A u \in Threads \ {t} : /\ pc'[u] = pc[u]
                                 /\ colIdx'[u] = colIdx[u]
                                 /\ colHwm'[u] = colHwm[u]
    BY <1>4 DEF ColHwm, ColScan
  <2> QED
    BY <2>2, <2>3
<1>5. ASSUME NEW t \in Threads, RecSwap(t) \/ RecNext(t) PROVE ScanInv'
  BY <1>5 DEF RecSwap, RecNext
<1>6. ASSUME NEW t \in Threads, NEW o \in Objs,
             RecFree(t, o) \/ RecKeep(t, o) \/ RecPush(t, o)
      PROVE  ScanInv'
  BY <1>6 DEF RecFree, RecKeep, RecPush
<1>7. CASE UNCHANGED vars
  BY <1>7, SMTT(30) DEF vars
<1> QED
  BY <1>1, <1>2, <1>3, <1>4, <1>5, <1>6, <1>7 DEF Next, Collect

LEMMA RetStep == BaseInv /\ [Next]_vars => RetInv'
<1> SUFFICES ASSUME BaseInv, [Next]_vars PROVE RetInv'
  OBVIOUS
<1>t. /\ pc \in [Threads -> Labels]
      /\ retObj \in [Threads -> Objs \cup {NoObj}]
      /\ obj \in [Objs -> Life]
  BY DEF BaseInv, TypeOK
<1>i. RetInv /\ ListInv
  BY DEF BaseInv
<1> USE <1>t, <1>i, EbrAssumption DEF Goto, objVars, RetInv
<1>1. ASSUME NEW t \in Threads, PinUnpin(t) PROVE RetInv'
  <2>1. CASE ClaimSlot(t)
    BY <2>1 DEF ClaimSlot
  <2>2. CASE SlotsExhausted(t)
    BY <2>2 DEF SlotsExhausted
  <2>3. CASE PublishHwm(t)
    BY <2>3 DEF PublishHwm
  <2>4. CASE PinLoad(t)
    BY <2>4 DEF PinLoad
  <2>5. CASE PinStore(t)
    BY <2>5 DEF PinStore
  <2>6. CASE DropGuard(t)
    BY <2>6 DEF DropGuard
  <2>7. CASE Exit(t)
    BY <2>7 DEF Exit
  <2> QED
    BY <1>1, <2>1, <2>2, <2>3, <2>4, <2>5, <2>6, <2>7 DEF PinUnpin
<1>2. ASSUME NEW t \in Threads, NEW o \in Objs, Publish(t, o) PROVE RetInv'
  BY <1>2 DEF Publish
<1>3. ASSUME NEW t \in Threads, NEW o \in Objs, Unlink(t, o) PROVE RetInv'
  BY <1>3 DEF Unlink
<1>4. ASSUME NEW t \in Threads, RetireLoad(t) PROVE RetInv'
  BY <1>4 DEF RetireLoad
<1>5. ASSUME NEW t \in Threads, RetirePush(t) PROVE RetInv'
  BY <1>5 DEF RetirePush
<1>6. ASSUME NEW t \in Threads,
             \/ ColLoad(t) \/ ColHwm(t) \/ ColScan(t) \/ ColCas(t) \/ ColCur(t)
             \/ RecSwap(t) \/ RecNext(t)
      PROVE  RetInv'
  <2>1. UNCHANGED objVars
    <3>1. CASE ColLoad(t)
      BY <3>1 DEF ColLoad
    <3>2. CASE ColHwm(t)
      BY <3>2 DEF ColHwm
    <3>3. CASE ColScan(t)
      BY <3>3 DEF ColScan
    <3>4. CASE ColCas(t)
      BY <3>4 DEF ColCas
    <3>5. CASE ColCur(t)
      BY <3>5 DEF ColCur
    <3>6. CASE RecSwap(t)
      BY <3>6 DEF RecSwap
    <3>7. CASE RecNext(t)
      BY <3>7 DEF RecNext
    <3> QED
      BY <1>6, <3>1, <3>2, <3>3, <3>4, <3>5, <3>6, <3>7
  <2>2. \A u \in Threads : pc'[u] \in {"retLoad", "retPush"} => pc'[u] = pc[u]
    <3>1. CASE ColLoad(t)
      BY <3>1 DEF ColLoad
    <3>2. CASE ColHwm(t)
      BY <3>2 DEF ColHwm
    <3>3. CASE ColScan(t)
      BY <3>3 DEF ColScan
    <3>4. CASE ColCas(t)
      BY <3>4 DEF ColCas
    <3>5. CASE ColCur(t)
      BY <3>5 DEF ColCur
    <3>6. CASE RecSwap(t)
      BY <3>6 DEF RecSwap
    <3>7. CASE RecNext(t)
      BY <3>7 DEF RecNext
    <3> QED
      BY <1>6, <3>1, <3>2, <3>3, <3>4, <3>5, <3>6, <3>7
  <2> QED
    BY <2>1, <2>2, SMTT(30)
<1>7. ASSUME NEW t \in Threads, NEW o \in Objs, RecFree(t, o) PROVE RetInv'
  <2>1. obj[o] = "retired"
    BY <1>7 DEF RecFree, ListInv, OneRecord, OneRecordOf
  <2> QED
    BY <1>7, <2>1 DEF RecFree
<1>8. ASSUME NEW t \in Threads, NEW o \in Objs, RecKeep(t, o) \/ RecPush(t, o)
      PROVE  RetInv'
  BY <1>8 DEF RecKeep, RecPush
<1>9. CASE UNCHANGED vars
  BY <1>9 DEF vars
<1> QED
  BY <1>1, <1>2, <1>3, <1>4, <1>5, <1>6, <1>7, <1>8, <1>9, Zenon DEF Next, Client, Collect

\* A step that does not move the record of x.
LEMMA RecordFrame ==
  ASSUME NEW x \in Objs, OneRecordOf(x), obj'[x] = "retired" <=> obj[x] = "retired",
         \A b \in BagIds : x \in bags'[b] <=> x \in bags[b],
         \A u \in Threads : x \in chain'[u] <=> x \in chain[u],
         \A u \in Threads : x \in keep'[u] <=> x \in keep[u]
  PROVE  OneRecordOf(x)'
BY DEF OneRecordOf

\* A step that moves no record preserves ListInv.
LEMMA ListFrame ==
  ASSUME ListInv, UNCHANGED <<bags, chain, keep>>,
         \A o \in Objs : obj'[o] = "retired" <=> obj[o] = "retired",
         \A u \in Threads : pc'[u] = pc[u] \/ (chain[u] = {} /\ keep[u] = {})
  PROVE  ListInv'
BY RecordFrame DEF ListInv, OneRecord

LEMMA ListStep == BaseInv /\ [Next]_vars => ListInv'
<1> SUFFICES ASSUME BaseInv, [Next]_vars PROVE ListInv'
  OBVIOUS
<1>t. /\ bags \in [BagIds -> SUBSET Objs]
      /\ pc \in [Threads -> Labels]
      /\ retObj \in [Threads -> Objs \cup {NoObj}]
      /\ colBag \in [Threads -> BagIds]
      /\ chain \in [Threads -> SUBSET Objs]
      /\ keep \in [Threads -> SUBSET Objs]
      /\ retEpoch \in [Objs -> Nat]
      /\ obj \in [Objs -> Life]
  BY DEF BaseInv, TypeOK
<1>i. RetInv /\ ListInv
  BY DEF BaseInv
<1> USE <1>t, <1>i DEF Goto, domainVars, collectVars, objVars
<1> DEFINE Quiet(t) == chain[t] = {} /\ keep[t] = {}
<1>0. \A t \in Threads : pc[t] # "recNode" => Quiet(t)
  BY DEF ListInv
<1>1. ASSUME NEW t \in Threads, PinUnpin(t) PROVE ListInv'
  <2>1. /\ UNCHANGED <<bags, chain, keep, obj>> /\ pc[t] # "recNode"
        /\ \A u \in Threads \ {t} : pc'[u] = pc[u]
    BY <1>1 DEF PinUnpin, ClaimSlot, SlotsExhausted, PublishHwm, PinLoad, PinStore,
                DropGuard, Exit
  <2> QED
    BY <1>0, <2>1, ListFrame, SMTT(30)
<1>2. ASSUME NEW t \in Threads, NEW o \in Objs, Publish(t, o) \/ Unlink(t, o)
      PROVE  ListInv'
  <2>1. /\ UNCHANGED <<bags, chain, keep>> /\ pc[t] # "recNode"
        /\ \A u \in Threads \ {t} : pc'[u] = pc[u]
    BY <1>2 DEF Publish, Unlink
  <2>2. \A x \in Objs : obj'[x] = "retired" <=> obj[x] = "retired"
    BY <1>2 DEF Publish, Unlink
  <2> QED
    BY <1>0, <2>1, <2>2, ListFrame
<1>3. ASSUME NEW t \in Threads, RetireLoad(t) PROVE ListInv'
  <2>1. /\ UNCHANGED <<bags, chain, keep, obj>> /\ pc[t] # "recNode"
        /\ \A u \in Threads \ {t} : pc'[u] = pc[u]
    BY <1>3 DEF RetireLoad
  <2> QED
    BY <1>0, <2>1, ListFrame
<1>4. ASSUME NEW t \in Threads, RetirePush(t) PROVE ListInv'
  <2> DEFINE o == retObj[t]
             b == retEpoch[o] % NBags
  <2>1. o \in Objs /\ b \in BagIds /\ obj[o] = "unlinked"
    BY <1>4, BagRange DEF RetirePush, RetInv
  <2>2. /\ bags' = [bags EXCEPT ![b] = @ \cup {o}]
        /\ obj' = [obj EXCEPT ![o] = "retired"]
        /\ UNCHANGED <<chain, keep>>
    BY <1>4 DEF RetirePush
  <2>3. OneRecord'
    <3> HIDE DEF o, b
    <3> QED
      BY <2>1, <2>2, SMTT(30) DEF ListInv, OneRecord, OneRecordOf
  <2> QED
    BY <1>0, <1>4, <2>2, <2>3 DEF RetirePush, ListInv
<1>5. ASSUME NEW t \in Threads,
             ColLoad(t) \/ ColHwm(t) \/ ColScan(t) \/ ColCas(t) \/ ColCur(t)
      PROVE  ListInv'
  <2>1. /\ UNCHANGED <<bags, chain, keep, obj>> /\ pc[t] # "recNode"
        /\ \A u \in Threads \ {t} : pc'[u] = pc[u]
    BY <1>5 DEF ColLoad, ColHwm, ColScan, ColCas, ColCur
  <2> QED
    BY <1>0, <2>1, ListFrame
<1>6. ASSUME NEW t \in Threads, RecSwap(t) PROVE ListInv'
  BY <1>6 DEF RecSwap, ListInv, OneRecord, OneRecordOf
<1>7. ASSUME NEW t \in Threads, NEW o \in Objs, RecFree(t, o) PROVE ListInv'
  <2>1. /\ chain' = [chain EXCEPT ![t] = @ \ {o}]
        /\ obj' = [obj EXCEPT ![o] = "free"]
        /\ UNCHANGED <<bags, keep, pc>> /\ o \in chain[t]
    BY <1>7 DEF RecFree
  <2>2. OneRecordOf(o)
    BY DEF ListInv, OneRecord
  <2>3. OneRecordOf(o)'
    BY <2>1, <2>2 DEF OneRecordOf
  <2>4. ASSUME NEW x \in Objs \ {o} PROVE OneRecordOf(x)'
    BY <2>1, RecordFrame DEF ListInv, OneRecord
  <2>5. \A u \in Threads : Quiet(u) => Quiet(u)'
    BY <2>1
  <2> QED
    BY <1>0, <2>1, <2>3, <2>4, <2>5 DEF ListInv, OneRecord
<1>8. ASSUME NEW t \in Threads, NEW o \in Objs, RecKeep(t, o) PROVE ListInv'
  BY <1>8 DEF RecKeep, ListInv, OneRecord, OneRecordOf
<1>9. ASSUME NEW t \in Threads, NEW o \in Objs, RecPush(t, o) PROVE ListInv'
  BY <1>9 DEF RecPush, ListInv, OneRecord, OneRecordOf
<1>10. ASSUME NEW t \in Threads, RecNext(t) PROVE ListInv'
  <2>1. /\ UNCHANGED <<bags, chain, keep, obj>> /\ Quiet(t)
        /\ \A u \in Threads \ {t} : pc'[u] = pc[u]
    BY <1>10 DEF RecNext
  <2> QED
    BY <2>1, ListFrame
<1>11. CASE UNCHANGED vars
  BY <1>11 DEF vars, ListInv, OneRecord, OneRecordOf
<1> QED
  BY <1>1, <1>2, <1>3, <1>4, <1>5, <1>6, <1>7, <1>8, <1>9, <1>10, <1>11
     DEF Next, Client, Collect

LEMMA BaseInvariant == Spec => []BaseInv
<1>1. BaseInv /\ [Next]_vars => BaseInv'
  BY TypeStep, SlotStep, ScanStep, RetStep, ListStep DEF BaseInv
<1> QED
  BY InitBase, <1>1, PTL DEF Spec

\* Every variable of the domain keeps its type, whatever the interleaving of
\* pin, retire, Guard::drop and try_collect and however guards are nested.
THEOREM TypeCorrect == Spec => []TypeOK
BY BaseInvariant, PTL DEF BaseInv

\* reclaim_bag, run by any number of threads at once, keeps every retired
\* record on exactly one list: none is leaked, none is freed twice.
THEOREM RecordsKept == Spec => []OneRecord
<1>1. BaseInv => OneRecord
  BY DEF BaseInv, ListInv
<1> QED
  BY <1>1, BaseInvariant, PTL
=============================================================================
