----------------------------- MODULE EbrProofs -----------------------------
(***************************************************************************)
(* Proofs about Ebr, for any threads, objects, number of slots, collection *)
(* interval and epoch bound: when guards do not nest, nothing a pinned     *)
(* thread may hold is freed, and Ebr implements GracePeriod.               *)
(***************************************************************************)
EXTENDS EbrTypeProofs

LEMMA ReadStep ==
  ASSUME MaxGuards = 1, IInv, [Next]_vars
  PROVE  ReadInv'
<1>t. /\ epoch \in Nat
      /\ slots \in [SlotIds -> Nat \cup {FREE, UNPINNED}]
      /\ mySlot \in [Threads -> SlotIds \cup {NoSlot}]
      /\ guards \in [Threads -> 0 .. MaxGuards]
      /\ pc \in [Threads -> Labels]
      /\ pinEpoch \in [Threads -> Nat]
      /\ colEpoch \in [Threads -> Nat]
      /\ colCur \in [Threads -> Nat]
  BY DEF IInv, BaseInv, TypeOK
<1>i. SlotInv /\ PinInv /\ ReadInv
  BY DEF IInv, BaseInv
<1> USE <1>t, <1>i, EbrAssumption, SlotRange DEF Goto, domainVars, pinVars, collectVars, ReadInv
<1>1. ASSUME NEW t \in Threads, ClaimSlot(t) PROVE ReadInv'
  BY <1>1 DEF ClaimSlot, SlotInv
<1>2. ASSUME NEW t \in Threads, PublishHwm(t) \/ SlotsExhausted(t) \/ Exit(t)
      PROVE  ReadInv'
  BY <1>2 DEF PublishHwm, SlotsExhausted, Exit
<1>3. ASSUME NEW t \in Threads, PinLoad(t) PROVE ReadInv'
  BY <1>3 DEF PinLoad
<1>4. ASSUME NEW t \in Threads, PinStore(t) PROVE ReadInv'
  BY <1>4 DEF PinStore, SlotInv
<1>5. ASSUME NEW t \in Threads, DropGuard(t) PROVE ReadInv'
  BY <1>5 DEF DropGuard, SlotInv
<1>6. ASSUME NEW t \in Threads, Client(t) PROVE ReadInv'
  BY <1>6 DEF Client, RetireLoad, RetirePush, Publish, Unlink
<1>7. ASSUME NEW t \in Threads, ColLoad(t) \/ ColHwm(t) \/ ColScan(t) PROVE ReadInv'
  BY <1>7 DEF ColLoad, ColHwm, ColScan
<1>8. ASSUME NEW t \in Threads, ColCas(t) PROVE ReadInv'
  BY <1>8 DEF ColCas
<1>9. ASSUME NEW t \in Threads, ColCur(t) PROVE ReadInv'
  BY <1>9 DEF ColCur
<1>10. ASSUME NEW t \in Threads, RecSwap(t) \/ RecNext(t) PROVE ReadInv'
  BY <1>10 DEF RecSwap, RecNext
<1>11. ASSUME NEW t \in Threads, NEW o \in Objs,
              RecFree(t, o) \/ RecKeep(t, o) \/ RecPush(t, o)
       PROVE  ReadInv'
  BY <1>11 DEF RecFree, RecKeep, RecPush
<1>12. CASE UNCHANGED vars
  BY <1>12 DEF vars
<1> QED
  BY <1>1, <1>2, <1>3, <1>4, <1>5, <1>6, <1>7, <1>8, <1>9, <1>10, <1>11, <1>12
     DEF Next, PinUnpin, Collect

\* An object whose record a collector frees has no blockers left.
LEMMA FreeIsSafe ==
  ASSUME IInv, NEW t \in Threads, NEW o \in Objs, RecFree(t, o)
  PROVE  obj[o] = "retired" /\ blockers[o] = {}
<1>1. obj[o] = "retired"
  BY DEF IInv, BaseInv, ListInv, OneRecord, OneRecordOf, RecFree
<1>2. retEpoch[o] \in Nat /\ colCur[t] \in Nat /\ epoch \in Nat
  BY DEF IInv, BaseInv, TypeOK
<1>3. retEpoch[o] + 2 <= epoch
  BY <1>2 DEF IInv, ReadInv, RecFree, Eligible
<1>4. \A u \in blockers[o] : epoch <= retEpoch[o] + 1
  <2>1. \A u \in blockers[o] : GraceOf(o, u)
    BY <1>1, ZenonT(30) DEF IInv, GraceInv, Stamped
  <2> QED
    BY <2>1, Zenon DEF GraceOf
<1> QED
  BY <1>1, <1>2, <1>3, <1>4

LEMMA BlockStep ==
  ASSUME MaxGuards = 1, IInv, [Next]_vars
  PROVE  BlockInv'
<1>t. /\ guards \in [Threads -> 0 .. MaxGuards]
      /\ pc \in [Threads -> Labels]
      /\ retObj \in [Threads -> Objs \cup {NoObj}]
      /\ obj \in [Objs -> Life]
      /\ blockers \in [Objs -> SUBSET Threads]
  BY DEF IInv, BaseInv, TypeOK
<1>i. RetInv /\ BlockInv
  BY DEF IInv, BaseInv
<1> USE <1>t, <1>i, EbrAssumption DEF Goto, pinVars, objVars, Life, BlockInv
<1>1. ASSUME NEW t \in Threads,
             ClaimSlot(t) \/ SlotsExhausted(t) \/ PublishHwm(t) \/ PinLoad(t) \/ Exit(t)
      PROVE  BlockInv'
  BY <1>1 DEF ClaimSlot, SlotsExhausted, PublishHwm, PinLoad, Exit
<1>2. ASSUME NEW t \in Threads, PinStore(t) PROVE BlockInv'
  BY <1>2 DEF PinStore
<1>3. ASSUME NEW t \in Threads, DropGuard(t) PROVE BlockInv'
  BY <1>3 DEF DropGuard
<1>4. ASSUME NEW t \in Threads, NEW o \in Objs, Publish(t, o) PROVE BlockInv'
  BY <1>4 DEF Publish
<1>5. ASSUME NEW t \in Threads, NEW o \in Objs, Unlink(t, o) PROVE BlockInv'
  BY <1>5 DEF Unlink, Pinned
<1>6. ASSUME NEW t \in Threads, RetireLoad(t) PROVE BlockInv'
  BY <1>6 DEF RetireLoad
<1>7. ASSUME NEW t \in Threads, RetirePush(t) PROVE BlockInv'
  <2>1. retObj[t] \in Objs /\ obj[retObj[t]] = "unlinked"
    BY <1>7, ZenonT(30) DEF RetirePush, RetInv
  <2> QED
    BY <1>7, <2>1 DEF RetirePush
<1>8. ASSUME NEW t \in Threads,
             \/ ColLoad(t) \/ ColHwm(t) \/ ColScan(t) \/ ColCas(t) \/ ColCur(t)
             \/ RecSwap(t) \/ RecNext(t)
      PROVE  BlockInv'
  BY <1>8 DEF ColLoad, ColHwm, ColScan, ColCas, ColCur, RecSwap, RecNext
<1>9. ASSUME NEW t \in Threads, NEW o \in Objs, RecFree(t, o) PROVE BlockInv'
  BY <1>9, FreeIsSafe, Zenon DEF RecFree
<1>10. ASSUME NEW t \in Threads, NEW o \in Objs, RecKeep(t, o) \/ RecPush(t, o)
       PROVE  BlockInv'
  BY <1>10 DEF RecKeep, RecPush
<1>11. CASE UNCHANGED vars
  BY <1>11 DEF vars
<1> QED
  BY <1>1, <1>2, <1>3, <1>4, <1>5, <1>6, <1>7, <1>8, <1>9, <1>10, <1>11
     DEF Next, PinUnpin, Client, Collect

\* A step that keeps the epoch, the retire epochs that matter and the slots of
\* the blockers, and takes no collector past a blocker's slot.
LEMMA GraceFrame ==
  ASSUME GraceInv, epoch' = epoch,
         \A o \in Objs : Stamped(o)' /\ blockers'[o] # {} =>
            Stamped(o) /\ retEpoch'[o] = retEpoch[o] /\ blockers'[o] \subseteq blockers[o],
         \A o \in Objs : \A t \in blockers'[o] :
            /\ slots'[mySlot'[t]] = slots[mySlot[t]]
            /\ \A c \in Threads : Passed(c, t)' => Passed(c, t) /\ colEpoch'[c] = colEpoch[c]
  PROVE  GraceInv'
<1> SUFFICES ASSUME NEW o \in Objs, Stamped(o)', NEW t \in blockers'[o]
             PROVE  GraceOf(o, t)'
  BY DEF GraceInv
<1>1. GraceOf(o, t) /\ retEpoch'[o] = retEpoch[o]
  BY DEF GraceInv
<1>2. slots'[mySlot'[t]] = slots[mySlot[t]]
  OBVIOUS
<1>3. \A c \in Threads : Passed(c, t)' => Passed(c, t) /\ colEpoch'[c] = colEpoch[c]
  OBVIOUS
<1> QED
  BY <1>1, <1>2, <1>3 DEF GraceOf

LEMMA GraceStep ==
  ASSUME MaxGuards = 1, IInv, [Next]_vars
  PROVE  GraceInv'
<1>t. /\ epoch \in Nat
      /\ slots \in [SlotIds -> Nat \cup {FREE, UNPINNED}]
      /\ hwm \in SlotIds
      /\ mySlot \in [Threads -> SlotIds \cup {NoSlot}]
      /\ guards \in [Threads -> 0 .. MaxGuards]
      /\ pc \in [Threads -> Labels]
      /\ retObj \in [Threads -> Objs \cup {NoObj}]
      /\ colEpoch \in [Threads -> Nat]
      /\ colHwm \in [Threads -> SlotIds]
      /\ colIdx \in [Threads -> SlotIds]
      /\ retEpoch \in [Objs -> Nat]
      /\ obj \in [Objs -> Life]
      /\ blockers \in [Objs -> SUBSET Threads]
  BY DEF IInv, BaseInv, TypeOK
<1>i. SlotInv /\ PinInv /\ ScanInv /\ RetInv /\ ReadInv /\ BlockInv /\ GraceInv
  BY DEF IInv, BaseInv
<1> USE <1>i DEF Goto, domainVars, pinVars, collectVars, objVars
<1>0. \A o \in Objs : \A t \in blockers[o] :
        /\ t \in Threads /\ guards[t] = 1 /\ pc[t] \notin {"hwm", "pinLoad", "pinStore"}
        /\ mySlot[t] \in SlotIds /\ mySlot[t] <= hwm
        /\ slots[mySlot[t]] \in Nat /\ slots[mySlot[t]] <= epoch
  BY <1>t, SlotRange DEF BlockInv, PinInv, SlotInv, ReadInv
<1>1. ASSUME NEW t \in Threads, ClaimSlot(t) PROVE GraceInv'
  <2>1. \A o \in Objs : \A u \in blockers'[o] :
          /\ u \in blockers[o] /\ mySlot'[u] = mySlot[u]
          /\ slots'[mySlot'[u]] = slots[mySlot[u]]
    BY <1>0, <1>t, <1>1, SlotRange, EbrAssumption DEF ClaimSlot
  <2>2. \A c \in Threads : pc'[c] \in {"colScan", "colCas"} => pc'[c] = pc[c]
    BY <1>t, <1>1 DEF ClaimSlot
  <2> QED
    BY <1>t, <1>1, <2>1, <2>2, GraceFrame DEF ClaimSlot, Stamped, Passed
<1>2. ASSUME NEW t \in Threads,
             SlotsExhausted(t) \/ PublishHwm(t) \/ PinLoad(t)
      PROVE  GraceInv'
  <2>1. UNCHANGED <<epoch, slots, mySlot, colEpoch, colIdx, colHwm, objVars>>
    BY <1>t, <1>2 DEF SlotsExhausted, PublishHwm, PinLoad
  <2>2. \A c \in Threads : pc'[c] \in {"colScan", "colCas", "retPush"} => pc'[c] = pc[c]
    BY <1>t, <1>2 DEF SlotsExhausted, PublishHwm, PinLoad
  <2> QED
    BY <2>1, <2>2, GraceFrame DEF Stamped, Passed
<1>3. ASSUME NEW t \in Threads, PinStore(t) PROVE GraceInv'
  <2>1. \A o \in Objs : \A u \in blockers'[o] :
          /\ u \in blockers[o] /\ mySlot'[u] = mySlot[u]
          /\ slots'[mySlot'[u]] = slots[mySlot[u]]
    BY <1>0, <1>t, <1>3 DEF PinStore, SlotInv
  <2> QED
    BY <1>t, <1>3, <2>1, GraceFrame DEF PinStore, Stamped, Passed
<1>4. ASSUME NEW t \in Threads, DropGuard(t) PROVE GraceInv'
  <2>1. \A o \in Objs : blockers'[o] = blockers[o] \ {t}
    BY <1>t, <1>4 DEF DropGuard
  <2>2. \A o \in Objs : \A u \in blockers'[o] :
          mySlot'[u] = mySlot[u] /\ slots'[mySlot'[u]] = slots[mySlot[u]]
    BY <1>0, <1>t, <1>4, <2>1 DEF DropGuard, SlotInv
  <2>3. \A c \in Threads : pc'[c] \in {"colScan", "colCas", "retPush"} => pc'[c] = pc[c]
    BY <1>t, <1>4 DEF DropGuard
  <2> QED
    BY <1>t, <1>4, <2>1, <2>2, <2>3, GraceFrame DEF DropGuard, Stamped, Passed
<1>5. ASSUME NEW t \in Threads, NEW o \in Objs, Publish(t, o) PROVE GraceInv'
  BY <1>t, <1>5, GraceFrame DEF Publish, Stamped, Passed
<1>6. ASSUME NEW t \in Threads, NEW o \in Objs, Unlink(t, o) PROVE GraceInv'
  <2>1. ~Stamped(o)'
    BY <1>t, <1>6 DEF Unlink, Stamped, RetInv
  <2>2. \A x \in Objs \ {o} : /\ Stamped(x)' => Stamped(x)
                             /\ blockers'[x] = blockers[x]
    BY <1>t, <1>6 DEF Unlink, Stamped
  <2> QED
    BY <1>t, <1>6, <2>1, <2>2, GraceFrame DEF Unlink, Passed
<1>7. ASSUME NEW t \in Threads, RetireLoad(t) PROVE GraceInv'
  <2> SUFFICES ASSUME NEW x \in Objs, Stamped(x)', NEW u \in blockers[x]
               PROVE  GraceOf(x, u)'
    BY <1>t, <1>7 DEF RetireLoad, GraceInv
  <2>1. CASE x = retObj[t]
    <3>1. retEpoch'[x] = epoch /\ epoch' = epoch /\ UNCHANGED <<slots, mySlot>>
      BY <1>t, <1>7, <2>1 DEF RetireLoad
    <3> QED
      BY <1>t, <1>0, <3>1 DEF GraceOf
  <2>2. CASE x # retObj[t]
    <3>1. GraceOf(x, u) /\ retEpoch'[x] = retEpoch[x]
      BY <1>t, <1>7, <2>2 DEF RetireLoad, Stamped, GraceInv
    <3>2. UNCHANGED <<epoch, slots, mySlot, colEpoch>>
      BY <1>t, <1>7 DEF RetireLoad
    <3>3. \A c \in Threads : Passed(c, u)' => Passed(c, u)
      BY <1>t, <1>7 DEF RetireLoad, Passed
    <3> QED
      BY <3>1, <3>2, <3>3 DEF GraceOf
  <2> QED
    BY <2>1, <2>2
<1>8. ASSUME NEW t \in Threads, RetirePush(t) PROVE GraceInv'
  <2>1. \A x \in Objs : Stamped(x)' => Stamped(x)
    BY <1>t, <1>8, SMTT(30) DEF RetirePush, Stamped
  <2> QED
    BY <1>t, <1>8, <2>1, GraceFrame DEF RetirePush, Passed
<1>9. ASSUME NEW t \in Threads,
             ColLoad(t) \/ ColCur(t) \/ RecSwap(t) \/ RecNext(t)
      PROVE  GraceInv'
  <2>1. UNCHANGED <<epoch, slots, mySlot, objVars>>
    <3>1. CASE ColLoad(t)
      BY <1>t, <3>1 DEF ColLoad
    <3>2. CASE ColCur(t)
      BY <1>t, <3>2 DEF ColCur
    <3>3. CASE RecSwap(t)
      BY <1>t, <3>3 DEF RecSwap
    <3>4. CASE RecNext(t)
      BY <1>t, <3>4 DEF RecNext
    <3> QED
      BY <1>9, <3>1, <3>2, <3>3, <3>4
  <2>2. \A c \in Threads : pc'[c] \in {"colScan", "colCas", "retPush"} =>
          /\ pc'[c] = pc[c] /\ colEpoch'[c] = colEpoch[c]
          /\ colIdx'[c] = colIdx[c] /\ colHwm'[c] = colHwm[c]
    <3>1. CASE ColLoad(t)
      BY <1>t, <3>1 DEF ColLoad
    <3>2. CASE ColCur(t)
      BY <1>t, <3>2 DEF ColCur
    <3>3. CASE RecSwap(t)
      BY <1>t, <3>3 DEF RecSwap
    <3>4. CASE RecNext(t)
      BY <1>t, <3>4 DEF RecNext
    <3> QED
      BY <1>9, <3>1, <3>2, <3>3, <3>4
  <2> QED
    <3>1. \A o \in Objs : Stamped(o)' => Stamped(o)
      BY <2>1, <2>2 DEF Stamped, objVars
    <3>2. \A c, u \in Threads : Passed(c, u)' => Passed(c, u) /\ colEpoch'[c] = colEpoch[c]
      BY <2>1, <2>2 DEF Passed
    <3>3. \A o \in Objs : blockers'[o] \subseteq Threads
      BY <1>t, <2>1 DEF TypeOK, objVars
    <3> QED
      BY <2>1, <3>1, <3>2, <3>3, GraceFrame DEF objVars
<1>10. ASSUME NEW t \in Threads, ColHwm(t) PROVE GraceInv'
  <2>1. ASSUME NEW o \in Objs, NEW u \in blockers[o] PROVE ~Passed(t, u)'
    <3>1. pc'[t] = "colScan" /\ colIdx'[t] = 0 /\ colHwm'[t] = hwm /\ mySlot' = mySlot
      BY <1>t, <1>10 DEF ColHwm
    <3>2. mySlot[u] \in Nat /\ hwm \in Nat /\ mySlot[u] <= hwm
      BY <1>0, <1>t, SlotRange, Zenon
    <3> QED
      BY <3>1, <3>2 DEF Passed
  <2>2. \A c \in Threads \ {t} : \A u \in Threads : Passed(c, u)' => Passed(c, u)
    BY <1>t, <1>10 DEF ColHwm, Passed
  <2>3. UNCHANGED <<epoch, slots, mySlot, colEpoch, objVars>>
    BY <1>t, <1>10 DEF ColHwm
  <2>4. \A o \in Objs : Stamped(o)' => Stamped(o)
    BY <1>t, <1>10 DEF ColHwm, Stamped
  <2>5. ASSUME NEW o \in Objs, NEW u \in blockers[o], NEW c \in Threads
        PROVE  Passed(c, u)' => Passed(c, u)
    <3>1. CASE c = t
      BY <2>1, <3>1 DEF Passed
    <3>2. CASE c # t
      BY <1>0, <2>2, <3>2
    <3> QED
      BY <3>1, <3>2, SMTT(30)
  <2> QED
    BY <2>3, <2>4, <2>5, GraceFrame, ZenonT(30)
<1>11. ASSUME NEW t \in Threads, ColScan(t) PROVE GraceInv'
  <2>1. \A x \in Objs : Stamped(x)' => Stamped(x)
    BY <1>t, <1>11 DEF ColScan, Stamped
  <2> SUFFICES ASSUME NEW x \in Objs, Stamped(x), NEW u \in blockers[x]
               PROVE  GraceOf(x, u)'
    BY <1>t, <1>11, <2>1 DEF ColScan, GraceInv
  <2>2. GraceOf(x, u) /\ UNCHANGED <<epoch, slots, mySlot, colEpoch, retEpoch>>
    BY <1>t, <1>11 DEF ColScan, GraceInv
  <2>3. \A c \in Threads \ {t} : Passed(c, u)' => Passed(c, u)
    BY <1>t, <1>11, SMTT(30) DEF ColScan, Passed
  <2>4. Passed(t, u)' => Passed(t, u) \/ slots[mySlot[u]] = colEpoch[t]
    <3>1. /\ mySlot[u] \in Nat /\ colIdx[t] \in Nat /\ colHwm[t] \in Nat
          /\ slots[mySlot[u]] \notin {FREE, UNPINNED} /\ colIdx[t] <= colHwm[t]
      BY <1>0, <1>t, <1>11, SlotRange, EbrAssumption, ZenonT(30) DEF ColScan, ScanInv
    <3>2. CASE mySlot[u] = colIdx[t]
      BY <1>t, <1>11, <3>1, <3>2, SMTT(30) DEF ColScan, Passed
    <3>3. CASE mySlot[u] # colIdx[t]
      BY <1>t, <1>11, <3>1, <3>3 DEF ColScan, Passed
    <3> QED
      BY <3>2, <3>3
  <2> QED
    BY <1>t, <1>0, <2>2, <2>3, <2>4 DEF GraceOf
<1>12. ASSUME NEW t \in Threads, ColCas(t) PROVE GraceInv'
  <2>1. \A x \in Objs : Stamped(x)' => Stamped(x)
    BY <1>t, <1>12 DEF ColCas, Stamped
  <2> SUFFICES ASSUME NEW x \in Objs, Stamped(x), NEW u \in blockers[x]
               PROVE  GraceOf(x, u)'
    BY <1>t, <1>12, <2>1 DEF ColCas, GraceInv
  <2>2. GraceOf(x, u) /\ UNCHANGED <<slots, mySlot, colEpoch, retEpoch>> /\ Passed(t, u)
    BY <1>t, <1>12, SMTT(30) DEF ColCas, GraceInv, Passed
  <2>3. \A c \in Threads : Passed(c, u)' => Passed(c, u) /\ colEpoch[c] <= epoch
    BY <1>t, <1>12 DEF ColCas, Passed, ReadInv
  <2>4. epoch \in Nat /\ retEpoch[x] \in Nat /\ colEpoch \in [Threads -> Nat]
    BY <1>t, ZenonT(30)
  <2>5. CASE epoch = colEpoch[t]
    <3>1. epoch' = epoch + 1 /\ epoch <= retEpoch[x]
      <4>1. epoch' = epoch + 1
        BY <1>12, <2>5, Zenon DEF ColCas
      <4>2. epoch <= retEpoch[x]
        BY <2>2, <2>5 DEF GraceOf
      <4> QED
        BY <4>1, <4>2
    <3>2. slots'[mySlot'[u]] <= retEpoch'[x]
      BY <2>2 DEF GraceOf
    <3>3. epoch' <= retEpoch'[x] + 1
      BY <2>2, <2>4, <3>1
    <3>4. \A c \in Threads : ~(Passed(c, u)' /\ colEpoch'[c] = epoch')
      BY <2>2, <2>3, <2>4, <3>1
    <3> QED
      BY <3>2, <3>3, <3>4 DEF GraceOf
  <2>6. CASE epoch # colEpoch[t]
    <3>1. epoch' = epoch
      BY <1>12, <2>6 DEF ColCas
    <3> QED
      BY <2>2, <2>3, <3>1 DEF GraceOf
  <2> QED
    BY <2>5, <2>6
<1>13. ASSUME NEW t \in Threads, NEW o \in Objs, RecFree(t, o) PROVE GraceInv'
  <2>1. ~Stamped(o)'
    BY <1>t, <1>13, FreeIsSafe, ZenonT(30) DEF RecFree, Stamped, RetInv
  <2>2. \A x \in Objs \ {o} : (Stamped(x)' => Stamped(x)) /\ retEpoch'[x] = retEpoch[x]
    BY <1>t, <1>13 DEF RecFree, Stamped
  <2> QED
    BY <1>t, <1>13, <2>1, <2>2, GraceFrame DEF RecFree, Passed
<1>14. ASSUME NEW t \in Threads, NEW o \in Objs, RecKeep(t, o) \/ RecPush(t, o)
       PROVE  GraceInv'
  BY <1>t, <1>14, GraceFrame DEF RecKeep, RecPush, Stamped, Passed
<1>15. ASSUME NEW t \in Threads, Exit(t) PROVE GraceInv'
  <2>1. \A o \in Objs : \A u \in blockers'[o] :
          u \in blockers[o] /\ mySlot'[u] = mySlot[u]
    BY <1>0, <1>t, <1>15 DEF Exit
  <2> QED
    BY <1>t, <1>15, <2>1, GraceFrame DEF Exit, Stamped, Passed
<1>16. CASE UNCHANGED vars
  BY <1>t, <1>16, GraceFrame DEF vars, Stamped, Passed
<1> QED
  BY <1>1, <1>2, <1>3, <1>4, <1>5, <1>6, <1>7, <1>8, <1>9, <1>10, <1>11, <1>12,
     <1>13, <1>14, <1>15, <1>16 DEF Next, PinUnpin, Client, Collect

LEMMA InductiveInvariant == ASSUME MaxGuards = 1 PROVE Spec => []IInv
<1>1. Init => IInv
  BY InitBase DEF Init, IInv, ReadInv, BlockInv, GraceInv, Stamped
<1>2. IInv /\ [Next]_vars => IInv'
  BY TypeStep, SlotStep, ScanStep, RetStep, ListStep, ReadStep, BlockStep, GraceStep
     DEF IInv, BaseInv
<1> QED
  BY <1>1, <1>2, PTL DEF Spec

-----------------------------------------------------------------------------
(* The results                                                             *)

\* The promise of pin, for threads that hold at most one guard each: nothing a
\* guarded thread may still point at is freed.
THEOREM Safety == ASSUME MaxGuards = 1 PROVE Spec => []NoUseAfterFree
<1>1. IInv => NoUseAfterFree
  BY DEF IInv, BlockInv, NoUseAfterFree
<1> QED
  BY <1>1, InductiveInvariant, PTL

LEMMA OneMore == ASSUME NEW n \in 0 .. MaxGuards PROVE n + 1 > 0
BY EbrAssumption

LEMMA LastOne == ASSUME MaxGuards = 1, NEW n \in 0 .. MaxGuards, n > 0
                 PROVE  n = 1 /\ ~(n - 1 > 0)
OBVIOUS

\* Under the same condition the domain implements the grace period the index
\* is written against (GracePeriod): in particular a record is freed only when
\* no thread that could reach the object at its removal still holds its guard.
THEOREM Refinement == ASSUME MaxGuards = 1 PROVE Spec => ImplementsGracePeriod
<1>1. Init => GP!Init
  BY SMTT(30) DEF Init, GP!Init, Pinned
<1>2. IInv /\ [Next]_vars => [GP!Next]_(GP!gvars)
  <2> SUFFICES ASSUME IInv, [Next]_vars PROVE [GP!Next]_(GP!gvars)
    OBVIOUS
  <2>t. /\ guards \in [Threads -> 0 .. MaxGuards]
        /\ retObj \in [Threads -> Objs \cup {NoObj}]
        /\ obj \in [Objs -> Life]
        /\ blockers \in [Objs -> SUBSET Threads]
    BY DEF IInv, BaseInv, TypeOK
  <2>i. RetInv
    BY DEF IInv, BaseInv
  <2> USE <2>t, <2>i DEF Goto, pinVars, objVars, Pinned, GP!Next, GP!gvars
  <2>1. ASSUME NEW t \in Threads,
               ClaimSlot(t) \/ SlotsExhausted(t) \/ PublishHwm(t) \/ PinLoad(t) \/ Exit(t)
        PROVE  UNCHANGED GP!gvars
    BY <2>1, SMTT(30) DEF ClaimSlot, SlotsExhausted, PublishHwm, PinLoad, Exit
  <2>2. ASSUME NEW t \in Threads, PinStore(t) PROVE GP!Pin(t)
    <3>1. guards[t] + 1 > 0 /\ guards' = [guards EXCEPT ![t] = @ + 1]
      BY <2>2, OneMore, Zenon DEF PinStore
    <3>2. Pinned' = Pinned \cup {t}
      BY <3>1, Zenon
    <3> QED
      BY <2>2, <3>2, ZenonT(30) DEF PinStore, GP!Pin
  <2>3. ASSUME NEW t \in Threads, DropGuard(t) PROVE GP!Unpin(t)
    <3>1. /\ guards[t] = 1 /\ ~(guards[t] - 1 > 0)
          /\ guards' = [guards EXCEPT ![t] = @ - 1]
      BY <2>3, LastOne, Zenon DEF DropGuard
    <3>2. Pinned' = Pinned \ {t}
      BY <3>1, Zenon
    <3>3. obj' = obj /\ blockers' = [x \in Objs |-> blockers[x] \ {t}]
      BY <2>3, <3>1, Zenon DEF DropGuard
    <3> QED
      BY <3>2, <3>3, Zenon DEF GP!Unpin
  <2>4. ASSUME NEW t \in Threads, NEW o \in Objs, Publish(t, o) PROVE GP!Publish(o)
    BY <2>4 DEF Publish, GP!Publish
  <2>5. ASSUME NEW t \in Threads, NEW o \in Objs, Unlink(t, o) PROVE GP!Unlink(o)
    BY <2>5 DEF Unlink, GP!Unlink
  <2>6. ASSUME NEW t \in Threads, RetireLoad(t) PROVE UNCHANGED GP!gvars
    BY <2>6 DEF RetireLoad
  <2>7. ASSUME NEW t \in Threads, RetirePush(t) PROVE \E o \in Objs : GP!Retire(o)
    <3>1. retObj[t] \in Objs /\ obj[retObj[t]] = "unlinked"
      BY <2>7, Zenon DEF RetirePush, RetInv
    <3> QED
      BY <2>7, <3>1, Zenon DEF RetirePush, GP!Retire
  <2>8. ASSUME NEW t \in Threads,
               \/ ColLoad(t) \/ ColHwm(t) \/ ColScan(t) \/ ColCas(t) \/ ColCur(t)
               \/ RecSwap(t) \/ RecNext(t)
        PROVE  UNCHANGED GP!gvars
    BY <2>8, Zenon DEF ColLoad, ColHwm, ColScan, ColCas, ColCur, RecSwap, RecNext
  <2>9. ASSUME NEW t \in Threads, NEW o \in Objs, RecFree(t, o) PROVE GP!Free(o)
    BY <2>9, FreeIsSafe, Zenon DEF RecFree, GP!Free
  <2>10. ASSUME NEW t \in Threads, NEW o \in Objs, RecKeep(t, o) \/ RecPush(t, o)
         PROVE  UNCHANGED GP!gvars
    BY <2>10, Zenon DEF RecKeep, RecPush
  <2>11. CASE UNCHANGED vars
    BY <2>11 DEF vars
  <2> QED
    BY <2>1, <2>2, <2>3, <2>4, <2>5, <2>6, <2>7, <2>8, <2>9, <2>10, <2>11
       DEF Next, PinUnpin, Client, Collect
<1> QED
  BY <1>1, <1>2, InductiveInvariant, PTL DEF Spec, ImplementsGracePeriod, GP!Spec
=============================================================================
