-------------------------------- MODULE Ebr --------------------------------
(***************************************************************************)
(* Epoch-based reclamation (ebr.rs).  Every access to a shared atomic is a *)
(* step of its own; thread-local work rides along with it.  Memory is      *)
(* sequentially consistent.                                                *)
(*                                                                         *)
(* A garbage record and the object it will free are identified: the object *)
(* is retired once per life (the contract of retire), so retEpoch[o] is    *)
(* the epoch field of its record, and a bag is the set of objects whose    *)
(* records are on the stack.  A push onto a bag is the successful          *)
(* compare_exchange of its loop, a failed one changes nothing.  Locals are *)
(* 0 outside their scope.                                                  *)
(***************************************************************************)
EXTENDS Naturals, FiniteSets

CONSTANTS
  Threads,          \* the threads that ever run
  Objs,             \* the memory blocks the protected structure uses
  NSlots,           \* N_SLOTS
  CollectInterval,  \* COLLECT_INTERVAL
  MaxGuards,        \* guards one thread may hold at a time
  MaxEpoch,         \* bound: no guard is taken once the epoch is this large
  FREE, UNPINNED,   \* the two slot values that are not epochs
  NoSlot, NoObj

ASSUME EbrAssumption ==
  /\ NSlots \in Nat \ {0}
  /\ CollectInterval \in Nat \ {0}
  /\ MaxGuards \in Nat \ {0}
  /\ MaxEpoch \in Nat
  /\ FREE \notin Nat /\ UNPINNED \notin Nat /\ FREE # UNPINNED
  /\ NoSlot \notin Nat
  /\ NoObj \notin Objs

NBags == 3

VARIABLES
  epoch, slots, bags, hwm,                 \* the Domain
  mySlot, tick,                            \* thread-locals SLOT and TICK
  guards,                                  \* live Guards of a thread
  pc,                                      \* where in ebr.rs a thread is
  pinEpoch,                                \* pin: e
  retObj,                                  \* retire: ptr
  colEpoch, colHwm, colIdx, colCur,        \* try_collect: g, hwm, s, cur
  colBag, chain, keep,                     \* reclaim_bag: bag, node, keep
  retEpoch,                                \* epoch field of Retired records
  obj, blockers                            \* history: see GracePeriod

domainVars == <<epoch, slots, bags, hwm>>
pinVars == <<mySlot, tick, guards, pinEpoch>>
collectVars == <<colEpoch, colHwm, colIdx, colCur, colBag, chain, keep>>
objVars == <<retObj, retEpoch, obj, blockers>>
vars == <<domainVars, pinVars, pc, collectVars, objVars>>

SlotIds == 0 .. NSlots - 1
BagIds == 0 .. NBags - 1
Life == {"free", "linked", "unlinked", "retired"}
Labels == {"idle", "hwm", "pinLoad", "pinStore", "retLoad", "retPush",
           "colLoad", "colHwm", "colScan", "colCas", "colCur",
           "recSwap", "recNode", "panicked"}

TypeOK ==
  /\ epoch \in Nat
  /\ slots \in [SlotIds -> Nat \cup {FREE, UNPINNED}]
  /\ bags \in [BagIds -> SUBSET Objs]
  /\ hwm \in SlotIds
  /\ mySlot \in [Threads -> SlotIds \cup {NoSlot}]
  /\ tick \in [Threads -> 0 .. CollectInterval - 1]
  /\ guards \in [Threads -> 0 .. MaxGuards]
  /\ pc \in [Threads -> Labels]
  /\ pinEpoch \in [Threads -> Nat]
  /\ retObj \in [Threads -> Objs \cup {NoObj}]
  /\ colEpoch \in [Threads -> Nat]
  /\ colHwm \in [Threads -> SlotIds]
  /\ colIdx \in [Threads -> SlotIds]
  /\ colCur \in [Threads -> Nat]
  /\ colBag \in [Threads -> BagIds]
  /\ chain \in [Threads -> SUBSET Objs]
  /\ keep \in [Threads -> SUBSET Objs]
  /\ retEpoch \in [Objs -> Nat]
  /\ obj \in [Objs -> Life]
  /\ blockers \in [Objs -> SUBSET Threads]

Init ==
  /\ epoch = 0
  /\ slots = [i \in SlotIds |-> FREE]
  /\ bags = [b \in BagIds |-> {}]
  /\ hwm = 0
  /\ mySlot = [t \in Threads |-> NoSlot]
  /\ tick = [t \in Threads |-> 0]
  /\ guards = [t \in Threads |-> 0]
  /\ pc = [t \in Threads |-> "idle"]
  /\ pinEpoch = [t \in Threads |-> 0]
  /\ retObj = [t \in Threads |-> NoObj]
  /\ colEpoch = [t \in Threads |-> 0]
  /\ colHwm = [t \in Threads |-> 0]
  /\ colIdx = [t \in Threads |-> 0]
  /\ colCur = [t \in Threads |-> 0]
  /\ colBag = [t \in Threads |-> 0]
  /\ chain = [t \in Threads |-> {}]
  /\ keep = [t \in Threads |-> {}]
  /\ retEpoch = [o \in Objs |-> 0]
  /\ obj = [o \in Objs |-> "free"]
  /\ blockers = [o \in Objs |-> {}]

Goto(t, from, to) == pc[t] = from /\ pc' = [pc EXCEPT ![t] = to]

-----------------------------------------------------------------------------
(* pin and local_slot                                                      *)

CanPin(t) == pc[t] = "idle" /\ guards[t] < MaxGuards /\ epoch < MaxEpoch

\* A slot is never FREE again once claimed, so the probe that wins a slot
\* has left no FREE slot behind it: it wins the lowest one.
ClaimSlot(t) ==
  /\ CanPin(t)
  /\ mySlot[t] = NoSlot
  /\ \E i \in SlotIds :
       /\ slots[i] = FREE
       /\ \A j \in SlotIds : j < i => slots[j] # FREE
       /\ slots' = [slots EXCEPT ![i] = UNPINNED]
       /\ mySlot' = [mySlot EXCEPT ![t] = i]
  /\ Goto(t, "idle", "hwm")
  /\ UNCHANGED <<epoch, bags, hwm, tick, guards, pinEpoch, collectVars, objVars>>

\* The probe finds every slot claimed: the thread panics.
SlotsExhausted(t) ==
  /\ CanPin(t)
  /\ mySlot[t] = NoSlot
  /\ \A i \in SlotIds : slots[i] # FREE
  /\ Goto(t, "idle", "panicked")
  /\ UNCHANGED <<domainVars, pinVars, collectVars, objVars>>

\* hwm.fetch_max
PublishHwm(t) ==
  /\ Goto(t, "hwm", "pinLoad")
  /\ hwm' = IF mySlot[t] > hwm THEN mySlot[t] ELSE hwm
  /\ UNCHANGED <<epoch, slots, bags, pinVars, collectVars, objVars>>

\* A registered thread starts pin here, with the cached slot.
PinLoad(t) ==
  /\ \/ Goto(t, "pinLoad", "pinStore")
     \/ CanPin(t) /\ mySlot[t] # NoSlot /\ Goto(t, "idle", "pinStore")
  /\ pinEpoch' = [pinEpoch EXCEPT ![t] = epoch]
  /\ UNCHANGED <<domainVars, mySlot, tick, guards, collectVars, objVars>>

PinStore(t) ==
  /\ Goto(t, "pinStore", "idle")
  /\ slots' = [slots EXCEPT ![mySlot[t]] = pinEpoch[t]]
  /\ guards' = [guards EXCEPT ![t] = @ + 1]
  /\ pinEpoch' = [pinEpoch EXCEPT ![t] = 0]
  /\ UNCHANGED <<epoch, bags, hwm, mySlot, tick, collectVars, objVars>>

\* Mutant: the slot is not set back to UNPINNED.
DropGuard_StaysPinned(t) ==
  LET n == (tick[t] + 1) % CollectInterval
  IN  /\ guards[t] > 0
      /\ Goto(t, "idle", IF n = 0 THEN "colLoad" ELSE "idle")
      /\ guards' = [guards EXCEPT ![t] = @ - 1]
      /\ tick' = [tick EXCEPT ![t] = n]
      /\ blockers' = IF guards[t] = 1
                     THEN [o \in Objs |-> blockers[o] \ {t}] ELSE blockers
      /\ UNCHANGED <<domainVars, mySlot, pinEpoch, collectVars, retObj, retEpoch,
                     obj>>

\* Guard::drop, of the youngest guard.  TICK wraps at 2^32, a multiple of
\* COLLECT_INTERVAL, so it is kept modulo the interval.
DropGuard(t) ==
  LET n == (tick[t] + 1) % CollectInterval
  IN  /\ guards[t] > 0
      /\ Goto(t, "idle", IF n = 0 THEN "colLoad" ELSE "idle")
      /\ slots' = [slots EXCEPT ![mySlot[t]] = UNPINNED]
      /\ guards' = [guards EXCEPT ![t] = @ - 1]
      /\ tick' = [tick EXCEPT ![t] = n]
      /\ blockers' = IF guards[t] = 1
                     THEN [o \in Objs |-> blockers[o] \ {t}] ELSE blockers
      /\ UNCHANGED <<epoch, bags, hwm, mySlot, pinEpoch, collectVars,
                     retObj, retEpoch, obj>>

\* The thread ends and another one starts, with thread-locals of its own.  The
\* slot stays claimed.
Exit(t) ==
  /\ pc[t] = "idle" /\ guards[t] = 0
  /\ mySlot' = [mySlot EXCEPT ![t] = NoSlot]
  /\ tick' = [tick EXCEPT ![t] = 0]
  /\ UNCHANGED <<domainVars, guards, pinEpoch, pc, collectVars, objVars>>

-----------------------------------------------------------------------------
(* The protected structure, as far as the domain sees it, and retire       *)

Pinned == {t \in Threads : guards[t] > 0}

\* A thread under a guard allocates an object and makes it reachable.
Publish(t, o) ==
  /\ pc[t] = "idle" /\ guards[t] > 0
  /\ obj[o] = "free"
  /\ obj' = [obj EXCEPT ![o] = "linked"]
  /\ UNCHANGED <<domainVars, pinVars, pc, collectVars, retObj, retEpoch, blockers>>

\* Mutant: the thread has dropped its guard already.
Unlink_Unguarded(t, o) ==
  /\ Goto(t, "idle", "retLoad")
  /\ obj[o] = "linked"
  /\ obj' = [obj EXCEPT ![o] = "unlinked"]
  /\ blockers' = [blockers EXCEPT ![o] = Pinned]
  /\ retObj' = [retObj EXCEPT ![t] = o]
  /\ UNCHANGED <<domainVars, pinVars, collectVars, retEpoch>>

\* A thread under a guard makes an object unreachable and calls retire.
Unlink(t, o) ==
  /\ guards[t] > 0
  /\ Goto(t, "idle", "retLoad")
  /\ obj[o] = "linked"
  /\ obj' = [obj EXCEPT ![o] = "unlinked"]
  /\ blockers' = [blockers EXCEPT ![o] = Pinned]
  /\ retObj' = [retObj EXCEPT ![t] = o]
  /\ UNCHANGED <<domainVars, pinVars, collectVars, retEpoch>>

RetireLoad(t) ==
  /\ Goto(t, "retLoad", "retPush")
  /\ retEpoch' = [retEpoch EXCEPT ![retObj[t]] = epoch]
  /\ UNCHANGED <<domainVars, pinVars, collectVars, retObj, obj, blockers>>

RetirePush(t) ==
  LET o == retObj[t]
      b == retEpoch[o] % NBags
  IN  /\ Goto(t, "retPush", "idle")
      /\ bags' = [bags EXCEPT ![b] = @ \cup {o}]
      /\ obj' = [obj EXCEPT ![o] = "retired"]
      /\ retObj' = [retObj EXCEPT ![t] = NoObj]
      /\ UNCHANGED <<epoch, slots, hwm, pinVars, collectVars, retEpoch, blockers>>

-----------------------------------------------------------------------------
(* try_collect and reclaim_bag                                             *)

\* try_collect is public: a thread may call it outside Guard::drop as well.
ColLoad(t) ==
  /\ \/ Goto(t, "colLoad", "colHwm")
     \/ epoch < MaxEpoch /\ Goto(t, "idle", "colHwm")
  /\ colEpoch' = [colEpoch EXCEPT ![t] = epoch]
  /\ UNCHANGED <<domainVars, pinVars, colHwm, colIdx, colCur, colBag, chain,
                 keep, objVars>>

ColHwm(t) ==
  /\ Goto(t, "colHwm", "colScan")
  /\ colHwm' = [colHwm EXCEPT ![t] = hwm]
  /\ colIdx' = [colIdx EXCEPT ![t] = 0]
  /\ UNCHANGED <<domainVars, pinVars, colEpoch, colCur, colBag, chain, keep,
                 objVars>>

\* One iteration of the scan: a slot pinned at another epoch ends it, the
\* last slot of the claimed prefix lets the epoch advance.
ColScan(t) ==
  LET v == slots[colIdx[t]]
      behind == v \notin {FREE, UNPINNED} /\ v # colEpoch[t]
      last == colIdx[t] = colHwm[t]
  IN  /\ Goto(t, "colScan", IF behind THEN "colCur"
                            ELSE IF last THEN "colCas" ELSE "colScan")
      /\ colIdx' = IF behind \/ last THEN colIdx
                   ELSE [colIdx EXCEPT ![t] = @ + 1]
      /\ UNCHANGED <<domainVars, pinVars, colEpoch, colHwm, colCur, colBag,
                     chain, keep, objVars>>

ColCas(t) ==
  /\ Goto(t, "colCas", "colCur")
  /\ epoch' = IF epoch = colEpoch[t] THEN epoch + 1 ELSE epoch
  /\ UNCHANGED <<slots, bags, hwm, pinVars, collectVars, objVars>>

ColCur(t) ==
  /\ Goto(t, "colCur", "recSwap")
  /\ colCur' = [colCur EXCEPT ![t] = epoch]
  /\ colBag' = [colBag EXCEPT ![t] = 0]
  /\ colEpoch' = [colEpoch EXCEPT ![t] = 0]
  /\ colHwm' = [colHwm EXCEPT ![t] = 0]
  /\ colIdx' = [colIdx EXCEPT ![t] = 0]
  /\ UNCHANGED <<domainVars, pinVars, chain, keep, objVars>>

\* Mutant: the chain is read without being detached.
RecSwap_LoadOnly(t) ==
  /\ Goto(t, "recSwap", "recNode")
  /\ chain' = [chain EXCEPT ![t] = bags[colBag[t]]]
  /\ UNCHANGED <<domainVars, pinVars, colEpoch, colHwm, colIdx, colCur, colBag,
                 keep, objVars>>

\* bag.swap(null)
RecSwap(t) ==
  /\ Goto(t, "recSwap", "recNode")
  /\ chain' = [chain EXCEPT ![t] = bags[colBag[t]]]
  /\ bags' = [bags EXCEPT ![colBag[t]] = {}]
  /\ UNCHANGED <<epoch, slots, hwm, pinVars, colEpoch, colHwm, colIdx, colCur,
                 colBag, keep, objVars>>

\* Mutant: a grace period of one epoch.
Eligible_OneEpoch(t, o) == retEpoch[o] + 1 <= colCur[t]

Eligible(t, o) == retEpoch[o] + 2 <= colCur[t]

\* The next node of the detached chain is freed ...
RecFree(t, o) ==
  /\ pc[t] = "recNode"
  /\ o \in chain[t]
  /\ Eligible(t, o)
  /\ chain' = [chain EXCEPT ![t] = @ \ {o}]
  /\ obj' = [obj EXCEPT ![o] = "free"]
  /\ retEpoch' = [retEpoch EXCEPT ![o] = 0]
  /\ UNCHANGED <<domainVars, pinVars, pc, colEpoch, colHwm, colIdx, colCur,
                 colBag, keep, retObj, blockers>>

\* ... or, too young, goes to the keep list.
RecKeep(t, o) ==
  /\ pc[t] = "recNode"
  /\ o \in chain[t]
  /\ ~Eligible(t, o)
  /\ chain' = [chain EXCEPT ![t] = @ \ {o}]
  /\ keep' = [keep EXCEPT ![t] = @ \cup {o}]
  /\ UNCHANGED <<domainVars, pinVars, pc, colEpoch, colHwm, colIdx, colCur,
                 colBag, objVars>>

\* A kept node is pushed back onto the bag it came from.
RecPush(t, o) ==
  /\ pc[t] = "recNode" /\ chain[t] = {}
  /\ o \in keep[t]
  /\ keep' = [keep EXCEPT ![t] = @ \ {o}]
  /\ bags' = [bags EXCEPT ![colBag[t]] = @ \cup {o}]
  /\ UNCHANGED <<epoch, slots, hwm, pinVars, pc, colEpoch, colHwm, colIdx,
                 colCur, colBag, chain, objVars>>

\* Mutant: the loop over the bags runs one bag too far.
RecNext_PastEnd(t) ==
  LET last == colBag[t] = NBags
  IN  /\ chain[t] = {} /\ keep[t] = {}
      /\ Goto(t, "recNode", IF last THEN "idle" ELSE "recSwap")
      /\ colBag' = [colBag EXCEPT ![t] = IF last THEN 0 ELSE @ + 1]
      /\ colCur' = [colCur EXCEPT ![t] = IF last THEN 0 ELSE @]
      /\ UNCHANGED <<domainVars, pinVars, colEpoch, colHwm, colIdx, chain, keep,
                     objVars>>

\* The bag is done: the next one, or the end of try_collect.
RecNext(t) ==
  LET last == colBag[t] = NBags - 1
  IN  /\ chain[t] = {} /\ keep[t] = {}
      /\ Goto(t, "recNode", IF last THEN "idle" ELSE "recSwap")
      /\ colBag' = [colBag EXCEPT ![t] = IF last THEN 0 ELSE @ + 1]
      /\ colCur' = [colCur EXCEPT ![t] = IF last THEN 0 ELSE @]
      /\ UNCHANGED <<domainVars, pinVars, colEpoch, colHwm, colIdx, chain, keep,
                     objVars>>

-----------------------------------------------------------------------------
Collect(t) ==
  \/ ColLoad(t) \/ ColHwm(t) \/ ColScan(t) \/ ColCas(t) \/ ColCur(t)
  \/ RecSwap(t) \/ RecNext(t)
  \/ \E o \in Objs : RecFree(t, o) \/ RecKeep(t, o) \/ RecPush(t, o)

PinUnpin(t) ==
  \/ ClaimSlot(t) \/ SlotsExhausted(t) \/ PublishHwm(t) \/ PinLoad(t)
  \/ PinStore(t) \/ DropGuard(t) \/ Exit(t)

Client(t) ==
  \/ RetireLoad(t) \/ RetirePush(t)
  \/ \E o \in Objs : Publish(t, o) \/ Unlink(t, o)

Next == \E t \in Threads : PinUnpin(t) \/ Client(t) \/ Collect(t)

Spec == Init /\ [][Next]_vars

\* A thread inside ebr.rs keeps running, a guard is dropped in the end, and
\* guards are taken again and again.
Fairness ==
  \A t \in Threads :
    /\ WF_vars(pc[t] # "idle" /\ (PinUnpin(t) \/ Client(t) \/ Collect(t)))
    /\ SF_vars(DropGuard(t))
    /\ SF_vars(ClaimSlot(t) \/ SlotsExhausted(t) \/ PinLoad(t))

FairSpec == Spec /\ Fairness

-----------------------------------------------------------------------------
(* Properties                                                              *)

\* pin promises that while a guard lives nothing its thread may point at is
\* freed: an object whose memory is free has no thread left that held a guard
\* when the object was taken out of the structure and has held it ever since.
NoUseAfterFree == \A o \in Objs : obj[o] = "free" => blockers[o] = {}

GP == INSTANCE GracePeriod WITH pinned <- Pinned

\* The domain implements the grace period that the index relies on.
ImplementsGracePeriod == GP!Spec

OneRecordOf(o) ==
  /\ obj[o] = "retired" <=> \/ \E b \in BagIds : o \in bags[b]
                            \/ \E t \in Threads : o \in chain[t] \/ o \in keep[t]
  /\ \A b \in BagIds : o \in bags[b] =>
       /\ \A c \in BagIds : o \in bags[c] => c = b
       /\ \A t \in Threads : o \notin chain[t] /\ o \notin keep[t]
  /\ \A t \in Threads : o \in chain[t] =>
       \A u \in Threads : o \notin keep[u] /\ (o \in chain[u] => u = t)
  /\ \A t, u \in Threads : o \in keep[t] /\ o \in keep[u] => u = t

\* Every retired object's record is on exactly one list: a bag, or the chain
\* or keep list of one collector.  reclaim_bag, run by several threads at once,
\* neither leaks a record nor frees it twice.
OneRecord == \A o \in Objs : OneRecordOf(o)

\* try_collect cannot be kept from advancing the epoch for ever as long as
\* threads take and drop guards (up to the bound of the model), those that ended
\* and left their slots behind included.
EpochAdvances ==
  \A e \in 0 .. MaxEpoch - 1 :
    epoch = e ~> \/ epoch > e
                 \/ \A t \in Threads : pc[t] = "panicked"

-----------------------------------------------------------------------------
(* The inductive invariant behind the proofs in EbrProofs                  *)

\* Who owns which slot, and that the claimed prefix covers it.
SlotInv ==
  /\ \A t \in Threads : mySlot[t] # NoSlot => slots[mySlot[t]] # FREE
  /\ \A t, u \in Threads :
       mySlot[t] # NoSlot /\ mySlot[t] = mySlot[u] => t = u
  /\ \A t \in Threads :
       pc[t] \in {"hwm", "pinLoad", "pinStore"} \/ guards[t] > 0
         => mySlot[t] # NoSlot
  /\ \A t \in Threads :
       mySlot[t] # NoSlot /\ pc[t] # "hwm" => mySlot[t] <= hwm

\* A pin in progress has no other guard to protect when guards do not nest.
PinInv ==
  \A t \in Threads :
    pc[t] \in {"hwm", "pinLoad", "pinStore"} => guards[t] < MaxGuards

\* The scan stays inside the prefix it read.
ScanInv == \A t \in Threads : pc[t] = "colScan" => colIdx[t] <= colHwm[t]

\* An object between unlink and push belongs to one retire call.
RetInv ==
  /\ \A t \in Threads : pc[t] \in {"retLoad", "retPush"}
                          => retObj[t] \in Objs /\ obj[retObj[t]] = "unlinked"
  /\ \A t, u \in Threads :
       /\ pc[t] \in {"retLoad", "retPush"}
       /\ pc[u] \in {"retLoad", "retPush"}
       /\ retObj[t] = retObj[u]
       => t = u

ListInv ==
  /\ OneRecord
  /\ \A t \in Threads : pc[t] # "recNode" => chain[t] = {} /\ keep[t] = {}

BaseInv == TypeOK /\ SlotInv /\ PinInv /\ ScanInv /\ RetInv /\ ListInv

\* The retire epoch of o has been read.
Stamped(o) ==
  \/ obj[o] = "retired"
  \/ \E t \in Threads : pc[t] = "retPush" /\ retObj[t] = o

\* Collector c will not look at the slot of thread t any more.
Passed(c, t) ==
  \/ pc[c] = "colCas"
  \/ pc[c] = "colScan" /\ (mySlot[t] < colIdx[c] \/ colHwm[c] < mySlot[t])

\* Epochs that were read are not ahead of the global one.
ReadInv ==
  \A t \in Threads :
    /\ pc[t] = "pinStore" => pinEpoch[t] <= epoch
    /\ pc[t] \in {"colHwm", "colScan", "colCas"} => colEpoch[t] <= epoch
    /\ pc[t] \in {"recSwap", "recNode"} => colCur[t] <= epoch
    /\ guards[t] > 0 => slots[mySlot[t]] \in Nat /\ slots[mySlot[t]] <= epoch

\* An object that may be reached has no blockers; a blocker holds a guard.
BlockInv ==
  \A o \in Objs :
    /\ obj[o] \in {"free", "linked"} => blockers[o] = {}
    /\ \A t \in blockers[o] : guards[t] > 0

\* While t blocks o the global epoch is at most one past the retire epoch, and
\* a collector about to advance it read an epoch not later than that one.
GraceOf(o, t) ==
  /\ slots[mySlot[t]] <= retEpoch[o]
  /\ epoch <= retEpoch[o] + 1
  /\ \A c \in Threads : Passed(c, t) /\ colEpoch[c] = epoch => epoch <= retEpoch[o]

GraceInv == \A o \in Objs : Stamped(o) => \A t \in blockers[o] : GraceOf(o, t)

IInv == BaseInv /\ ReadInv /\ BlockInv /\ GraceInv
=============================================================================
