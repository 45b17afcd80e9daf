------------------------------ MODULE Staging ------------------------------
(***************************************************************************)
(* Threads that read a file into registered buffers and put what they have *)
(* read, or bytes of their own, into one ArenaKv: the two ways in which    *)
(* the crate hands out pieces of one block of memory, used together.  A    *)
(* buffer is borrowed by the put that copies it: it is neither read into   *)
(* nor dropped before the put returns.                                     *)
(***************************************************************************)
EXTENDS ArenaKv, RegBuf, FiniteSets

CONSTANTS OwnVals   \* values that do not come from a buffer

ASSUME StagingAssumption ==
  Clients = Threads /\ Keys \subseteq Seq(Nat) /\ OwnVals \subseteq Seq(Nat) /\ NoBuf \notin Seq(Nat)

VARIABLE src    \* the value of a put under way: own bytes, or NoBuf for the buffer's

vars == <<arenaVars, kvVars, poolVars, src>>

\* The slice that put was called with, as it is now.
Val(t) == IF src[t] = NoBuf THEN AsSlice(t) ELSE src[t]

TypeOK ==
  /\ ArenaTypeOK
  /\ \A b \in Bytes : mem[b] \in Nat
  /\ Len(entries) <= MaxEntries
  /\ \A i \in DOMAIN entries :
       entries[i].kp + entries[i].kl <= Cap /\ entries[i].vp + entries[i].vl <= Cap
  /\ \A t \in Threads : put[t].pc \in {"idle", "key", "val", "push"} /\ put[t].key \in Keys \cup {<<>>}
  /\ \A t \in Threads : held[t] \in Indexes \cup {NoBuf} /\ got[t] \in 0 .. BufLen
  /\ Len(free) <= Count

Init == ArenaInit /\ KvInit /\ PoolInit /\ src = [t \in Threads |-> <<>>]

\* A put is called with own bytes or with the bytes read last.
CallPut(t) ==
  /\ Len(entries) + Cardinality({u \in Threads : put[u].pc # "idle"}) < MaxEntries
  /\ \E k \in Keys : Put(t, k)
  /\ \E s \in OwnVals \cup (IF held[t] = NoBuf THEN {} ELSE {NoBuf}) : src' = [src EXCEPT ![t] = s]
  /\ UNCHANGED poolVars

InPut(t) ==
  \/ /\ AllocLoop(t)
     /\ UNCHANGED <<kvVars, src>>
  \/ /\ CopyKey(t, Val(t)) \/ CopyVal(t, Val(t))
     /\ UNCHANGED src
  \/ /\ Push(t, Val(t)) \/ PutFails(t)
     /\ src' = [src EXCEPT ![t] = <<>>]

PoolStep(t) ==
  /\ put[t].pc = "idle"
  /\ Acquire(t) \/ Release(t) \/ \E off, n \in 0 .. Len(File) : ReadFixed(t, off, BufLen, n)
  /\ UNCHANGED <<arenaVars, kvVars, src>>

Next ==
  \E t \in Threads :
    \/ CallPut(t)
    \/ InPut(t) /\ UNCHANGED poolVars
    \/ (\E k \in Keys : Get(t, k)) /\ UNCHANGED <<poolVars, src>>
    \/ PoolStep(t)

Spec == Init /\ [][Next]_vars

-----------------------------------------------------------------------------
\* The put of t as the abstract map sees it.
AbsCall(t) ==
  IF put[t].pc = "idle" THEN None
  ELSE [key |-> put[t].key,
        val |-> IF src[t] = NoBuf THEN SubSeq(view[t], 1, got[t]) ELSE src[t]]

Abs == INSTANCE WriteOnceMap WITH
         Vals <- OwnVals \cup {SubSeq(File, i, j) : i \in 1 .. Len(File) + 1, j \in 0 .. Len(File)},
         map <- [k \in Keys |-> Lookup(k)],
         call <- [t \in Threads |-> AbsCall(t)]

\* The push of an entry is the put: before it nobody sees the key, from then on every
\* get returns the bytes put was called with, although the buffer they came from is
\* reused and other puts copy into the same arena.  A second put of a key succeeds
\* and changes nothing that get returns, and a put that fails leaves no trace.
ImplementsWriteOnce == Abs!Spec
=============================================================================
