------------------------------ MODULE ArenaKv ------------------------------
(***************************************************************************)
(* The store of zerocopy.rs: put copies the key and the value into the     *)
(* arena and appends their spans to entries; get scans entries and borrows *)
(* the value in place.  A span with its copy is one step (the region       *)
(* belongs to the caller alone), as is what is done under the mutex.       *)
(***************************************************************************)
EXTENDS Arena, Sequences

CONSTANTS
  Keys,         \* keys, as sequences of bytes
  MaxEntries,   \* bound on the puts
  None

VARIABLES
  mem,       \* the bytes of the arena
  entries,   \* ArenaKv::entries: spans of a key and of its value
  put,       \* the put of a thread: label, key, the key's offset, the value's
  res        \* what the last call of a thread returned

kvVars == <<mem, entries, put, res>>

Unwritten == 0
NoPut == [pc |-> "idle", key |-> <<>>, kp |-> 0, vp |-> 0]

KvInit ==
  /\ mem = [b \in Bytes |-> Unwritten]
  /\ entries = <<>>
  /\ put = [t \in Threads |-> NoPut]
  /\ res = [t \in Threads |-> None]

\* copy_nonoverlapping, of s to offset p.
Copied(s, p) == [b \in Bytes |-> IF p <= b /\ b < p + Len(s) THEN s[b - p + 1] ELSE mem[b]]

\* from_raw_parts
Slice(p, n) == [i \in 1 .. n |-> mem[p + i - 1]]

Matches(k) == {i \in DOMAIN entries : Slice(entries[i].kp, entries[i].kl) = k}

\* The scan of get stops at the first entry that matches; mutant: at the last.
Scan_FromEnd(k) == CHOOSE i \in Matches(k) : \A j \in Matches(k) : j <= i
Scan(k) == CHOOSE i \in Matches(k) : \A j \in Matches(k) : i <= j

Lookup(k) == IF Matches(k) = {} THEN None
             ELSE Slice(entries[Scan(k)].vp, entries[Scan(k)].vl)

Get(t, k) ==
  /\ put[t].pc = "idle"
  /\ res' = [res EXCEPT ![t] = <<"get", Lookup(k)>>]
  /\ UNCHANGED <<arenaVars, mem, entries, put>>

\* push_bytes(key) begins.
Put(t, k) ==
  /\ put[t].pc = "idle"
  /\ AllocRaw(t, Len(k), 1)
  /\ put' = [put EXCEPT ![t] = [NoPut EXCEPT !.pc = "key", !.key = k]]
  /\ res' = [res EXCEPT ![t] = None]
  /\ UNCHANGED <<mem, entries>>

\* push_bytes has got no memory: a key copied before stays behind in the arena.
PutFails(t) ==
  /\ alloc[t].st = "none"
  /\ AllocDone(t)
  /\ put' = [put EXCEPT ![t] = NoPut]
  /\ res' = [res EXCEPT ![t] = <<"put", FALSE>>]
  /\ UNCHANGED <<mem, entries>>

\* The key is copied, and push_bytes(val) begins.
CopyKey(t, val) ==
  /\ put[t].pc = "key" /\ alloc[t].st = "ok"
  /\ mem' = Copied(put[t].key, alloc[t].ptr)
  /\ AllocRaw(t, Len(val), 1)
  /\ put' = [put EXCEPT ![t].pc = "val", ![t].kp = alloc[t].ptr]
  /\ UNCHANGED <<entries, res>>

CopyVal(t, val) ==
  /\ put[t].pc = "val" /\ alloc[t].st = "ok"
  /\ mem' = Copied(val, alloc[t].ptr)
  /\ AllocDone(t)
  /\ put' = [put EXCEPT ![t].pc = "push", ![t].vp = alloc[t].ptr]
  /\ UNCHANGED <<entries, res>>

Push(t, val) ==
  /\ put[t].pc = "push"
  /\ entries' = Append(entries, [kp |-> put[t].kp, kl |-> Len(put[t].key),
                                 vp |-> put[t].vp, vl |-> Len(val)])
  /\ put' = [put EXCEPT ![t] = NoPut]
  /\ res' = [res EXCEPT ![t] = <<"put", TRUE>>]
  /\ UNCHANGED <<arenaVars, mem>>
=============================================================================
