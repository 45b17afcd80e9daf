------------------------------ MODULE SkipList ------------------------------
(***************************************************************************)
(* The lock-free skip list of skiplist.rs.  Every load, store and          *)
(* compare_exchange of a forward Link or of a value cell is a step of its  *)
(* own.  Keys are numbers, and the value an insert writes is the name of   *)
(* the thread that makes the call.                                         *)
(*                                                                         *)
(* The caller holds one Guard for each operation.  The reclamation domain  *)
(* is used through what Ebr is shown to implement (GracePeriod): a retired *)
(* node is freed, and its memory may be allocated again, once no operation *)
(* that was under way when it was retired is still under way.              *)
(***************************************************************************)
EXTENDS Naturals, FiniteSets

CONSTANTS
  Threads,
  Nodes,        \* memory blocks for nodes
  Keys,         \* the finite keys, between Lowest and Highest
  Lowest, Highest,   \* NegInf and PosInf
  MaxLevel,     \* max_level
  Ops,          \* [Threads -> SUBSET Calls]: the calls each thread makes
  Heights,      \* [Keys -> SUBSET Levels]: bound on what random_level draws for a key
  WordBits,     \* width of usize
  Head, Tail,   \* the sentinels
  None          \* null

Kinds == {"insert", "get", "remove"}
Levels == 0 .. MaxLevel
Calls == [kind : Kinds, key : Keys]

ASSUME SkipListAssumption ==
  /\ MaxLevel \in Nat /\ WordBits \in Nat
  /\ Keys \subseteq Nat /\ Lowest \in Nat /\ Highest \in Nat
  /\ \A k \in Keys : Lowest < k /\ k < Highest
  /\ Ops \in [Threads -> SUBSET Calls] /\ Heights \in [Keys -> SUBSET Levels]
  /\ Cardinality({Head, Tail, None}) = 3
  /\ Nodes \cap {Head, Tail, None} = {}

VARIABLES
  key, val, top, link,   \* of the nodes: key, value, top_level, forward links
  state,             \* of a node: "free", "linked" (allocated), "retired"
  len,               \* SkipList::len
  pc, loc,           \* where a thread is, and its local variables
  blockers,          \* threads a retired node waits for (the Ebr domain)
  dropped,           \* the list was dropped
  seen, lin,         \* history: see Linearizable
  overtaken          \* history: see RetryMeansProgress

nodeVars == <<key, val, top, link, state>>
vars == <<nodeVars, len, pc, loc, blockers, dropped, seen, lin, overtaken>>

AllNodes == Nodes \cup {Head, Tail}
Ref(n, m) == [ref |-> n, mark |-> m]

\* preds and succs are kept for insert only, which alone uses them.
NoPath == [l \in Levels |-> None]
NoLocals == [call |-> None, ret |-> "none", level |-> 0, pred |-> None, curr |-> None,
             succ |-> None, preds |-> NoPath, succs |-> NoPath, node |-> None,
             lv |-> 0, top |-> 0]

Labels == {"idle", "ref", "load", "splice", "swap", "publish", "store", "link",
           "incLen", "markGet", "mark", "get0", "mark0", "chk0", "decLen",
           "retire", "getMark", "getValue"}

TypeOK ==
  /\ key \in [AllNodes -> Keys \cup {Lowest, Highest}]
  /\ val \in [AllNodes -> Threads \cup {None}]
  /\ top \in [AllNodes -> Levels]
  /\ link \in [AllNodes -> [Levels -> [ref : AllNodes \cup {None}, mark : BOOLEAN]]]
  /\ state \in [AllNodes -> {"free", "linked", "retired"}]
  /\ len \in 0 .. 2 ^ WordBits - 1
  /\ pc \in [Threads -> Labels]
  /\ \A t \in Threads :
       /\ loc[t].call \in Calls \cup {None}
       /\ loc[t].ret \in {"none", "insert", "upper", "remove", "unlink"}
       /\ {loc[t].level, loc[t].lv, loc[t].top} \subseteq Levels
       /\ {loc[t].pred, loc[t].curr, loc[t].succ, loc[t].node} \subseteq AllNodes \cup {None}
       /\ {loc[t].preds, loc[t].succs} \subseteq [Levels -> AllNodes \cup {None}]
  /\ blockers \in [AllNodes -> SUBSET Threads]
  /\ dropped \in BOOLEAN
  /\ seen \in [Threads -> SUBSET (Threads \cup {None})]
  /\ lin \in BOOLEAN
  /\ overtaken \subseteq Threads

\* with_max_level: every level of head points at tail.
Init ==
  /\ key = [n \in AllNodes |-> IF n = Tail THEN Highest ELSE Lowest]
  /\ val = [n \in AllNodes |-> None]
  /\ top = [n \in AllNodes |-> IF n \in Nodes THEN 0 ELSE MaxLevel]
  /\ link = [n \in AllNodes |-> [l \in Levels |->
               Ref(IF n = Head THEN Tail ELSE None, FALSE)]]
  /\ state = [n \in AllNodes |-> IF n \in Nodes THEN "free" ELSE "linked"]
  /\ len = 0
  /\ pc = [t \in Threads |-> "idle"]
  /\ loc = [t \in Threads |-> NoLocals]
  /\ blockers = [n \in AllNodes |-> {}]
  /\ dropped = FALSE
  /\ seen = [t \in Threads |-> {}]
  /\ lin = TRUE
  /\ overtaken = {}

-----------------------------------------------------------------------------
(* The map the list stands for, and the history of the calls               *)

\* Nodes reached from head by following level l, marked ones included.
Reach(l) ==
  LET walk[i \in 0 .. Cardinality(AllNodes)] ==
        IF i = 0 THEN Head
        ELSE LET n == walk[i - 1] IN IF n = None THEN None ELSE link[n][l].ref
  IN  {walk[i] : i \in DOMAIN walk} \ {None}

\* The nodes published and not logically deleted.
Live == {n \in Reach(0) \cap Nodes : ~link[n][0].mark}

\* The map: a key has the value of its live node, or none.
Map ==
  LET live == Live
  IN  [k \in Keys |-> LET at == {n \in live : key[n] = k}
                      IN  IF at = {} THEN None ELSE val[CHOOSE n \in at : TRUE]]

InCall == {t \in Threads : pc[t] # "idle"}
Kind(t) == loc[t].call.kind
Key(t) == loc[t].call.key

\* In a search, or between a search and the compare_exchange that relies on it.
Searching == {"ref", "load", "splice", "publish", "store", "link"}

\* A search of t begins with the step.
Begins(t) == pc'[t] = "ref" /\ pc[t] # "ref" /\ loc'[t].level = MaxLevel

\* The nodes the step deletes logically, and the overwrites found on their way to
\* one: an insert that swaps the value of a node just deleted takes effect right
\* before the deletion.
Deleted == {n \in Nodes : ~link[n][0].mark /\ link'[n][0].mark}
Overwrites(k) == {t \in Threads : pc[t] = "swap" /\ Key(t) = k /\ loc[t].node \in Deleted}

\* The calls under way see the value of their key after the step.  A writer is
\* overtaken when another thread changes a link after its search began.
Observe ==
  /\ LET now == Map'
     IN  seen' = [t \in Threads |->
                    IF pc'[t] = "idle" THEN {}
                    ELSE LET k == loc'[t].call.key IN seen[t] \cup {now[k]} \cup Overwrites(k)]
  /\ overtaken' = {t \in Threads :
       /\ pc'[t] \in Searching /\ loc'[t].call.kind # "get" /\ ~Begins(t)
       /\ t \in overtaken \/ (link' # link /\ pc' # pc /\ pc'[t] = pc[t])}

At(t, l) == pc[t] = l
Goto(t, l) == pc' = [pc EXCEPT ![t] = l]

\* The call of t returns: a result it may give if the value of its key at some
\* instant of the call allows it, or if it took effect itself.
Return(t, allowed) ==
  /\ Goto(t, "idle")
  /\ loc' = [loc EXCEPT ![t] = NoLocals]
  /\ blockers' = [n \in AllNodes |-> blockers[n] \ {t}]
  /\ lin' = (lin /\ allowed)

\* A step inside a call.
Step(t, l, locals) ==
  /\ Goto(t, l)
  /\ loc' = [loc EXCEPT ![t] = locals]

Link(n, l, r) == link' = [link EXCEPT ![n][l] = r]

\* Link::cas and Link::attempt_mark
CanCas(n, l, expected) == link[n][l] = expected

calm == <<key, val, top, state, len, dropped>>

\* A step that changes locals only, and one that also changes a link.
OnlyLocals == UNCHANGED <<calm, link, blockers, lin>> /\ Observe
OnlyLinks == UNCHANGED <<calm, blockers, lin>> /\ Observe

\* A call returns and leaves the list as it is.
OnlyReturns == UNCHANGED <<calm, link>> /\ Observe

\* find starts, or starts again, at the head.
StartFind(locals, ret) ==
  [locals EXCEPT !.ret = ret, !.level = MaxLevel, !.pred = Head, !.curr = None,
                 !.succ = None, !.preds = NoPath, !.succs = NoPath]

\* Bound: an insert is called only while a block is left for it.
Inserting == {t \in InCall : Kind(t) = "insert"}
MemoryLeft == Cardinality({n \in Nodes : state[n] = "free"}) > Cardinality(Inserting)

\* random_geometric_level: one level more for every leading pair of random bits that
\* are both set, up to max.
RandomGeometricLevel(pairs, max) ==
  CHOOSE level \in 1 .. max : /\ \A i \in 1 .. level - 1 : pairs[i] = 3
                             /\ \/ level = max
                                \/ pairs[level] # 3

\* The levels that random_level may draw.
RandomLevel == {RandomGeometricLevel(pairs, MaxLevel + 1) - 1 : pairs \in [1 .. MaxLevel -> 0 .. 3]}

\* A call begins; insert draws the height of its node.
Call(t) ==
  /\ At(t, "idle") /\ ~dropped
  /\ \E c \in {c \in Ops[t] : c.kind = "insert" => MemoryLeft} :
     \E h \in IF c.kind = "insert" THEN RandomLevel \cap Heights[c.key] ELSE {0} :
       Step(t, "ref", StartFind([NoLocals EXCEPT !.call = c, !.top = h],
                                IF c.kind = "get" THEN "none" ELSE c.kind))
  /\ OnlyLocals

-----------------------------------------------------------------------------
(* The search of find and get                                              *)

LoadRef(t) ==
  LET v == loc[t]
  IN  /\ At(t, "ref")
      /\ Step(t, "load", [v EXCEPT !.curr = link[v.pred][v.level].ref])
      /\ OnlyLocals

\* curr is marked: find is going to splice it out, get walks past it.
LoadMarked(t) ==
  LET v == loc[t]
      l == link[v.curr][v.level]
  IN  /\ At(t, "load") /\ l.mark
      /\ IF Kind(t) = "get" THEN Step(t, "load", [v EXCEPT !.curr = l.ref])
                            ELSE Step(t, "splice", [v EXCEPT !.succ = l.ref])
      /\ OnlyLocals

\* key_lt; mutant: <= instead of <.
KeyLt_Le(n, k) == key[n] <= k
KeyLt(n, k) == key[n] < k

\* Move right.
LoadRight(t) ==
  LET v == loc[t]
      l == link[v.curr][v.level]
  IN  /\ At(t, "load") /\ ~l.mark
      /\ KeyLt(v.curr, Key(t))
      /\ Step(t, "load", [v EXCEPT !.pred = v.curr, !.curr = l.ref])
      /\ OnlyLocals

\* The end of a level: preds and succs are noted.
Noted(t) ==
  LET v == loc[t]
  IN  IF Kind(t) = "insert" /\ v.level <= v.top
      THEN [v EXCEPT !.preds[v.level] = v.pred, !.succs[v.level] = v.curr, !.curr = None]
      ELSE [v EXCEPT !.curr = None]

AtEndOfLevel(t) ==
  LET v == loc[t]
  IN  At(t, "load") /\ ~link[v.curr][v.level].mark /\ ~KeyLt(v.curr, Key(t))

LoadDown(t) ==
  /\ AtEndOfLevel(t) /\ loc[t].level > 0
  /\ Step(t, "ref", [Noted(t) EXCEPT !.level = @ - 1])
  /\ OnlyLocals

\* The compare_exchange of a splice; mutant: a plain store.
SpliceOk_Store(v) == TRUE
SpliceOk(v) == CanCas(v.pred, v.level, Ref(v.curr, FALSE))

\* The search goes on at the successor; mutant: it stays.
Spliced_StaysPut(v) == [v EXCEPT !.succ = None]
Spliced(v) == [v EXCEPT !.curr = v.succ, !.succ = None]

\* The splice of a marked node: a failure starts the search again.
Splice(t) ==
  LET v == loc[t]
  IN  /\ At(t, "splice")
      /\ IF SpliceOk(v)
         THEN /\ Link(v.pred, v.level, Ref(v.succ, FALSE))
              /\ Step(t, "load", Spliced(v))
         ELSE /\ Step(t, "ref", StartFind(v, v.ret))
              /\ UNCHANGED link
      /\ OnlyLinks

Found(t) == key[loc[t].curr] = Key(t)
FindDone(t, ret) == AtEndOfLevel(t) /\ loc[t].level = 0 /\ loc[t].ret = ret

-----------------------------------------------------------------------------
(* insert                                                                  *)

InsertFound(t) ==
  LET v == [Noted(t) EXCEPT !.pred = None, !.ret = "none"]
  IN  /\ FindDone(t, "insert")
      /\ IF Found(t)
         THEN Step(t, "swap", [v EXCEPT !.node = loc[t].curr, !.preds = NoPath,
                                        !.succs = NoPath])
         ELSE Step(t, "publish", v)
      /\ OnlyLocals

\* The value cell is swapped and the old one retired.
Swap(t) ==
  /\ At(t, "swap")
  /\ val' = [val EXCEPT ![loc[t].node] = t]
  /\ Return(t, seen[t] # {None})
  /\ UNCHANGED <<key, top, state, len, dropped, link>>
  /\ Observe

\* A lost race starts the search again; mutant: only the successor is read again.
LostRace_KeepsPred(t) ==
  Step(t, "publish", [loc[t] EXCEPT !.succs[0] = link[loc[t].preds[0]][0].ref])
LostRace(t) == Step(t, "ref", StartFind(loc[t], "insert"))

\* A node is allocated with its links set and published at level 0; when the
\* compare_exchange fails it is freed at once and find starts again.
Publish(t) ==
  LET v == loc[t]
      ok == CanCas(v.preds[0], 0, Ref(v.succs[0], FALSE))
  IN  /\ At(t, "publish")
      /\ \/ /\ ok
            /\ \E n \in Nodes :
                 /\ state[n] = "free"
                 /\ key' = [key EXCEPT ![n] = Key(t)]
                 /\ val' = [val EXCEPT ![n] = t]
                 /\ top' = [top EXCEPT ![n] = v.top]
                 /\ state' = [state EXCEPT ![n] = "linked"]
                 /\ link' = [link EXCEPT
                      ![n] = [l \in Levels |-> Ref(v.succs[l], FALSE)],
                      ![v.preds[0]][0] = Ref(n, FALSE)]
                 /\ IF v.top = 0 THEN Step(t, "incLen", [NoLocals EXCEPT !.call = v.call])
                                 ELSE Step(t, "store", [v EXCEPT !.node = n, !.lv = 1])
            /\ lin' = (lin /\ Map[Key(t)] = None /\ Map'[Key(t)] = t)
            /\ UNCHANGED <<len, dropped, blockers>>
         \/ /\ ~ok
            /\ LostRace(t)
            /\ UNCHANGED <<calm, link, blockers, lin>>
      /\ Observe

\* An upper level: the node's own link is stored ...
StoreLink(t) ==
  LET v == loc[t]
  IN  /\ At(t, "store")
      /\ Link(v.node, v.lv, Ref(v.succs[v.lv], FALSE))
      /\ Step(t, "link", v)
      /\ OnlyLinks

\* ... and the predecessor's is swung to the node.
LinkUpper(t) ==
  LET v == loc[t]
      ok == CanCas(v.preds[v.lv], v.lv, Ref(v.succs[v.lv], FALSE))
  IN  /\ At(t, "link")
      /\ IF ok
         THEN /\ Link(v.preds[v.lv], v.lv, Ref(v.node, FALSE))
              /\ IF v.lv = v.top
                 THEN Step(t, "incLen", [NoLocals EXCEPT !.call = v.call])
                 ELSE Step(t, "store", [v EXCEPT !.lv = @ + 1])
         ELSE /\ Step(t, "ref", StartFind(v, "upper"))
              /\ UNCHANGED link
      /\ OnlyLinks

\* find, called for its preds and succs only.
UpperFound(t) ==
  /\ FindDone(t, "upper")
  /\ Step(t, "store", [Noted(t) EXCEPT !.pred = None, !.ret = "none"])
  /\ OnlyLocals

\* fetch_add and fetch_sub of len; mutants: not counted; not wrapping.
FetchAdd_Lost == len
FetchAdd == (len + 1) % 2 ^ WordBits
FetchSub_NoWrap == len - 1
FetchSub == (len + 2 ^ WordBits - 1) % 2 ^ WordBits

IncLen(t) ==
  /\ At(t, "incLen")
  /\ len' = FetchAdd
  /\ Return(t, TRUE)
  /\ UNCHANGED <<nodeVars, dropped>>
  /\ Observe

-----------------------------------------------------------------------------
(* remove                                                                  *)

\* Locals of a remove that works on node n, at level l.
Removing(t, n, l) == [NoLocals EXCEPT !.call = loc[t].call, !.node = n, !.lv = l]
MarkLabel(l) == IF l = 0 THEN "get0" ELSE "markGet"

RemoveFound(t) ==
  LET n == loc[t].curr
  IN  /\ FindDone(t, "remove")
      /\ IF Found(t)
         THEN /\ Step(t, MarkLabel(top[n]), Removing(t, n, top[n]))
              /\ UNCHANGED <<calm, link, blockers, lin>>
         ELSE /\ Return(t, None \in seen[t])
              /\ UNCHANGED <<calm, link>>
      /\ Observe

\* An upper level, from the top: read the link, and mark it until it is marked.
MarkGet(t) ==
  LET v == loc[t]
      l == link[v.node][v.lv]
  IN  /\ At(t, "markGet")
      /\ IF l.mark THEN Step(t, MarkLabel(v.lv - 1), Removing(t, v.node, v.lv - 1))
                   ELSE Step(t, "mark", [v EXCEPT !.succ = l.ref])
      /\ OnlyLocals

AttemptMark(t) ==
  LET v == loc[t]
  IN  /\ At(t, "mark")
      /\ IF CanCas(v.node, v.lv, Ref(v.succ, FALSE))
         THEN Link(v.node, v.lv, Ref(v.succ, TRUE)) ELSE UNCHANGED link
      /\ Step(t, "markGet", [v EXCEPT !.succ = None])
      /\ OnlyLinks

Get0(t) ==
  LET v == loc[t]
  IN  /\ At(t, "get0")
      /\ Step(t, "mark0", [v EXCEPT !.succ = link[v.node][0].ref])
      /\ OnlyLocals

\* The winner's search unlinks the node; mutant: it is left out.
Unlink_Skipped(t) == Step(t, "decLen", Removing(t, loc[t].node, 0))
Unlink(t) == Step(t, "ref", StartFind(loc[t], "unlink"))

\* The mark of level 0, the removal itself.  The winner goes on to unlink.
Mark0(t) ==
  LET v == loc[t]
      won == CanCas(v.node, 0, Ref(v.succ, FALSE))
  IN  /\ At(t, "mark0")
      /\ UNCHANGED <<calm, blockers>>
      /\ IF won
         THEN /\ Link(v.node, 0, Ref(v.succ, TRUE))
              /\ Unlink(t)
              /\ lin' = (lin /\ Map[Key(t)] # None /\ Map'[Key(t)] = None)
         ELSE /\ Step(t, "chk0", v)
              /\ UNCHANGED <<link, lin>>
      /\ Observe

\* The loser returns when the node is marked, and tries again when only its
\* successor has changed.
Chk0(t) ==
  LET v == loc[t]
      l == link[v.node][0]
  IN  /\ At(t, "chk0")
      /\ IF l.mark
         THEN /\ Return(t, None \in seen[t])
              /\ UNCHANGED <<calm, link>>
         ELSE /\ Step(t, "mark0", [v EXCEPT !.succ = l.ref])
              /\ UNCHANGED <<calm, link, blockers, lin>>
      /\ Observe

Unlinked(t) ==
  /\ FindDone(t, "unlink")
  /\ Step(t, "decLen", Removing(t, loc[t].node, 0))
  /\ OnlyLocals

DecLen(t) ==
  /\ At(t, "decLen")
  /\ len' = FetchSub
  /\ Step(t, "retire", loc[t])
  /\ UNCHANGED <<nodeVars, dropped, blockers, lin>>
  /\ Observe

\* guard.retire; mutant: free_node.
Retired_Freed(n) == [state EXCEPT ![n] = "free"]
Retired(n) == [state EXCEPT ![n] = "retired"]

\* The node waits for the operations under way, and the call returns.
Retire(t) ==
  LET n == loc[t].node
  IN  /\ At(t, "retire")
      /\ state' = Retired(n)
      /\ Goto(t, "idle")
      /\ loc' = [loc EXCEPT ![t] = NoLocals]
      /\ blockers' = [[m \in AllNodes |-> blockers[m] \ {t}] EXCEPT ![n] = InCall \ {t}]
      /\ UNCHANGED <<key, val, top, link, len, dropped, lin>>
      /\ Observe

-----------------------------------------------------------------------------
(* get, after its search                                                   *)

GetFound(t) ==
  LET n == loc[t].curr
  IN  /\ FindDone(t, "none")
      /\ IF Found(t)
         THEN /\ Step(t, "getMark", [NoLocals EXCEPT !.call = loc[t].call, !.node = n])
              /\ UNCHANGED <<calm, link, blockers, lin>>
         ELSE /\ Return(t, None \in seen[t])
              /\ UNCHANGED <<calm, link>>
      /\ Observe

GetMark(t) ==
  /\ At(t, "getMark")
  /\ IF link[loc[t].node][0].mark
     THEN /\ Return(t, None \in seen[t])
          /\ UNCHANGED <<calm, link>>
     ELSE /\ Step(t, "getValue", loc[t])
          /\ UNCHANGED <<calm, link, blockers, lin>>
  /\ Observe

GetValue(t) ==
  /\ At(t, "getValue")
  /\ Return(t, val[loc[t].node] \in seen[t])
  /\ OnlyReturns

-----------------------------------------------------------------------------
\* drop_node, when the grace period of a retired node is over.
Free(n) ==
  /\ state[n] = "retired" /\ blockers[n] = {}
  /\ state' = [state EXCEPT ![n] = "free"]
  /\ key' = [key EXCEPT ![n] = Lowest]
  /\ val' = [val EXCEPT ![n] = None]
  /\ top' = [top EXCEPT ![n] = 0]
  /\ link' = [link EXCEPT ![n] = [l \in Levels |-> Ref(None, FALSE)]]
  /\ UNCHANGED <<len, pc, loc, blockers, dropped, lin>>
  /\ Observe

\* Drop for SkipList: walks level 0 and frees every node on it.
Drop ==
  /\ ~dropped /\ InCall = {}
  /\ dropped' = TRUE
  /\ state' = [n \in AllNodes |-> IF n \in Reach(0) THEN "free" ELSE state[n]]
  /\ key' = [n \in AllNodes |-> Lowest]
  /\ val' = [n \in AllNodes |-> None]
  /\ top' = [n \in AllNodes |-> 0]
  /\ link' = [n \in AllNodes |-> [l \in Levels |-> Ref(None, FALSE)]]
  /\ UNCHANGED <<len, pc, loc, blockers, lin>>
  /\ Observe

Find(t) == LoadRef(t) \/ LoadMarked(t) \/ LoadRight(t) \/ LoadDown(t) \/ Splice(t)

Insert(t) ==
  \/ InsertFound(t) \/ Swap(t) \/ Publish(t) \/ StoreLink(t) \/ LinkUpper(t)
  \/ UpperFound(t) \/ IncLen(t)

Remove(t) ==
  \/ RemoveFound(t) \/ MarkGet(t) \/ AttemptMark(t) \/ Get0(t) \/ Mark0(t)
  \/ Chk0(t) \/ Unlinked(t) \/ DecLen(t) \/ Retire(t)

Get(t) == GetFound(t) \/ GetMark(t) \/ GetValue(t)

Run(t) == Find(t) \/ Insert(t) \/ Remove(t) \/ Get(t)

Next ==
  \/ \E t \in Threads : Call(t) \/ Run(t)
  \/ \E n \in Nodes : Free(n)
  \/ Drop

Spec == Init /\ [][Next]_vars

-----------------------------------------------------------------------------
(* Properties                                                              *)

\* Every result agrees with a map on which each call takes effect at one instant
\* between its start and its return: insert returns true when its compare_exchange
\* makes an absent key present, remove returns true when its mark makes a present
\* key absent, get returns a value the key had during the call, and an insert that
\* swaps the value of a node being removed is overwritten by that remove, never by
\* an earlier one.
Linearizable == lin

\* Every level is sorted without duplicates, deleted nodes still linked included:
\* what find relies on when it stops at the first key that is not smaller.
Sorted ==
  \A l \in Levels : \A n \in Reach(l) \ {Tail} :
    ~dropped => key[n] < key[link[n][l].ref]

\* The search that remove makes before guard.retire has unlinked the node from every
\* level: a thread that starts after the retire cannot reach the node.
RetiredUnreachable ==
  \A l \in Levels : \A n \in Reach(l) : state[n] # "retired"

\* The pointers an operation holds between two steps, in its search and in preds and
\* succs across a retry, never refer to memory given back by drop_node.
NoUseAfterFree ==
  \A t \in InCall :
    LET v == loc[t]
        held == {v.pred, v.curr, v.succ, v.node}
                  \cup {v.preds[l] : l \in Levels} \cup {v.succs[l] : l \in Levels}
    IN  \A n \in held \ {None} : state[n] # "free"

\* Between calls len is the number of keys, whatever the interleaving of the
\* fetch_add and fetch_sub that follow the linearization points.
LenExact == InCall = {} /\ ~dropped => len = Cardinality(Live)

\* A key becomes present only by the compare_exchange of an insert of it and absent
\* only by the mark of a remove of it: splicing a deleted node out never takes a
\* concurrently published one with it, and reused memory never brings a key back.
PresenceChanges ==
  [][link' # link \/ key' # key =>
       LET old == Map
           new == Map'
       IN  \A k \in Keys : (old[k] = None) # (new[k] = None) =>
             \/ dropped'
             \/ \E t \in InCall : Key(t) = k
                  /\ pc[t] = IF old[k] = None THEN "publish" ELSE "mark0"]_vars

Retries(t) == pc[t] \in {"splice", "publish", "link"} /\ pc'[t] = "ref"

\* Lock freedom, as a property of steps: find and insert start a search again only
\* when another thread has changed a link since the search began, so every lost
\* compare_exchange is paid for by a step that some other call has gained.
RetryMeansProgress == [][\A t \in Threads : Retries(t) => t \in overtaken]_pc
=============================================================================
