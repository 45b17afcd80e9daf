---------------------------- MODULE MeshService ----------------------------
(***************************************************************************)
(* The service mode of the mesh (mesh.rs): clients that push a request on  *)
(* the ingress of a worker and wait for it, and workers that own a shard   *)
(* each, serve their ingress, and forward a Get whose key another worker   *)
(* owns over the command matrix, the reply coming back over the reply      *)
(* matrix.  Queues are bounded FIFOs (Spsc), the ingress a stack whose     *)
(* push takes effect at its compare_exchange.                              *)
(*                                                                         *)
(* A client waits for each request, so a request is named by its client.   *)
(* ServiceHandle::put always picks the owner, so a Put is never forwarded. *)
(***************************************************************************)
EXTENDS Naturals, Sequences, Functions

CONSTANTS
  Clients, Keys, Vals,
  Direct,      \* bound: the clients that also call put and get
  N,           \* number of workers
  Route,       \* [Keys -> Workers]: route
  Cap,         \* capacity of a queue
  MaxCalls,    \* bound: [Clients -> Nat], the calls of a client
  MayStop,     \* whether the service is shut down
  None

Workers == 0 .. N - 1
Ops == [kind : {"put"}, key : Keys, val : Vals] \cup [kind : {"get"}, key : Keys]

Gets == [key : Keys, from : Workers, token : Nat]
Replies == [token : Nat, val : Vals \cup {None}]

ASSUME MeshServiceAssumption ==
  /\ {N, Cap} \subseteq Nat \ {0} /\ MaxCalls \in [Clients -> Nat]
  /\ Route \in [Keys -> Workers] /\ Direct \subseteq Clients
  /\ MayStop \in BOOLEAN
  /\ None \notin Clients \cup Vals \cup Ops \cup Gets \cup Replies
  /\ "called" \notin Vals \cup {None}

VARIABLES
  stop, rr, ingress,           \* ServiceShared
  cmd, rep,                    \* the matrices: cmd[src][dst], rep[src][dst]
  shard, waiters, nextToken,   \* ServiceWorker: shard, client_waiters, next_token
  pc, loc,                     \* where a worker is, and its local variables
  cpc, call, calls,            \* clients: place, request, calls made
  value, done, token,          \* ReqCompletion: value, done; and the unpark token
  served,                      \* history: the result when the shard was accessed
  late                         \* history: clients whose accepting worker was gone

vars == <<stop, rr, ingress, cmd, rep, shard, waiters, nextToken, pc, loc,
          cpc, call, calls, value, done, token, served, late>>
serviceShared == <<stop, rr, ingress>>
matrices == <<cmd, rep>>
private == <<shard, waiters, nextToken>>
clientVars == <<cpc, call, calls, late>>
completions == <<value, done, token>>

\* src: inbox of pump_matrix or collect_replies; pumpRet, colRet, fulRet: what follows
\* the pump, the collection and the fulfilment; out: the command or reply to push and
\* its destination; who: the client to fulfil; reqs: requests still to accept.
NoLocals == [src |-> 0, pumpSrc |-> 0, pumpRet |-> "ingress", colRet |-> "none",
             fulRet |-> "none", fwd |-> None, fwdTo |-> 0, out |-> None, outTo |-> 0,
             who |-> None, reqs |-> <<>>, progressed |-> FALSE]

TypeOK ==
  /\ stop \in BOOLEAN /\ rr \in Workers
  /\ ingress \in [Workers -> Seq(Clients)]
  /\ \A s, d \in Workers :
       /\ cmd[s][d] \in Seq(Gets) /\ Len(cmd[s][d]) <= Cap
       /\ rep[s][d] \in Seq(Replies) /\ Len(rep[s][d]) <= Cap
  /\ shard \in [Workers -> [Keys -> Vals \cup {None}]]
  /\ \A w \in Workers : waiters[w] \subseteq Nat \X Clients
  /\ nextToken \in [Workers -> Nat]
  /\ pc \in [Workers -> {"pump", "reply", "collect", "done", "unpark",
                         "ingress", "accept", "forward", "stop", "head", "exit"}]
  /\ \A w \in Workers : /\ {loc[w].src, loc[w].pumpSrc} \subseteq Workers
                        /\ loc[w].reqs \in Seq(Clients)
  /\ cpc \in [Clients -> {"idle", "check", "park"}]
  /\ call \in [Clients -> Ops \cup {None}]
  /\ \A c \in Clients : calls[c] \in 0 .. MaxCalls[c]
  /\ {value, served} \subseteq [Clients -> Vals \cup {None, "called"}]
  /\ {done, token} \subseteq [Clients -> BOOLEAN]
  /\ late \subseteq Clients

Init ==
  /\ stop = FALSE /\ rr = 0
  /\ ingress = [w \in Workers |-> <<>>]
  /\ cmd = [s \in Workers |-> [d \in Workers |-> <<>>]]
  /\ rep = [s \in Workers |-> [d \in Workers |-> <<>>]]
  /\ shard = [w \in Workers |-> [k \in Keys |-> None]]
  /\ waiters = [w \in Workers |-> {}]
  /\ nextToken = [w \in Workers |-> 0]
  /\ pc = [w \in Workers |-> "pump"]
  /\ loc = [w \in Workers |-> NoLocals]
  /\ cpc = [c \in Clients |-> "idle"]
  /\ call = [c \in Clients |-> None]
  /\ calls = [c \in Clients |-> 0]
  /\ value = [c \in Clients |-> None]
  /\ done = [c \in Clients |-> FALSE]
  /\ token = [c \in Clients |-> FALSE]
  /\ served = [c \in Clients |-> None]
  /\ late = {}

-----------------------------------------------------------------------------
(* ServiceHandle: put, get, get_round_robin                                *)

Submit(c, op, accept) ==
  /\ cpc[c] = "idle" /\ calls[c] < MaxCalls[c]
  /\ ingress' = [ingress EXCEPT ![accept] = <<c>> \o @]
  /\ cpc' = [cpc EXCEPT ![c] = "check"]
  /\ call' = [call EXCEPT ![c] = op]
  /\ calls' = [calls EXCEPT ![c] = @ + 1]
  /\ value' = [value EXCEPT ![c] = None]
  /\ done' = [done EXCEPT ![c] = FALSE]
  /\ served' = [served EXCEPT ![c] = "called"]
  /\ late' = IF pc[accept] = "exit" THEN late \cup {c} ELSE late
  /\ UNCHANGED <<stop, matrices, private, pc, loc, token>>

PutOrGet(c) ==
  /\ c \in Direct /\ \E op \in Ops : Submit(c, op, Route[op.key])
  /\ UNCHANGED rr

GetRoundRobin(c) ==
  /\ \E op \in Ops : op.kind = "get" /\ Submit(c, op, rr)
  /\ rr' = (rr + 1) % N

\* wait: done is read, for a while by spinning, and the value taken.
Check(c) ==
  /\ cpc[c] = "check"
  /\ IF done[c] THEN /\ cpc' = [cpc EXCEPT ![c] = "idle"]
                     /\ call' = [call EXCEPT ![c] = None]
                     /\ value' = [value EXCEPT ![c] = None]
                     /\ served' = [served EXCEPT ![c] = None]
                ELSE /\ cpc' = [cpc EXCEPT ![c] = "park"]
                     /\ UNCHANGED <<call, value, served>>
  /\ UNCHANGED <<serviceShared, matrices, private, pc, loc, calls, done, token, late>>

\* park returns when there is a token, which it uses up, and may return without one.
Unparked(c) ==
  /\ cpc[c] = "park"
  /\ token' = [token EXCEPT ![c] = FALSE]
  /\ cpc' = [cpc EXCEPT ![c] = "check"]
  /\ UNCHANGED <<serviceShared, matrices, private, pc, loc, call, calls, value, done, served,
                 late>>

Park(c) == token[c] /\ Unparked(c)
SpuriousUnpark(c) == ~token[c] /\ Unparked(c)

-----------------------------------------------------------------------------
(* ReqCompletion::fulfill, of client loc[w].who                            *)

At(w, l) == pc[w] = l
Step(w, l, locals) ==
  /\ pc' = [pc EXCEPT ![w] = l]
  /\ loc' = [loc EXCEPT ![w] = locals]

\* The value is set in the step that finds it: nobody reads it before done is set.
Fulfill(w, locals, c, v, ret) ==
  /\ value' = [value EXCEPT ![c] = v]
  /\ Step(w, "done", [locals EXCEPT !.who = c, !.fulRet = ret])
  /\ UNCHANGED <<done, token>>

FulfillDone(w) ==
  /\ At(w, "done")
  /\ done' = [done EXCEPT ![loc[w].who] = TRUE]
  /\ Step(w, "unpark", loc[w])
  /\ UNCHANGED <<serviceShared, matrices, private, clientVars, value, token, served>>

FulfillUnpark(w) ==
  /\ At(w, "unpark")
  /\ token' = [token EXCEPT ![loc[w].who] = TRUE]
  /\ Step(w, loc[w].fulRet, [loc[w] EXCEPT !.who = None, !.fulRet = "none"])
  /\ UNCHANGED <<serviceShared, matrices, private, clientVars, value, done, served>>

-----------------------------------------------------------------------------
(* pump_matrix and collect_replies                                         *)

\* The last of the inboxes; mutant: one too far.
LastSrc_PastEnd == N
LastSrc == N - 1

\* pump_matrix starts at the first inbox; ret is what follows it.
StartPump(locals, ret) == [locals EXCEPT !.pumpSrc = 0, !.pumpRet = ret]
StartCollect(locals, ret) == [locals EXCEPT !.src = 0, !.colRet = ret]

\* The client whose request worker w has forwarded under a token.
Waiting(w, t) == {c \in Clients : <<t, c>> \in waiters[w]}

PumpGet(w) ==
  LET v == loc[w]
      q == cmd[v.pumpSrc][w]
      g == Head(q)
      val == shard[w][g.key]
  IN  /\ At(w, "pump") /\ q # <<>>
      /\ cmd' = [cmd EXCEPT ![v.pumpSrc][w] = Tail(q)]
      /\ Step(w, "reply", [v EXCEPT !.out = [token |-> g.token, val |-> val],
                                    !.outTo = g.from, !.progressed = TRUE])
      /\ served' = [c \in Clients |-> IF c \in Waiting(g.from, g.token) THEN val
                                      ELSE served[c]]
      /\ UNCHANGED <<serviceShared, rep, private, clientVars, completions>>

PumpEmpty(w) ==
  LET v == loc[w]
  IN  /\ At(w, "pump") /\ cmd[v.pumpSrc][w] = <<>>
      /\ IF v.pumpSrc < LastSrc THEN Step(w, "pump", [v EXCEPT !.pumpSrc = @ + 1])
                              ELSE Step(w, "collect", StartCollect(v, "pumped"))
      /\ UNCHANGED <<serviceShared, matrices, private, clientVars, completions, served>>

\* A full reply queue: replies are collected, and the push retried.
PushReply(w) ==
  LET v == loc[w]
  IN  /\ At(w, "reply")
      /\ IF Len(rep[w][v.outTo]) < Cap
         THEN /\ rep' = [rep EXCEPT ![w][v.outTo] = Append(@, v.out)]
              /\ Step(w, "pump", [v EXCEPT !.out = None, !.outTo = 0])
         ELSE /\ Step(w, "collect", StartCollect(v, "reply"))
              /\ UNCHANGED rep
      /\ UNCHANGED <<serviceShared, cmd, private, clientVars, completions, served>>

\* remove on client_waiters; mutant: get in its place.
Removed_Kept(w, t) == waiters[w]
Removed(w, t) == {p \in waiters[w] : p[1] # t}

CollectReply(w) ==
  LET v == [loc[w] EXCEPT !.progressed = TRUE]
      q == rep[v.src][w]
      r == Head(q)
      cs == Waiting(w, r.token)
  IN  /\ At(w, "collect") /\ q # <<>>
      /\ rep' = [rep EXCEPT ![v.src][w] = Tail(q)]
      /\ waiters' = [waiters EXCEPT ![w] = Removed(w, r.token)]
      /\ \/ cs = {} /\ Step(w, "collect", v) /\ UNCHANGED completions
         \/ \E c \in cs : Fulfill(w, v, c, r.val, "collect")
      /\ UNCHANGED <<serviceShared, cmd, shard, nextToken, clientVars, served>>

CollectEmpty(w) ==
  LET v == loc[w]
      after == IF v.colRet = "reply" THEN "reply" ELSE v.pumpRet
  IN  /\ At(w, "collect") /\ rep[v.src][w] = <<>>
      /\ IF v.src < LastSrc
         THEN Step(w, "collect", [v EXCEPT !.src = @ + 1])
         ELSE Step(w, after, [v EXCEPT !.src = 0, !.colRet = "none",
                              !.pumpSrc = IF after = "reply" THEN @ ELSE 0,
                              !.pumpRet = IF after = "reply" THEN @ ELSE "ingress"])
      /\ UNCHANGED <<serviceShared, matrices, private, clientVars, completions, served>>

-----------------------------------------------------------------------------
(* drain_ingress                                                           *)

DrainIngress(w) ==
  /\ At(w, "ingress")
  /\ ingress' = [ingress EXCEPT ![w] = <<>>]
  /\ IF ingress[w] = <<>>
     THEN Step(w, "stop", loc[w])
     ELSE Step(w, "accept", [loc[w] EXCEPT !.reqs = ingress[w], !.progressed = TRUE])
  /\ UNCHANGED <<stop, rr, matrices, private, clientVars, completions, served>>

\* The next request, and the locals without it.
Accepting(w, c) == At(w, "accept") /\ loc[w].reqs # <<>> /\ c = Head(loc[w].reqs)
Rest(w) == [loc[w] EXCEPT !.reqs = Tail(@)]
Owner(c) == Route[call[c].key]

\* Mutant: the accepting worker serves every request.
Owns_All(w, c) == TRUE
Owns(w, c) == Owner(c) = w

AcceptPut(w, c) ==
  /\ Accepting(w, c) /\ call[c].kind = "put" /\ Owns(w, c)
  /\ shard' = [shard EXCEPT ![w][call[c].key] = call[c].val]
  /\ Fulfill(w, Rest(w), c, None, "accept")
  /\ served' = [served EXCEPT ![c] = None]
  /\ UNCHANGED <<serviceShared, matrices, waiters, nextToken, clientVars>>

AcceptLocal(w, c) ==
  LET val == shard[w][call[c].key]
  IN  /\ Accepting(w, c) /\ call[c].kind = "get" /\ Owns(w, c)
      /\ Fulfill(w, Rest(w), c, val, "accept")
      /\ served' = [served EXCEPT ![c] = val]
      /\ UNCHANGED <<serviceShared, matrices, private, clientVars>>

\* The completion is kept under a token before the command is pushed.
AcceptForward(w, c) ==
  /\ Accepting(w, c) /\ call[c].kind = "get" /\ ~Owns(w, c)
  /\ waiters' = [waiters EXCEPT ![w] = @ \cup {<<nextToken[w], c>>}]
  /\ nextToken' = [nextToken EXCEPT ![w] = @ + 1]
  /\ Step(w, "forward",
          [Rest(w) EXCEPT !.fwd = [key |-> call[c].key, from |-> w, token |-> nextToken[w]],
                          !.fwdTo = Owner(c)])
  /\ UNCHANGED <<serviceShared, matrices, shard, clientVars, completions, served>>

\* A full command queue: the matrix is pumped, and the push retried.
Forward(w) ==
  LET v == loc[w]
  IN  /\ At(w, "forward")
      /\ IF Len(cmd[w][v.fwdTo]) < Cap
         THEN /\ cmd' = [cmd EXCEPT ![w][v.fwdTo] = Append(@, v.fwd)]
              /\ Step(w, "accept", [v EXCEPT !.fwd = None, !.fwdTo = 0])
         ELSE /\ Step(w, "pump", StartPump(v, "forward"))
              /\ UNCHANGED cmd
      /\ UNCHANGED <<serviceShared, rep, private, clientVars, completions, served>>

-----------------------------------------------------------------------------
(* service_loop: the end of a round                                        *)

LoadStop(w) ==
  /\ At(w, "stop") \/ (At(w, "accept") /\ loc[w].reqs = <<>>)
  /\ Step(w, IF stop /\ ~loc[w].progressed /\ waiters[w] = {} THEN "head" ELSE "pump",
          NoLocals)
  /\ UNCHANGED <<serviceShared, matrices, private, clientVars, completions, served>>

\* The ingress has nothing new; mutant: it is not looked at again.
IngressEmpty_Assumed(w) == TRUE
IngressEmpty(w) == ingress[w] = <<>>

LoadIngress(w) ==
  /\ At(w, "head")
  /\ Step(w, IF IngressEmpty(w) THEN "exit" ELSE "pump", NoLocals)
  /\ UNCHANGED <<serviceShared, matrices, private, clientVars, completions, served>>

\* MeshService::shutdown
Shutdown ==
  /\ MayStop /\ ~stop
  /\ stop' = TRUE
  /\ UNCHANGED <<rr, ingress, matrices, private, pc, loc, clientVars, completions, served>>

Worker(w) ==
  \/ FulfillDone(w) \/ FulfillUnpark(w)
  \/ PumpGet(w) \/ PumpEmpty(w) \/ PushReply(w) \/ CollectReply(w) \/ CollectEmpty(w)
  \/ DrainIngress(w) \/ Forward(w) \/ LoadStop(w) \/ LoadIngress(w)
  \/ \E c \in Clients : AcceptPut(w, c) \/ AcceptLocal(w, c) \/ AcceptForward(w, c)

Next ==
  \/ \E c \in Clients : PutOrGet(c) \/ GetRoundRobin(c) \/ Check(c) \/ Park(c) \/ SpuriousUnpark(c)
  \/ \E w \in Workers : Worker(w)
  \/ Shutdown

Spec == Init /\ [][Next]_vars

\* The threads of the workers and of the clients that wait keep running; no park ends
\* without a reason.
FairSpec ==
  /\ Spec
  /\ \A w \in Workers : WF_vars(Worker(w))
  /\ \A c \in Clients : WF_vars(Check(c) \/ Park(c))

-----------------------------------------------------------------------------
(* Properties                                                              *)

Status == [c \in Clients |-> IF cpc[c] = "idle" THEN "idle"
                             ELSE IF served[c] = "called" THEN "called" ELSE "served"]
\* Once done is set the answer is what the completion holds.
Answer == [c \in Clients |-> IF Status[c] # "served" THEN None
                             ELSE IF done[c] THEN value[c] ELSE served[c]]
KV == INSTANCE AtomicKV WITH store <- [k \in Keys |-> shard[Route[k]][k]],
                             status <- Status, got <- Answer

\* The shards together are one map, and each call takes effect on it at one instant
\* between its start and its return: when the owner accesses its shard.  What comes
\* back through the matrices, the tokens and the completion is the answer to the
\* client's own request.
ImplementsAtomicKV == KV!Spec

Places(c) ==
  {<<"ingress", w>> : w \in {w \in Workers : c \in Range(ingress[w])}}
    \cup {<<"reqs", w>> : w \in {w \in Workers : c \in Range(loc[w].reqs)}}
    \cup {<<"waiters", w>> : w \in {w \in Workers : \E p \in waiters[w] : p[2] = c}}
    \cup {<<"fulfil", w>> : w \in {w \in Workers : loc[w].who = c /\ pc[w] # "unpark"}}

\* A request that waits is held in exactly one place: an ingress, a batch being
\* accepted, a worker about to fulfil it, or client_waiters; and a token in a command
\* or a reply is one its worker still has.
HeldOnce ==
  /\ \A c \in Clients : cpc[c] # "idle" =>
       /\ done[c] <=> Places(c) = {}
       /\ \A p, q \in Places(c) : p = q
  /\ \A s, d \in Workers :
       /\ \A g \in Range(cmd[s][d]) : \E c \in Clients : Waiting(s, g.token) = {c}
       /\ \A r \in Range(rep[s][d]) : \E c \in Clients : Waiting(d, r.token) = {c}

\* The requests that wait at a worker that had not left when they were pushed.
InFlight == {c \in Clients \ late : cpc[c] # "idle"}

\* Every request in flight is answered, before a shutdown and, as "drain in-flight
\* work" says, after it.
EveryRequestAnswered == \A c \in Clients : c \in InFlight ~> c \notin InFlight

Forwarded == \E w \in Workers : nextToken[w] > 0
Leaving == stop /\ \E w \in Workers : pc[w] # "exit"

\* Every call returns, through full queues and stale unparks: a request is answered,
\* also one pushed during a shutdown on the ingress of a worker that is about to leave
\* but has not had its last look, and shutdown finds a quiet round of every worker;
\* unless a request was forwarded to another worker and the service is shut down.
CallsReturn ==
  []<>((InFlight = {} /\ ~Leaving) \/ (stop /\ Forwarded))
=============================================================================
