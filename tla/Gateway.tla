------------------------------ MODULE Gateway ------------------------------
(***************************************************************************)
(* Writes end to end: the client library (pkg/client), which retries and   *)
(* follows redirects, plain HTTP clients, which do neither, the HTTP       *)
(* gateway of every node (internal/server), which forwards to the leader   *)
(* or redirects, and node.Write.  Raft (module Raft) and the state machine *)
(* (module KVStore) are here what the gateway can see of them: nodes that  *)
(* lead or believe they do, hints that may be out of date, proposals that  *)
(* commit late, or never, and a table of results by request ID.            *)
(*                                                                         *)
(* All calls write the same key, so they share a shard and its leader.     *)
(***************************************************************************)
EXTENDS Integers, FiniteSets

CONSTANTS NumNodes,   \* the nodes, numbered as in Client.nodes
          Call,       \* writes of the client library
          PlainCall,  \* writes of HTTP clients that know nothing of leaders
          Expected,   \* expectedVersion of each write, or Any
          Retries,    \* Client.retries
          MaxMoves    \* bound: how often leadership moves

Node == 1 .. NumNodes
None == 0             \* no node, an empty URL
Any == -1             \* a write without expectedVersion
Write == Call \cup PlainCall
Attempt == 0 .. Retries - 1
Hop == 1 .. 2         \* gateways an attempt passes through: "One hop only"
Handler == {h \in [call : Write, attempt : Attempt, hop : Hop] :
              h.call \in PlainCall => h.attempt = 0}

ASSUME GatewayAssumption ==
  /\ NumNodes \in Nat \ {0} /\ Retries \in Nat \ {0} /\ MaxMoves \in Nat
  /\ Call \cap PlainCall = {}
  /\ Expected \in [Write -> Nat \cup {Any}]

VARIABLES leader,    \* the node that won the last election of the shard
          believes,  \* the nodes in state Leader: a deposed one may not know
          hint,      \* leaderID at each node
          moves,
          proposed,  \* handlers whose command is in some log, not committed
          version,   \* of the key; the first write makes it 1
          results,   \* the state machine's dedup table
          effects,   \* the writes that changed the key, with their versions
          enqueued,  \* effects whose path was given to the invalidation queue
          handlers,  \* the HTTP handlers at the gateways
          clients,   \* the calls of the clients
          cached     \* Client.leaders for the shard

raftVars == <<leader, believes, hint, moves>>
storeVars == <<proposed, version, results, effects>>
clientVars == <<clients, cached>>
vars == <<raftVars, storeVars, enqueued, handlers, clientVars>>

(* An HTTP answer: 200 and 412 carry a version, 421 the leader's URL, 503  *)
(* nothing.                                                                *)
Answer == [status : {"none", "ok", "mismatch", "redirect", "unavailable"}, arg : Nat]
Reply(status, arg) == [status |-> status, arg |-> arg]
NoReply == Reply("none", 0)
Unavailable == Reply("unavailable", 0)

HandlerState == [at : {"none", "arrived", "waiting", "refused", "resolved", "forwarding", "answered"},
                 node : Node \cup {None}, answer : Answer]
NoHandler == [at |-> "none", node |-> None, answer |-> NoReply]

ClientState == [at : {"idle", "waiting", "returned"}, attempt : Attempt,
                target : Node \cup {None}, answer : Answer]

TypeOK ==
  /\ leader \in Node /\ believes \subseteq Node
  /\ hint \in [Node -> Node \cup {None}] /\ moves \in 0 .. MaxMoves
  /\ proposed \subseteq Handler /\ version \in Nat
  /\ \A r \in results : r.answer \in Answer
  /\ \A f \in effects : f.by \in Handler /\ f.version \in 1 .. version
  /\ enqueued \subseteq effects
  /\ handlers \in [Handler -> HandlerState]
  /\ clients \in [Write -> ClientState]
  /\ cached \in Node \cup {None}

Init ==
  /\ leader = 1 /\ believes = {1} /\ moves = 0
  /\ hint \in [Node -> {None, 1}] /\ hint[1] = 1
  /\ proposed = {} /\ version = 0 /\ results = {} /\ effects = {} /\ enqueued = {}
  /\ handlers = [h \in Handler |-> NoHandler]
  /\ clients = [c \in Write |-> [at |-> "idle", attempt |-> 0, target |-> None, answer |-> NoReply]]
  /\ cached = None

-----------------------------------------------------------------------------
(* What the gateway sees of Raft.                                          *)

Elect(n) ==
  /\ n \notin believes /\ moves < MaxMoves
  /\ leader' = n /\ moves' = moves + 1
  /\ believes' = believes \cup {n}
  /\ hint' = [hint EXCEPT ![n] = n]
  /\ UNCHANGED <<storeVars, enqueued, handlers, clientVars>>

(* A leader steps down: it hears of a new term, or it has lost its quorum  *)
(* and nobody leads for a while.  Its waiters get NotLeaderError, though   *)
(* their entries may still be committed by the next leader.                *)
StepDown(n) ==
  /\ n \in believes
  /\ n = leader => moves < MaxMoves   \* so that the bound leaves it a successor
  /\ believes' = believes \ {n}
  /\ \E l \in {None, leader} \ {n} :
       /\ hint' = [hint EXCEPT ![n] = l]
       /\ handlers' = [h \in Handler |->
            IF handlers[h].at = "waiting" /\ handlers[h].node = n
            THEN [at |-> "refused", node |-> n, answer |-> Reply("redirect", l)]
            ELSE handlers[h]]
  /\ UNCHANGED <<leader, moves, storeVars, enqueued, clientVars>>

(* Any other node hears from a leader, perhaps a deposed one, or campaigns *)
(* and then knows of none.                                                 *)
LearnLeader(n) ==
  /\ n \notin believes
  /\ \E l \in (believes \cup {None}) \ {hint[n]} : hint' = [hint EXCEPT ![n] = l]
  /\ UNCHANGED <<leader, believes, moves, storeVars, enqueued, handlers, clientVars>>

(* The mutant in which every gateway makes its own ID. *)
RequestIdPerHop(h) == [call |-> h.call, hop |-> h.hop]

(* The request ID of a handler's command.  put and Delete make one per     *)
(* call and send it with every attempt; for a client that sends none the   *)
(* gateway makes one, and forward carries it along.                        *)
RequestId(h) == [call |-> h.call]

(* The mutant that remembers only what succeeded. *)
RememberSuccess(id, answer) == IF answer.status = "ok" THEN {[id |-> id, answer |-> answer]} ELSE {}

(* Apply remembers the result of every command by its ID. *)
Remember(id, answer) == {[id |-> id, answer |-> answer]}

(* A proposed command is committed and applied: a known ID gets the old    *)
(* result, any other one is executed.  The handler hears of it if it still *)
(* waits and its node still leads.  Any proposal may commit, or none: the  *)
(* Raft of module Raft commits fewer.                                      *)
Commit(h) ==
  LET known == {r \in results : r.id = RequestId(h)}
      fits == Expected[h.call] \in {Any, version}
      result == IF known # {} THEN (CHOOSE r \in known : TRUE).answer
                ELSE IF fits THEN Reply("ok", version + 1) ELSE Reply("mismatch", version)
      executed == known = {} /\ fits IN
  /\ h \in proposed
  /\ proposed' = proposed \ {h}
  /\ results' = results \cup Remember(RequestId(h), result)
  /\ version' = IF executed THEN version + 1 ELSE version
  /\ effects' = effects \cup {f \in {[by |-> h, version |-> version + 1]} : executed}
  /\ handlers' = IF handlers[h].at = "waiting" /\ handlers[h].node = leader
                 THEN [handlers EXCEPT ![h].at = "resolved", ![h].answer = result]
                 ELSE handlers
  /\ UNCHANGED <<raftVars, enqueued, clientVars>>

-----------------------------------------------------------------------------
(* The gateway's write handler.                                            *)

(* Somebody still reads the response of h: the client in this attempt, or  *)
(* the gateway that forwarded it.                                          *)
Listened(h) ==
  IF h.hop = 1
  THEN clients[h.call].at = "waiting" /\ clients[h.call].attempt = h.attempt
  ELSE handlers[[h EXCEPT !.hop = @ - 1]].at = "forwarding"

Responding(h, answer) ==
  IF Listened(h) THEN [handlers[h] EXCEPT !.at = "answered", !.answer = answer] ELSE NoHandler

Respond(h, answer) == handlers' = [handlers EXCEPT ![h] = Responding(h, answer)]

(* Propose: the node leads, or believes so, and appends the command. *)
Propose(h) ==
  /\ handlers[h].at = "arrived"
  /\ handlers[h].node \in believes
  /\ handlers' = [handlers EXCEPT ![h].at = "waiting"]
  /\ proposed' = proposed \cup {h}
  /\ UNCHANGED <<raftVars, version, results, effects, enqueued, clientVars>>

(* The client did not ask for redirects and no gateway forwarded it yet. *)
MayForward(h) == h.call \in PlainCall /\ h.hop = 1

(* handleRaftError for NotLeaderError{l}: forward, or answer 421. *)
NotLeader(h, l) ==
  /\ handlers' =
       IF l # None /\ l # handlers[h].node /\ MayForward(h)
       THEN [handlers EXCEPT ![h].at = "forwarding", ![h].answer = NoReply,
                             ![[h EXCEPT !.hop = @ + 1]] = [NoHandler EXCEPT !.at = "arrived", !.node = l]]
       ELSE [handlers EXCEPT ![h] = Responding(h, Reply("redirect", l))]
  /\ UNCHANGED <<raftVars, storeVars, enqueued, clientVars>>

(* The node does not lead; or it leads, is handing over, and refuses new   *)
(* proposals without a hint (leaderHintLocked).                            *)
RefuseProposal(h) ==
  LET n == handlers[h].node IN
  /\ handlers[h].at = "arrived"
  /\ NotLeader(h, IF n \in believes THEN None ELSE hint[n])

(* The node lost its leadership while the handler waited. *)
LostLeadership(h) == handlers[h].at = "refused" /\ NotLeader(h, handlers[h].answer.arg)

(* handleRaftError for a timeout: 503, and the command, if it got as far   *)
(* as a log, may yet commit.                                               *)
TimeOut(h) ==
  /\ handlers[h].at \in {"arrived", "waiting"}
  /\ Respond(h, Unavailable)
  /\ UNCHANGED <<raftVars, storeVars, enqueued, clientVars>>

(* The mutant that enqueues only what its own command changed. *)
ToInvalidateOwn(h) == {f \in effects : f.by = h}

(* After STATUS_OK write enqueues the path, also when the result is an old *)
(* one from the dedup table.                                               *)
ToInvalidate(h) == {f \in effects : f.by.call = h.call}

(* write answers 200 or 412. *)
Answered(h) ==
  /\ handlers[h].at = "resolved"
  /\ enqueued' = IF handlers[h].answer.status = "ok" THEN enqueued \cup ToInvalidate(h) ELSE enqueued
  /\ Respond(h, handlers[h].answer)
  /\ UNCHANGED <<raftVars, storeVars, clientVars>>

(* forward copies the leader's answer, or answers 503 if it gets none. *)
Forwarded(h) ==
  LET next == [h EXCEPT !.hop = @ + 1] IN
  /\ handlers[h].at = "forwarding"
  /\ \/ /\ handlers[next].at = "answered"
        /\ handlers' = [handlers EXCEPT ![h] = Responding(h, handlers[next].answer), ![next] = NoHandler]
     \/ Respond(h, Unavailable)
  /\ UNCHANGED <<raftVars, storeVars, enqueued, clientVars>>

-----------------------------------------------------------------------------
(* The clients.                                                            *)

First(c, a) == [call |-> c, attempt |-> a, hop |-> 1]

(* One HTTP request: the client waits for the gateway at target. *)
Send(c, a, target) ==
  /\ clients' = [clients EXCEPT ![c] = [at |-> "waiting", attempt |-> a, target |-> target,
                                        answer |-> NoReply]]
  /\ handlers' = [h \in Handler |->
       IF h = First(c, a) THEN [NoHandler EXCEPT !.at = "arrived", !.node = target]
       ELSE IF h.call = c /\ handlers[h].at = "answered" /\ h.hop = 1 THEN NoHandler
       ELSE handlers[h]]

Returns(c, answer) ==
  /\ clients' = [clients EXCEPT ![c] = [@ EXCEPT !.at = "returned", !.answer = answer]]
  /\ handlers' = [h \in Handler |->
       IF h.call = c /\ handlers[h].at = "answered" /\ h.hop = 1 THEN NoHandler ELSE handlers[h]]

(* The mutant that makes one attempt too many. *)
RetryOnceMore(c, target) ==
  LET a == clients[c].attempt + 1 IN
  IF a <= Retries THEN Send(c, a, target) ELSE Returns(c, Unavailable)

(* do's next attempt, at target; after the last one it gives up. *)
Retry(c, target) ==
  LET a == clients[c].attempt + 1 IN
  IF a < Retries THEN Send(c, a, target) ELSE Returns(c, Unavailable)

(* The node do tries after a failure. *)
NextNode(c) == (clients[c].attempt % NumNodes) + 1

(* do begins, at the node pickNode chooses. *)
Begin(c) ==
  /\ clients[c].at = "idle"
  /\ Send(c, 0, IF cached # None THEN cached ELSE 1)
  /\ UNCHANGED <<raftVars, storeVars, enqueued, cached>>

(* do has an answer: learn, setLeader or forget, and return or go on. *)
Hear(c) ==
  LET h == handlers[First(c, clients[c].attempt)] IN
  /\ clients[c].at = "waiting"
  /\ h.at = "answered"
  /\ CASE h.answer.status = "ok" -> cached' = clients[c].target /\ Returns(c, h.answer)
       [] h.answer.status = "mismatch" -> UNCHANGED cached /\ Returns(c, h.answer)
       [] h.answer.status = "redirect" /\ h.answer.arg # None ->
            cached' = h.answer.arg /\ Retry(c, h.answer.arg)
       [] OTHER -> cached' = None /\ Retry(c, NextNode(c))
  /\ UNCHANGED <<raftVars, storeVars, enqueued>>

(* The call fails, whatever has become of the request. *)
HearNothing(c) ==
  /\ clients[c].at = "waiting"
  /\ cached' = None
  /\ Retry(c, NextNode(c))
  /\ UNCHANGED <<raftVars, storeVars, enqueued>>

(* The caller's context ends. *)
Cancel(c) ==
  /\ clients[c].at = "waiting"
  /\ Returns(c, Unavailable)
  /\ UNCHANGED <<raftVars, storeVars, enqueued, cached>>

(* A plain client sends its one request to any node ... *)
PlainBegin(c) ==
  /\ clients[c].at = "idle"
  /\ \E n \in Node : Send(c, 0, n)
  /\ UNCHANGED <<raftVars, storeVars, enqueued, cached>>

(* ... and takes what it gets. *)
PlainHear(c) ==
  LET h == handlers[First(c, 0)] IN
  /\ clients[c].at = "waiting"
  /\ h.at = "answered"
  /\ Returns(c, h.answer)
  /\ UNCHANGED <<raftVars, storeVars, enqueued, cached>>

Next ==
  \/ \E n \in Node : Elect(n) \/ StepDown(n) \/ LearnLeader(n)
  \/ \E h \in Handler : \/ Commit(h) \/ Propose(h) \/ RefuseProposal(h) \/ LostLeadership(h)
                        \/ TimeOut(h) \/ Answered(h) \/ Forwarded(h)
  \/ \E c \in Call : Begin(c) \/ Hear(c) \/ HearNothing(c)
  \/ \E c \in PlainCall : PlainBegin(c) \/ PlainHear(c)
  \/ \E c \in Write : Cancel(c)

Spec == Init /\ [][Next]_vars

-----------------------------------------------------------------------------

(* A write takes effect at most once, whatever is sent twice: attempts of  *)
(* the client, the copy a gateway forwards after its own proposal met a    *)
(* change of leader, and the proposal that commits after all.              *)
AtMostOnce == \A f, g \in effects : f.by.call = g.by.call => f = g

(* A definitive answer stays true: a write answered with a version took    *)
(* effect as that version, and one answered with a version mismatch did    *)
(* not and never will, though copies of it may still be on their way.      *)
AnswersAreFinal ==
  \A c \in Write : LET answer == clients[c].answer IN
    /\ answer.status = "ok" => \E f \in effects : f.by.call = c /\ f.version = answer.arg
    /\ answer.status = "mismatch" => \A f \in effects : f.by.call # c

(* A client that was told its write succeeded may rely on the purge of the *)
(* old value having been queued, whichever attempt, handler or copy of the *)
(* command it was that succeeded.  This is the order of server.go:200-203, *)
(* Enqueue and then writeJSON; architecture.md:25 has it the other way     *)
(* round ("after reply: enqueue CDN invalidation") and promises less.      *)
AckedWritesAreInvalidated ==
  \A c \in Write : clients[c].answer.status = "ok" => \E f \in enqueued : f.by.call = c

=============================================================================
