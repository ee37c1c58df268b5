--------------------------- MODULE GatewayProofs ---------------------------
(***************************************************************************)
(* Proofs about module Gateway for every number of nodes, calls, attempts  *)
(* and changes of leader: a write takes effect at most once, definitive    *)
(* answers are final, and an acknowledged write has been given to the      *)
(* invalidation queue.                                                     *)
(*                                                                         *)
(* The argument goes through the table of results.  An ID has one result;  *)
(* an effect and a successful result come in pairs; and every definitive   *)
(* answer, at a handler or at a client, is the result of its call.         *)
(***************************************************************************)
EXTENDS Gateway, TLAPS

Definitive(answer) == answer.status \in {"ok", "mismatch"}
ResultOf(c, answer) == [id |-> [call |-> c], answer |-> answer]

(* The table and the effects. *)
TableInv ==
  /\ \A r \in results : \E c \in Write : r = ResultOf(c, r.answer)
  /\ \A r, s \in results : r.id = s.id => r = s
  /\ \A r \in results : Definitive(r.answer)
  /\ \A f \in effects : ResultOf(f.by.call, Reply("ok", f.version)) \in results
  /\ \A r \in results : r.answer.status = "ok" =>
       \E f \in effects : r.id = [call |-> f.by.call] /\ f.version = r.answer.arg
  /\ AtMostOnce

Queued(c) == \E f \in enqueued : f.by.call = c

(* The answers on their way to the clients. *)
HandlerInv(h) ==
  LET x == handlers[h] IN
  /\ x.at # "none" => x.node \in Node
  /\ x.at = "forwarding" => h.hop = 1
  /\ x.answer.status = "redirect" => x.answer.arg \in Node \cup {None}
  /\ x.at = "refused" => x.answer.status = "redirect"
  /\ Definitive(x.answer) => /\ ResultOf(h.call, x.answer) \in results
                             /\ x.at \in {"resolved", "answered"}
  /\ x.at = "resolved" => Definitive(x.answer)
  /\ x.at = "answered" /\ x.answer.status = "ok" => Queued(h.call)

ClientInv(c) ==
  LET answer == clients[c].answer IN
  /\ Definitive(answer) => ResultOf(c, answer) \in results
  /\ answer.status = "ok" => Queued(c)

HandlersInv == \A h \in Handler : HandlerInv(h)
ClientsInv == \A c \in Write : ClientInv(c)

GatewayInv == TypeOK /\ TableInv /\ HandlersInv /\ ClientsInv

-----------------------------------------------------------------------------

(* The answers the code makes are answers. *)
LEMMA AnswerTypes ==
  /\ NoReply \in Answer /\ Unavailable \in Answer
  /\ ~Definitive(NoReply) /\ ~Definitive(Unavailable)
  /\ NoReply.status # "redirect" /\ Unavailable.status # "redirect"
  /\ NoReply.status # "ok" /\ Unavailable.status # "ok"
  /\ \A l \in Node \cup {None} : Reply("redirect", l) \in Answer
  /\ \A n \in Nat : Reply("ok", n) \in Answer /\ Reply("mismatch", n) \in Answer
BY GatewayAssumption DEF NoReply, Unavailable, Reply, Answer, Definitive, Node, None

LEMMA NoHandlerType ==
  /\ NoHandler \in HandlerState
  /\ \A n \in Node : [NoHandler EXCEPT !.at = "arrived", !.node = n] \in HandlerState
BY AnswerTypes DEF NoHandler, HandlerState, None

(* Names of handlers: the first of an attempt, and the next hop. *)
LEMMA HandlerNames ==
  /\ \A c \in Call, a \in Attempt : First(c, a) \in Handler
  /\ \A c \in PlainCall : First(c, 0) \in Handler
  /\ \A h \in Handler : h.hop < 2 => /\ [h EXCEPT !.hop = @ + 1] \in Handler
                                     /\ [h EXCEPT !.hop = @ + 1] # h
                                     /\ [h EXCEPT !.hop = @ + 1].call = h.call
                                     /\ [h EXCEPT !.hop = @ + 1].hop = h.hop + 1
  /\ \A h \in Handler : h.call \in Write /\ h.hop \in 1 .. 2 /\ h.attempt \in Attempt
<1>1. 0 \in Attempt
  BY GatewayAssumption DEF Attempt
<1>2. \A c \in Call, a \in Attempt : First(c, a) \in Handler
  BY GatewayAssumption DEF First, Handler, Hop, Write
<1>3. \A c \in PlainCall : First(c, 0) \in Handler
  BY <1>1 DEF First, Handler, Hop, Write
<1>4. \A h \in Handler : h.call \in Write /\ h.hop \in 1 .. 2 /\ h.attempt \in Attempt
  BY DEF Handler, Hop
<1>5. ASSUME NEW h \in Handler, h.hop < 2
      PROVE  /\ [h EXCEPT !.hop = @ + 1] \in Handler
             /\ [h EXCEPT !.hop = @ + 1] # h
             /\ [h EXCEPT !.hop = @ + 1].call = h.call
             /\ [h EXCEPT !.hop = @ + 1].hop = h.hop + 1
  BY <1>5 DEF Handler, Hop
<1> QED BY <1>2, <1>3, <1>4, <1>5

(* A handler that has not changed, or is gone, keeps its invariant while   *)
(* results and queued effects only grow.                                   *)
LEMMA HandlerKeeps ==
  ASSUME NEW h \in Handler, results \subseteq results', enqueued \subseteq enqueued',
         handlers'[h] = NoHandler \/ (HandlerInv(h) /\ handlers'[h] = handlers[h])
  PROVE  HandlerInv(h)'
<1>1. CASE handlers'[h] = NoHandler
  BY <1>1, AnswerTypes DEF HandlerInv, NoHandler, NoReply, Reply, Definitive
<1>2. CASE HandlerInv(h) /\ handlers'[h] = handlers[h]
  BY <1>2 DEF HandlerInv, Queued
<1> QED BY <1>1, <1>2

LEMMA ClientKeeps ==
  ASSUME NEW c \in Write, results \subseteq results', enqueued \subseteq enqueued',
         \/ ClientInv(c) /\ clients'[c].answer = clients[c].answer
         \/ clients'[c].answer \in {NoReply, Unavailable}
  PROVE  ClientInv(c)'
<1>1. CASE ClientInv(c) /\ clients'[c].answer = clients[c].answer
  BY <1>1 DEF ClientInv, Queued
<1>2. CASE clients'[c].answer \in {NoReply, Unavailable}
  BY <1>2, AnswerTypes DEF ClientInv
<1> QED BY <1>1, <1>2

(* The response of a handler, read or not. *)
LEMMA RespondingKeeps ==
  ASSUME NEW h \in Handler, NEW answer \in Answer, TypeOK, HandlerInv(h),
         results \subseteq results', enqueued \subseteq enqueued',
         handlers'[h] = Responding(h, answer), handlers[h].at # "none",
         answer.status = "redirect" => answer.arg \in Node \cup {None},
         Definitive(answer) => ResultOf(h.call, answer) \in results',
         answer.status = "ok" => Queued(h.call)'
  PROVE  HandlerInv(h)'
<1>1. handlers[h] \in HandlerState
  BY DEF TypeOK
<1>2. CASE handlers'[h] = NoHandler
  BY <1>2, HandlerKeeps
<1>3. CASE handlers'[h] = [handlers[h] EXCEPT !.at = "answered", !.answer = answer]
  <2>1. /\ handlers'[h].at = "answered" /\ handlers'[h].answer = answer
        /\ handlers'[h].node \in Node
    BY <1>1, <1>3 DEF HandlerState, HandlerInv
  <2> QED BY <2>1, HandlerNames DEF HandlerInv
<1> QED BY <1>2, <1>3 DEF Responding

LEMMA RespondingType ==
  ASSUME NEW h \in Handler, NEW answer \in Answer, TypeOK
  PROVE  Responding(h, answer) \in HandlerState
BY NoHandlerType DEF Responding, HandlerState, TypeOK

-----------------------------------------------------------------------------
(* One lemma per action: it preserves the invariant.                       *)

(* Apply's three cases: a known ID, a write that is executed, a write that *)
(* is refused.  In all of them the answer is the result in the table.      *)
LEMMA CommitTable ==
  ASSUME GatewayInv, NEW h \in Handler, Commit(h)
  PROVE  \E result \in Answer :
           /\ Definitive(result)
           /\ results' = results \cup {ResultOf(h.call, result)}
           /\ TableInv'
           /\ version' \in Nat
           /\ \A f \in effects' : f.by \in Handler /\ f.version \in 1 .. version'
           /\ effects \subseteq effects'
           /\ handlers' = IF handlers[h].at = "waiting" /\ handlers[h].node = leader
                          THEN [handlers EXCEPT ![h].at = "resolved", ![h].answer = result]
                          ELSE handlers
<1> DEFINE known == {r \in results : r.id = RequestId(h)}
           fits == Expected[h.call] \in {Any, version}
           fresh == IF fits THEN Reply("ok", version + 1) ELSE Reply("mismatch", version)
<1> USE DEF GatewayInv
<1>0. h.call \in Write /\ version \in Nat /\ RequestId(h) = [call |-> h.call]
  BY HandlerNames DEF TypeOK, RequestId
<1>1. CASE known # {}
  <2>1. PICK r \in results : r.id = RequestId(h)
    BY <1>1
  <2>2. (CHOOSE x \in known : TRUE) = r
    <3>1. \A x \in known : x = r
      BY <2>1 DEF TableInv
    <3> QED BY <2>1, <3>1
  <2>3. r = ResultOf(h.call, r.answer)
    BY <1>0, <2>1 DEF TableInv, ResultOf
  <2>4. r.answer \in Answer /\ Definitive(r.answer)
    BY <2>1 DEF TableInv, TypeOK
  <2>5. results' = results \cup {ResultOf(h.call, r.answer)}
    BY <1>0, <1>1, <2>2 DEF Commit, Remember, ResultOf
  <2>6. results' = results /\ effects' = effects /\ version' = version
    BY <1>1, <2>1, <2>3, <2>5 DEF Commit
  <2>7. TableInv'
    BY <2>6 DEF TableInv, AtMostOnce
  <2>8. handlers' = IF handlers[h].at = "waiting" /\ handlers[h].node = leader
                    THEN [handlers EXCEPT ![h].at = "resolved", ![h].answer = r.answer]
                    ELSE handlers
    BY <1>1, <2>2 DEF Commit
  <2> QED BY <2>4, <2>5, <2>6, <2>7, <2>8 DEF TypeOK
<1>2. CASE known = {}
  <2> DEFINE new == ResultOf(h.call, fresh)
  <2>1. fresh \in Answer /\ Definitive(fresh)
    BY <1>0 DEF Reply, Definitive, Answer
  <2>2. results' = results \cup {new}
    BY <1>0, <1>2 DEF Commit, Remember, ResultOf
  <2>3. \A r \in results : r.id # new.id
    BY <1>0, <1>2 DEF ResultOf
  <2>4. \A f \in effects : f.by.call # h.call
    BY <2>3 DEF TableInv, ResultOf
  <2>5. handlers' = IF handlers[h].at = "waiting" /\ handlers[h].node = leader
                    THEN [handlers EXCEPT ![h].at = "resolved", ![h].answer = fresh]
                    ELSE handlers
    BY <1>2 DEF Commit
  <2>6. new.id = [call |-> h.call] /\ new.answer = fresh
    BY DEF ResultOf
  <2>7. CASE fits
    <3> DEFINE e == [by |-> h, version |-> version + 1]
    <3>1. effects' = effects \cup {e} /\ version' = version + 1
      BY <1>2, <2>7 DEF Commit
    <3>2. fresh = Reply("ok", version + 1) /\ fresh.status = "ok" /\ fresh.arg = version + 1
      BY <2>7 DEF Reply
    <3>3. \A f \in effects' : f.by \in Handler /\ f.version \in 1 .. version'
      BY <1>0, <3>1 DEF TypeOK
    <3>4. TableInv'
      <4>1. \A r \in results' : \E c \in Write : r = ResultOf(c, r.answer)
        BY <1>0, <2>2, <2>6 DEF TableInv
      <4>2. \A r, s \in results' : r.id = s.id => r = s
        BY <2>2, <2>3 DEF TableInv
      <4>3. \A r \in results' : Definitive(r.answer)
        BY <2>1, <2>2, <2>6 DEF TableInv
      <4>4. \A f \in effects' : ResultOf(f.by.call, Reply("ok", f.version)) \in results'
        BY <2>2, <3>1, <3>2 DEF TableInv
      <4>5. \A r \in results' : r.answer.status = "ok" =>
              \E f \in effects' : r.id = [call |-> f.by.call] /\ f.version = r.answer.arg
        <5>1. e \in effects' /\ e.by.call = h.call /\ e.version = version + 1
          BY <3>1
        <5>2. \E f \in effects' : new.id = [call |-> f.by.call] /\ f.version = new.answer.arg
          BY <2>6, <3>2, <5>1
        <5> QED BY <2>2, <3>1, <5>2 DEF TableInv
      <4>6. AtMostOnce'
        BY <2>4, <3>1 DEF TableInv, AtMostOnce
      <4> QED BY <4>1, <4>2, <4>3, <4>4, <4>5, <4>6 DEF TableInv
    <3> QED BY <1>0, <2>1, <2>2, <2>5, <3>1, <3>3, <3>4
  <2>8. CASE ~fits
    <3>1. effects' = effects /\ version' = version
      BY <2>8 DEF Commit
    <3>2. fresh.status # "ok"
      BY <2>8 DEF Reply
    <3>3. TableInv'
      BY <1>0, <2>1, <2>2, <2>3, <2>6, <3>1, <3>2 DEF TableInv, AtMostOnce
    <3> QED BY <1>0, <2>1, <2>2, <2>5, <3>1, <3>3 DEF TypeOK
  <2> QED BY <2>7, <2>8
<1> QED BY <1>1, <1>2

LEMMA CommitKeeps ==
  ASSUME GatewayInv, NEW h \in Handler, Commit(h)
  PROVE  GatewayInv'
<1> USE DEF GatewayInv
<1>1. PICK result \in Answer :
           /\ Definitive(result)
           /\ results' = results \cup {ResultOf(h.call, result)}
           /\ TableInv'
           /\ version' \in Nat
           /\ \A f \in effects' : f.by \in Handler /\ f.version \in 1 .. version'
           /\ effects \subseteq effects'
           /\ handlers' = IF handlers[h].at = "waiting" /\ handlers[h].node = leader
                          THEN [handlers EXCEPT ![h].at = "resolved", ![h].answer = result]
                          ELSE handlers
  BY CommitTable
<1>2. /\ UNCHANGED <<leader, believes, hint, moves, enqueued, clients, cached>>
      /\ proposed' \subseteq proposed
  BY DEF Commit, raftVars, clientVars
<1>3. handlers' \in [Handler -> HandlerState]
  BY <1>1 DEF TypeOK, HandlerState
<1>4. TypeOK'
  <2>1. \A r \in results' : r.answer \in Answer
    BY <1>1 DEF TypeOK, ResultOf
  <2> QED BY <1>1, <1>2, <1>3, <2>1 DEF TypeOK
<1>5. HandlersInv'
  <2> SUFFICES ASSUME NEW k \in Handler PROVE HandlerInv(k)'
    BY DEF HandlersInv
  <2>1. CASE handlers'[k] = handlers[k]
    BY <1>1, <1>2, <2>1, HandlerKeeps DEF HandlersInv
  <2>2. CASE handlers'[k] # handlers[k]
    <3>1. k = h /\ handlers[h].at = "waiting"
      BY <1>1, <2>2 DEF TypeOK
    <3>2. /\ handlers'[h].at = "resolved" /\ handlers'[h].answer = result
          /\ handlers'[h].node \in Node
      BY <1>1, <2>2, <3>1 DEF TypeOK, HandlerState, HandlersInv, HandlerInv
    <3>3. result.status # "redirect"
      BY <1>1 DEF Definitive
    <3> QED BY <1>1, <3>1, <3>2, <3>3, HandlerNames DEF HandlerInv
  <2> QED BY <2>1, <2>2
<1>6. ClientsInv'
  BY <1>1, <1>2, ClientKeeps DEF ClientsInv
<1> QED BY <1>1, <1>4, <1>5, <1>6

(* The moves of leadership change no result; a deposed leader's waiting    *)
(* handlers are refused with a hint.                                       *)
LEMMA RaftKeeps ==
  ASSUME GatewayInv, NEW n \in Node, Elect(n) \/ StepDown(n) \/ LearnLeader(n)
  PROVE  GatewayInv'
<1> USE DEF GatewayInv
<1>0. UNCHANGED <<proposed, version, results, effects, enqueued, clients, cached>>
  BY DEF Elect, StepDown, LearnLeader, storeVars, clientVars
<1>1. TableInv' /\ ClientsInv'
  BY <1>0, ClientKeeps DEF TableInv, AtMostOnce, ClientsInv
<1>2. CASE Elect(n) \/ LearnLeader(n)
  <2>1. handlers' = handlers
    BY <1>2 DEF Elect, LearnLeader
  <2>2. HandlersInv'
    BY <1>0, <2>1, HandlerKeeps DEF HandlersInv
  <2>3. TypeOK'
    BY <1>0, <1>2, <2>1, GatewayAssumption DEF Elect, LearnLeader, TypeOK
  <2> QED BY <1>1, <2>2, <2>3
<1>3. CASE StepDown(n)
  <2>1. PICK l \in {None, leader} \ {n} :
          /\ hint' = [hint EXCEPT ![n] = l]
          /\ handlers' = [h \in Handler |->
               IF handlers[h].at = "waiting" /\ handlers[h].node = n
               THEN [at |-> "refused", node |-> n, answer |-> Reply("redirect", l)]
               ELSE handlers[h]]
    BY <1>3 DEF StepDown
  <2>2. l \in Node \cup {None} /\ Reply("redirect", l) \in Answer
    BY AnswerTypes DEF TypeOK
  <2>3. TypeOK'
    <3>1. handlers' \in [Handler -> HandlerState]
      BY <2>1, <2>2 DEF TypeOK, HandlerState
    <3> QED BY <1>0, <1>3, <2>1, <2>2, <3>1 DEF TypeOK, StepDown
  <2>4. HandlersInv'
    <3> SUFFICES ASSUME NEW h \in Handler PROVE HandlerInv(h)'
      BY DEF HandlersInv
    <3>1. CASE handlers[h].at = "waiting" /\ handlers[h].node = n
      <4>1. handlers'[h] = [at |-> "refused", node |-> n, answer |-> Reply("redirect", l)]
        BY <2>1, <3>1
      <4> QED BY <2>2, <4>1, HandlerNames DEF HandlerInv, Reply, Definitive
    <3>2. CASE ~(handlers[h].at = "waiting" /\ handlers[h].node = n)
      <4>1. handlers'[h] = handlers[h]
        BY <2>1, <3>2
      <4> QED BY <1>0, <4>1, HandlerKeeps DEF HandlersInv
    <3> QED BY <3>1, <3>2
  <2> QED BY <1>1, <2>3, <2>4
<1> QED BY <1>2, <1>3

(* What the steps of handlers and clients have in common. *)
LEMMA StoreUntouched ==
  ASSUME GatewayInv, UNCHANGED <<raftVars, version, results, effects>>,
         proposed' \subseteq Handler, enqueued \subseteq enqueued', enqueued' \subseteq effects,
         handlers' \in [Handler -> HandlerState], clients' \in [Write -> ClientState],
         cached' \in Node \cup {None}
  PROVE  TypeOK' /\ TableInv'
<1>1. TypeOK'
  BY DEF GatewayInv, TypeOK, raftVars
<1>2. TableInv'
  BY DEF GatewayInv, TableInv, AtMostOnce
<1> QED BY <1>1, <1>2

LEMMA ProposeKeeps ==
  ASSUME GatewayInv, NEW h \in Handler, Propose(h)
  PROVE  GatewayInv'
<1> USE DEF GatewayInv
<1>0. /\ UNCHANGED <<raftVars, version, results, effects, enqueued, clients, cached>>
      /\ proposed' \subseteq Handler
  BY DEF Propose, TypeOK, clientVars
<1>1. handlers' \in [Handler -> HandlerState]
  BY DEF Propose, TypeOK, HandlerState
<1>2. TypeOK' /\ TableInv'
  BY <1>0, <1>1, StoreUntouched DEF TypeOK
<1>3. HandlersInv'
  <2> SUFFICES ASSUME NEW k \in Handler PROVE HandlerInv(k)'
    BY DEF HandlersInv
  <2>1. CASE k = h
    <3>1. handlers'[h].at = "waiting" /\ handlers'[h].answer = handlers[h].answer
      BY DEF Propose, TypeOK, HandlerState
    <3> QED BY <1>0, <2>1, <3>1, HandlerNames DEF HandlersInv, HandlerInv, Propose
  <2>2. CASE k # h
    <3>1. handlers'[k] = handlers[k]
      BY <2>2 DEF Propose, TypeOK
    <3> QED BY <1>0, <3>1, HandlerKeeps DEF HandlersInv
  <2> QED BY <2>1, <2>2
<1>4. ClientsInv'
  BY <1>0, ClientKeeps DEF ClientsInv
<1> QED BY <1>2, <1>3, <1>4

(* A handler answers its client, or the gateway before it. *)
LEMMA RespondKeeps ==
  ASSUME GatewayInv, NEW h \in Handler, NEW answer \in Answer,
         Respond(h, answer), handlers[h].at # "none",
         UNCHANGED <<raftVars, storeVars, clientVars>>,
         enqueued \subseteq enqueued', enqueued' \subseteq effects,
         answer.status = "redirect" => answer.arg \in Node \cup {None},
         Definitive(answer) => ResultOf(h.call, answer) \in results,
         answer.status = "ok" => Queued(h.call)'
  PROVE  GatewayInv'
<1> USE DEF GatewayInv
<1>0. UNCHANGED <<raftVars, proposed, version, results, effects, clients, cached>>
  BY DEF storeVars, clientVars
<1>1. handlers' \in [Handler -> HandlerState]
  BY RespondingType DEF Respond, TypeOK
<1>2. TypeOK' /\ TableInv'
  BY <1>0, <1>1, StoreUntouched DEF TypeOK
<1>3. HandlersInv'
  <2> SUFFICES ASSUME NEW k \in Handler PROVE HandlerInv(k)'
    BY DEF HandlersInv
  <2>1. CASE k = h
    <3>1. handlers'[h] = Responding(h, answer)
      BY DEF Respond, TypeOK
    <3>2. HandlerInv(h)
      BY DEF HandlersInv
    <3> QED BY <1>0, <2>1, <3>1, <3>2, RespondingKeeps
  <2>2. CASE k # h
    <3>1. handlers'[k] = handlers[k]
      BY <2>2 DEF Respond, TypeOK
    <3> QED BY <1>0, <3>1, HandlerKeeps DEF HandlersInv
  <2> QED BY <2>1, <2>2
<1>4. ClientsInv'
  BY <1>0, ClientKeeps DEF ClientsInv
<1> QED BY <1>2, <1>3, <1>4

LEMMA NotLeaderKeeps ==
  ASSUME GatewayInv, NEW h \in Handler, NEW l \in Node \cup {None},
         handlers[h].at \in {"arrived", "refused"}, NotLeader(h, l)
  PROVE  GatewayInv'
<1> USE DEF GatewayInv
<1> DEFINE next == [h EXCEPT !.hop = @ + 1]
<1>0. UNCHANGED <<raftVars, storeVars, enqueued, clientVars>>
  BY DEF NotLeader
<1>1. CASE l # None /\ l # handlers[h].node /\ MayForward(h)
  <2>0. UNCHANGED <<raftVars, proposed, version, results, effects, enqueued, clients, cached>>
    BY <1>0 DEF storeVars, clientVars
  <2>1. h.hop = 1 /\ next \in Handler /\ next # h /\ next.hop = 2 /\ next.call = h.call
    BY <1>1, HandlerNames DEF MayForward
  <2>2. l \in Node
    BY <1>1
  <2>3. handlers' = [handlers EXCEPT ![h].at = "forwarding", ![h].answer = NoReply,
                                     ![next] = [NoHandler EXCEPT !.at = "arrived", !.node = l]]
    BY <1>1 DEF NotLeader
  <2>4. handlers' \in [Handler -> HandlerState]
    BY <2>1, <2>2, <2>3, AnswerTypes, NoHandlerType DEF TypeOK, HandlerState
  <2>5. /\ handlers'[h].at = "forwarding" /\ handlers'[h].answer = NoReply
        /\ handlers'[next] = [NoHandler EXCEPT !.at = "arrived", !.node = l]
        /\ \A k \in Handler \ {h, next} : handlers'[k] = handlers[k]
    BY <2>1, <2>3 DEF TypeOK, HandlerState
  <2>6. HandlersInv'
    <3> SUFFICES ASSUME NEW k \in Handler PROVE HandlerInv(k)'
      BY DEF HandlersInv
    <3>1. CASE k = h
      <4>1. handlers'[h].node \in Node
        BY <2>1, <2>3 DEF TypeOK, HandlerState, HandlersInv, HandlerInv
      <4> QED BY <2>1, <2>5, <3>1, <4>1, AnswerTypes DEF HandlerInv
    <3>2. CASE k = next
      <4>1. /\ handlers'[next].at = "arrived" /\ handlers'[next].answer = NoReply
            /\ handlers'[next].node \in Node
        BY <2>2, <2>5 DEF NoHandler
      <4> QED BY <2>1, <3>2, <4>1, AnswerTypes DEF HandlerInv
    <3>3. CASE k \notin {h, next}
      BY <2>0, <2>5, <3>3, HandlerKeeps DEF HandlersInv
    <3> QED BY <3>1, <3>2, <3>3
  <2>7. ClientsInv'
    BY <2>0, ClientKeeps DEF ClientsInv
  <2> QED BY <2>0, <2>4, <2>6, <2>7, StoreUntouched DEF TypeOK
<1>2. CASE ~(l # None /\ l # handlers[h].node /\ MayForward(h))
  <2>1. Respond(h, Reply("redirect", l))
    BY <1>2 DEF NotLeader, Respond
  <2>2. /\ Reply("redirect", l) \in Answer /\ ~Definitive(Reply("redirect", l))
        /\ Reply("redirect", l).status # "ok" /\ Reply("redirect", l).arg = l
    BY AnswerTypes DEF Reply, Definitive
  <2>3. enqueued \subseteq enqueued' /\ enqueued' \subseteq effects
    BY <1>0 DEF TypeOK
  <2> QED BY <1>0, <2>1, <2>2, <2>3, RespondKeeps
<1> QED BY <1>1, <1>2

LEMMA RefusalKeeps ==
  ASSUME GatewayInv, NEW h \in Handler, RefuseProposal(h) \/ LostLeadership(h)
  PROVE  GatewayInv'
<1> USE DEF GatewayInv
<1>1. CASE RefuseProposal(h)
  <2> DEFINE n == handlers[h].node
             l == IF n \in believes THEN None ELSE hint[n]
  <2>1. handlers[h].at = "arrived" /\ NotLeader(h, l)
    BY <1>1 DEF RefuseProposal
  <2>2. CASE l \in Node \cup {None}
    BY <2>1, <2>2, NotLeaderKeeps
  <2>3. n \in Node
    BY <2>1 DEF HandlersInv, HandlerInv
  <2> QED BY <2>2, <2>3 DEF TypeOK
<1>2. CASE LostLeadership(h)
  <2>1. handlers[h].answer.arg \in Node \cup {None}
    BY <1>2 DEF LostLeadership, HandlersInv, HandlerInv
  <2> QED BY <1>2, <2>1, NotLeaderKeeps DEF LostLeadership
<1> QED BY <1>1, <1>2

LEMMA TimeOutKeeps ==
  ASSUME GatewayInv, NEW h \in Handler, TimeOut(h)
  PROVE  GatewayInv'
<1>1. enqueued \subseteq enqueued' /\ enqueued' \subseteq effects
  BY DEF TimeOut, GatewayInv, TypeOK
<1> QED BY <1>1, AnswerTypes, RespondKeeps DEF TimeOut

(* A result in the table that is a success has its effect, which write     *)
(* gives to the queue before it answers.                                   *)
LEMMA AnsweredKeeps ==
  ASSUME GatewayInv, NEW h \in Handler, Answered(h)
  PROVE  GatewayInv'
<1> USE DEF GatewayInv
<1> DEFINE answer == handlers[h].answer
<1>1. handlers[h].at = "resolved" /\ Respond(h, answer) /\ UNCHANGED <<raftVars, storeVars, clientVars>>
  BY DEF Answered
<1>2. answer \in Answer /\ Definitive(answer) /\ ResultOf(h.call, answer) \in results
  BY <1>1 DEF TypeOK, HandlerState, HandlersInv, HandlerInv
<1>3. enqueued \subseteq enqueued' /\ enqueued' \subseteq effects
  BY DEF Answered, ToInvalidate, TypeOK
<1>4. ASSUME answer.status = "ok" PROVE Queued(h.call)'
  <2>1. PICK f \in effects : [call |-> h.call] = [call |-> f.by.call]
    BY <1>2, <1>4 DEF TableInv, ResultOf
  <2>2. f.by.call = h.call
    BY <2>1
  <2>3. f \in enqueued'
    BY <1>4, <2>2 DEF Answered, ToInvalidate
  <2> QED BY <2>2, <2>3 DEF Queued
<1>5. answer.status # "redirect"
  BY <1>2 DEF Definitive
<1> QED BY <1>1, <1>2, <1>3, <1>4, <1>5, RespondKeeps

LEMMA ForwardedKeeps ==
  ASSUME GatewayInv, NEW h \in Handler, Forwarded(h)
  PROVE  GatewayInv'
<1> USE DEF GatewayInv
<1> DEFINE next == [h EXCEPT !.hop = @ + 1]
           answer == handlers[next].answer
<1>0. /\ handlers[h].at = "forwarding"
      /\ UNCHANGED <<raftVars, storeVars, enqueued, clientVars>>
      /\ enqueued \subseteq enqueued' /\ enqueued' \subseteq effects
  BY DEF Forwarded, TypeOK
<1>1. h.hop = 1 /\ next \in Handler /\ next # h /\ next.call = h.call
  BY <1>0, HandlerNames DEF HandlersInv, HandlerInv
<1>2. CASE Respond(h, Unavailable)
  BY <1>0, <1>2, AnswerTypes, RespondKeeps
<1>3. CASE /\ handlers[next].at = "answered"
           /\ handlers' = [handlers EXCEPT ![h] = Responding(h, answer), ![next] = NoHandler]
  <2>0. UNCHANGED <<raftVars, proposed, version, results, effects, enqueued, clients, cached>>
    BY <1>0 DEF storeVars, clientVars
  <2>1. /\ answer \in Answer
        /\ answer.status = "redirect" => answer.arg \in Node \cup {None}
        /\ Definitive(answer) => ResultOf(h.call, answer) \in results
        /\ answer.status = "ok" => Queued(h.call)
    BY <1>1, <1>3 DEF TypeOK, HandlerState, HandlersInv, HandlerInv
  <2>2. /\ handlers'[h] = Responding(h, answer) /\ handlers'[next] = NoHandler
        /\ \A k \in Handler \ {h, next} : handlers'[k] = handlers[k]
    BY <1>1, <1>3 DEF TypeOK
  <2>3. handlers' \in [Handler -> HandlerState]
    BY <1>1, <1>3, <2>1, RespondingType, NoHandlerType DEF TypeOK
  <2>4. HandlersInv'
    <3> SUFFICES ASSUME NEW k \in Handler PROVE HandlerInv(k)'
      BY DEF HandlersInv
    <3>1. CASE k = h
      <4>1. HandlerInv(h) /\ (answer.status = "ok" => Queued(h.call)')
        BY <1>1, <2>0, <2>1 DEF HandlersInv, Queued
      <4> QED BY <1>0, <2>0, <2>1, <2>2, <3>1, <4>1, RespondingKeeps
    <3>2. CASE k # h
      BY <2>0, <2>2, <3>2, HandlerKeeps DEF HandlersInv
    <3> QED BY <3>1, <3>2
  <2>5. ClientsInv'
    BY <2>0, ClientKeeps DEF ClientsInv
  <2> QED BY <2>0, <2>3, <2>4, <2>5, StoreUntouched DEF TypeOK
<1> QED BY <1>2, <1>3 DEF Forwarded

-----------------------------------------------------------------------------
(* The clients.                                                            *)

LEMMA SendKeeps ==
  ASSUME GatewayInv, NEW c \in Write, NEW a \in Attempt, NEW target \in Node,
         First(c, a) \in Handler, Send(c, a, target),
         UNCHANGED <<raftVars, storeVars, enqueued>>, cached' \in Node \cup {None}
  PROVE  GatewayInv'
<1> USE DEF GatewayInv
<1>0. UNCHANGED <<raftVars, proposed, version, results, effects, enqueued>>
  BY DEF storeVars
<1>1. clients' \in [Write -> ClientState]
  BY AnswerTypes DEF Send, TypeOK, ClientState
<1>2. handlers' \in [Handler -> HandlerState]
  BY NoHandlerType DEF Send, TypeOK
<1>3. HandlersInv'
  <2> SUFFICES ASSUME NEW k \in Handler PROVE HandlerInv(k)'
    BY DEF HandlersInv
  <2>1. CASE k = First(c, a)
    <3>1. handlers'[k].at = "arrived" /\ handlers'[k].answer = NoReply /\ k.hop = 1
          /\ handlers'[k].node = target
      BY <2>1 DEF Send, NoHandler, First
    <3> QED BY <3>1, AnswerTypes DEF HandlerInv
  <2>2. CASE k # First(c, a)
    <3>1. handlers'[k] = NoHandler \/ handlers'[k] = handlers[k]
      BY <2>2 DEF Send
    <3> QED BY <1>0, <3>1, HandlerKeeps DEF HandlersInv
  <2> QED BY <2>1, <2>2
<1>4. ClientsInv'
  <2> SUFFICES ASSUME NEW d \in Write PROVE ClientInv(d)'
    BY DEF ClientsInv
  <2>1. clients'[d].answer = NoReply \/ clients'[d] = clients[d]
    BY DEF Send, TypeOK
  <2> QED BY <1>0, <2>1, ClientKeeps DEF ClientsInv
<1> QED BY <1>0, <1>1, <1>2, <1>3, <1>4, StoreUntouched DEF TypeOK

LEMMA ReturnsKeeps ==
  ASSUME GatewayInv, NEW c \in Write, NEW answer \in Answer, Returns(c, answer),
         UNCHANGED <<raftVars, storeVars, enqueued>>, cached' \in Node \cup {None},
         Definitive(answer) => ResultOf(c, answer) \in results,
         answer.status = "ok" => Queued(c)
  PROVE  GatewayInv'
<1> USE DEF GatewayInv
<1>0. UNCHANGED <<raftVars, proposed, version, results, effects, enqueued>>
  BY DEF storeVars
<1>1. clients' \in [Write -> ClientState]
  BY DEF Returns, TypeOK, ClientState
<1>2. handlers' \in [Handler -> HandlerState]
  BY NoHandlerType DEF Returns, TypeOK
<1>3. HandlersInv'
  <2> SUFFICES ASSUME NEW k \in Handler PROVE HandlerInv(k)'
    BY DEF HandlersInv
  <2>1. handlers'[k] = NoHandler \/ handlers'[k] = handlers[k]
    BY DEF Returns
  <2> QED BY <1>0, <2>1, HandlerKeeps DEF HandlersInv
<1>4. ClientsInv'
  <2> SUFFICES ASSUME NEW d \in Write PROVE ClientInv(d)'
    BY DEF ClientsInv
  <2>1. CASE d = c
    <3>1. clients'[c].answer = answer
      BY DEF Returns, TypeOK, ClientState
    <3> QED BY <1>0, <2>1, <3>1 DEF ClientInv, Queued
  <2>2. CASE d # c
    <3>1. clients'[d] = clients[d]
      BY <2>2 DEF Returns, TypeOK
    <3> QED BY <1>0, <3>1, ClientKeeps DEF ClientsInv
  <2> QED BY <2>1, <2>2
<1> QED BY <1>0, <1>1, <1>2, <1>3, <1>4, StoreUntouched DEF TypeOK

LEMMA RetryKeeps ==
  ASSUME GatewayInv, NEW c \in Call, NEW target \in Node, Retry(c, target),
         UNCHANGED <<raftVars, storeVars, enqueued>>, cached' \in Node \cup {None}
  PROVE  GatewayInv'
<1> DEFINE a == clients[c].attempt + 1
<1>0. c \in Write
  BY DEF Write
<1>1. CASE a < Retries
  <2>1. a \in Attempt
    BY <1>0, <1>1, GatewayAssumption DEF GatewayInv, TypeOK, ClientState, Attempt
  <2>2. Send(c, a, target)
    BY <1>1 DEF Retry
  <2> QED BY <1>0, <2>1, <2>2, HandlerNames, SendKeeps
<1>2. CASE ~(a < Retries)
  BY <1>0, <1>2, AnswerTypes, ReturnsKeeps DEF Retry
<1> QED BY <1>1, <1>2

LEMMA NextNodeType ==
  ASSUME GatewayInv, NEW c \in Call
  PROVE  NextNode(c) \in Node
<1>1. clients[c].attempt \in Nat
  BY GatewayAssumption DEF GatewayInv, TypeOK, ClientState, Attempt, Write
<1>2. \A i \in Nat : i % NumNodes \in 0 .. NumNodes - 1
  BY GatewayAssumption
<1> QED BY <1>1, <1>2, GatewayAssumption DEF NextNode, Node

LEMMA BeginKeeps ==
  ASSUME GatewayInv, NEW c \in Write,
         (c \in Call /\ Begin(c)) \/ (c \in PlainCall /\ PlainBegin(c))
  PROVE  GatewayInv'
<1>0. 0 \in Attempt /\ 1 \in Node /\ First(c, 0) \in Handler
  BY HandlerNames, GatewayAssumption DEF Attempt, Node
<1>1. CASE c \in Call /\ Begin(c)
  <2> DEFINE target == IF cached # None THEN cached ELSE 1
  <2>1. target \in Node
    BY <1>0 DEF GatewayInv, TypeOK
  <2>2. Send(c, 0, target) /\ UNCHANGED <<raftVars, storeVars, enqueued>> /\ cached' \in Node \cup {None}
    BY <1>1 DEF Begin, GatewayInv, TypeOK
  <2> QED BY <1>0, <2>1, <2>2, SendKeeps
<1>2. CASE c \in PlainCall /\ PlainBegin(c)
  <2>1. PICK n \in Node : Send(c, 0, n)
    BY <1>2 DEF PlainBegin
  <2>2. UNCHANGED <<raftVars, storeVars, enqueued>> /\ cached' \in Node \cup {None}
    BY <1>2 DEF PlainBegin, GatewayInv, TypeOK
  <2> QED BY <1>0, <2>1, <2>2, SendKeeps
<1> QED BY <1>1, <1>2

(* The answer that a client hears is the one at the first gateway. *)
LEMMA HearKeeps ==
  ASSUME GatewayInv, NEW c \in Call, Hear(c)
  PROVE  GatewayInv'
<1> DEFINE k == First(c, clients[c].attempt)
           answer == handlers[k].answer
<1>0. c \in Write /\ k \in Handler /\ k.call = c
  BY HandlerNames DEF GatewayInv, TypeOK, ClientState, Write, First
<1>1. /\ answer \in Answer
      /\ answer.status = "redirect" => answer.arg \in Node \cup {None}
      /\ Definitive(answer) => ResultOf(c, answer) \in results
      /\ answer.status = "ok" => Queued(c)
  BY <1>0 DEF Hear, GatewayInv, TypeOK, HandlerState, HandlersInv, HandlerInv
<1>2. clients[c].target \in Node \cup {None} /\ cached \in Node \cup {None}
      /\ UNCHANGED <<raftVars, storeVars, enqueued>>
  BY <1>0 DEF GatewayInv, TypeOK, ClientState, Hear
<1>3. CASE answer.status \in {"ok", "mismatch"}
  <2>1. Returns(c, answer) /\ cached' \in Node \cup {None}
    BY <1>2, <1>3 DEF Hear
  <2> QED BY <1>0, <1>1, <1>2, <2>1, ReturnsKeeps
<1>4. CASE answer.status = "redirect" /\ answer.arg # None
  <2>1. answer.arg \in Node
    BY <1>1, <1>4
  <2>2. cached' = answer.arg /\ Retry(c, answer.arg)
    BY <1>4 DEF Hear
  <2> QED BY <1>2, <2>1, <2>2, RetryKeeps
<1>5. CASE answer.status \notin {"ok", "mismatch"} /\ ~(answer.status = "redirect" /\ answer.arg # None)
  <2>1. cached' = None /\ Retry(c, NextNode(c))
    BY <1>5 DEF Hear
  <2> QED BY <1>2, <2>1, NextNodeType, RetryKeeps
<1> QED BY <1>3, <1>4, <1>5

LEMMA HearNothingKeeps ==
  ASSUME GatewayInv, NEW c \in Call, HearNothing(c)
  PROVE  GatewayInv'
BY NextNodeType, RetryKeeps DEF HearNothing

LEMMA CancelKeeps ==
  ASSUME GatewayInv, NEW c \in Write, Cancel(c)
  PROVE  GatewayInv'
<1>1. cached' \in Node \cup {None}
  BY DEF Cancel, GatewayInv, TypeOK
<1> QED BY <1>1, AnswerTypes, ReturnsKeeps DEF Cancel

LEMMA PlainHearKeeps ==
  ASSUME GatewayInv, NEW c \in PlainCall, PlainHear(c)
  PROVE  GatewayInv'
<1> DEFINE k == First(c, 0)
           answer == handlers[k].answer
<1>0. c \in Write /\ k \in Handler /\ k.call = c
  BY HandlerNames DEF Write, First
<1>1. /\ answer \in Answer
      /\ Definitive(answer) => ResultOf(c, answer) \in results
      /\ answer.status = "ok" => Queued(c)
  BY <1>0 DEF PlainHear, GatewayInv, TypeOK, HandlerState, HandlersInv, HandlerInv
<1>2. /\ Returns(c, answer) /\ cached' \in Node \cup {None}
      /\ UNCHANGED <<raftVars, storeVars, enqueued>>
  BY DEF PlainHear, GatewayInv, TypeOK
<1> QED BY <1>0, <1>1, <1>2, ReturnsKeeps

-----------------------------------------------------------------------------

LEMMA InitInv == Init => GatewayInv
<1> SUFFICES ASSUME Init PROVE GatewayInv
  OBVIOUS
<1> USE DEF Init
<1>1. TypeOK
  <2>1. 1 \in Node /\ 0 \in Attempt
    BY GatewayAssumption DEF Node, Attempt
  <2>2. handlers \in [Handler -> HandlerState]
    BY NoHandlerType
  <2>3. clients \in [Write -> ClientState]
    BY <2>1, AnswerTypes DEF ClientState
  <2> QED BY <2>1, <2>2, <2>3, GatewayAssumption DEF TypeOK
<1>2. TableInv
  BY DEF TableInv, AtMostOnce
<1>3. HandlersInv
  BY AnswerTypes DEF HandlersInv, HandlerInv, NoHandler
<1>4. ClientsInv
  BY AnswerTypes DEF ClientsInv, ClientInv
<1> QED BY <1>1, <1>2, <1>3, <1>4 DEF GatewayInv

LEMMA StutterKeeps ==
  ASSUME GatewayInv, UNCHANGED vars
  PROVE  GatewayInv'
<1> USE DEF GatewayInv, vars, raftVars, storeVars, clientVars
<1>1. TypeOK' /\ TableInv'
  BY DEF TypeOK, TableInv, AtMostOnce
<1>2. HandlersInv'
  BY HandlerKeeps DEF HandlersInv
<1>3. ClientsInv'
  BY ClientKeeps DEF ClientsInv
<1> QED BY <1>1, <1>2, <1>3

LEMMA NextKeeps ==
  ASSUME GatewayInv, [Next]_vars
  PROVE  GatewayInv'
<1>1. CASE \E n \in Node : Elect(n) \/ StepDown(n) \/ LearnLeader(n)
  BY <1>1, RaftKeeps
<1>2. CASE \E h \in Handler : \/ Commit(h) \/ Propose(h) \/ RefuseProposal(h) \/ LostLeadership(h)
                              \/ TimeOut(h) \/ Answered(h) \/ Forwarded(h)
  BY <1>2, CommitKeeps, ProposeKeeps, RefusalKeeps, TimeOutKeeps, AnsweredKeeps, ForwardedKeeps
<1>3. CASE \E c \in Call : Begin(c) \/ Hear(c) \/ HearNothing(c)
  BY <1>3, BeginKeeps, HearKeeps, HearNothingKeeps DEF Write
<1>4. CASE \E c \in PlainCall : PlainBegin(c) \/ PlainHear(c)
  BY <1>4, BeginKeeps, PlainHearKeeps DEF Write
<1>5. CASE \E c \in Write : Cancel(c)
  BY <1>5, CancelKeeps
<1>6. CASE UNCHANGED vars
  BY <1>6, StutterKeeps
<1> QED BY <1>1, <1>2, <1>3, <1>4, <1>5, <1>6 DEF Next

(* The invariant holds always: the table of results, the effects and the   *)
(* answers of handlers and clients agree at every step.                    *)
THEOREM GatewayInvariant == Spec => []GatewayInv
<1>1. GatewayInv /\ [Next]_vars => GatewayInv'
  BY NextKeeps
<1> QED BY <1>1, InitInv, PTL DEF Spec

(* However many nodes, attempts, copies and changes of leader there are, a *)
(* write with one request ID takes effect at most once.                    *)
THEOREM WritesHappenAtMostOnce == Spec => []AtMostOnce
<1>1. GatewayInv => AtMostOnce
  BY DEF GatewayInv, TableInv
<1> QED BY <1>1, GatewayInvariant, PTL

(* A version or a mismatch that do, or a plain client, was given stays     *)
(* true whatever copies of the command commit later.                       *)
THEOREM DefinitiveAnswersAreFinal == Spec => []AnswersAreFinal
<1>1. GatewayInv => AnswersAreFinal
  <2> SUFFICES ASSUME GatewayInv, NEW c \in Write
               PROVE  /\ clients[c].answer.status = "ok" =>
                           \E f \in effects : f.by.call = c /\ f.version = clients[c].answer.arg
                      /\ clients[c].answer.status = "mismatch" => \A f \in effects : f.by.call # c
    BY DEF AnswersAreFinal
  <2> DEFINE answer == clients[c].answer
             mine == ResultOf(c, answer)
  <2>0. mine.id = [call |-> c] /\ mine.answer = answer
    BY DEF ResultOf
  <2>1. ASSUME answer.status = "ok"
        PROVE  \E f \in effects : f.by.call = c /\ f.version = answer.arg
    <3>1. mine \in results
      BY <2>1 DEF GatewayInv, ClientsInv, ClientInv, Definitive
    <3>2. PICK f \in effects : mine.id = [call |-> f.by.call] /\ f.version = mine.answer.arg
      <4> HIDE DEF mine
      <4>1. mine.answer.status = "ok"
        BY <2>0, <2>1
      <4> QED BY <3>1, <4>1 DEF GatewayInv, TableInv
    <3>3. f.by.call = c
      BY <2>0, <3>2
    <3> QED BY <2>0, <3>2, <3>3
  <2>2. ASSUME answer.status = "mismatch", NEW f \in effects, f.by.call = c
        PROVE  FALSE
    <3>1. mine \in results
      BY <2>2 DEF GatewayInv, ClientsInv, ClientInv, Definitive
    <3> DEFINE theirs == ResultOf(c, Reply("ok", f.version))
    <3>2. theirs \in results /\ theirs.id = [call |-> c] /\ theirs.answer.status = "ok"
      BY <2>2 DEF GatewayInv, TableInv, ResultOf, Reply
    <3>3. theirs = mine
      BY <2>0, <3>1, <3>2 DEF GatewayInv, TableInv
    <3> QED BY <2>0, <2>2, <3>2, <3>3
  <2> QED BY <2>1, <2>2
<1> QED BY <1>1, GatewayInvariant, PTL

(* A client that was told of success can rely on the purge being queued.   *)
THEOREM AckedImpliesQueued == Spec => []AckedWritesAreInvalidated
<1>1. GatewayInv => AckedWritesAreInvalidated
  BY DEF GatewayInv, ClientsInv, ClientInv, Queued, AckedWritesAreInvalidated
<1> QED BY <1>1, GatewayInvariant, PTL
=============================================================================
