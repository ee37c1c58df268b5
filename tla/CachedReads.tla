---------------------------- MODULE CachedReads ----------------------------
(***************************************************************************)
(* Cached reads end to end, for one key of a cacheable namespace: writes   *)
(* committed by the gateway, the invalidation queue of the node that       *)
(* served them, and the edge caches that answer GET /v1/cache/k.  The      *)
(* gateway reads linearizably, so its answer to a fetch is that of the     *)
(* record at one instant between the call and the return.                  *)
(***************************************************************************)
EXTENDS EdgeCache, InvalidationQueue, FiniteSetsExt

CONSTANTS RequestedTtl,   \* TTLSeconds of a put's cache policy; 0: not given
          DefaultTtl, MaxTtl,
          DelayedEdge,    \* edges run with -invalidation-delay
          Scopes          \* bounds: the scope of a behaviour is one of these

TheKey == CHOOSE p \in Path : TRUE
Version == 1 .. MaxVersion

ASSUME CachedReadsAssumption ==
  /\ Endpoint = Edge /\ Edge # {} /\ Path # {}
  /\ DelayedEdge \subseteq Edge
  /\ MaxVersion \in Nat /\ MaxHandlers \in Nat /\ MaxClock \in Nat
  /\ Year \in Nat /\ Year > MaxClock
  /\ RequestedTtl \subseteq Nat /\ DefaultTtl \in Nat \ {0} /\ MaxTtl \in Nat \ {0}
  /\ AskedVersion \subseteq 1 .. MaxVersion
  /\ Scopes \subseteq [inv : Invalidator, writes : SUBSET {"plain", "cacheable", "delete"},
                       edges : SUBSET Edge, urls : SUBSET Url, commits : Version, watch : Version,
                       handlers : 0 .. MaxHandlers, ticks : 0 .. MaxClock,
                       asked : SUBSET RequestedTtl]

VARIABLES scope,     \* the bounds of the behaviour: it never changes
          record,    \* the committed record of the key
          past,      \* history: the contents the key has had
          clock,
          writes,    \* how far the handler of each write is with Enqueue
          due,       \* AfterFunc timers of delayed purges
          ghost      \* history: purges and reads

originVars == <<record, past>>
vars == <<edgeVars, queueVars, scope, originVars, clock, writes, due, ghost>>

(* content numbers the committed writes, so two different values of the    *)
(* key have different contents whatever their versions.                    *)
Record == [version : 0 .. MaxVersion, content : 0 .. MaxVersion,
           live : BOOLEAN, cacheable : BOOLEAN, ttl : Nat]

Always == MaxClock + 1

(* until: when a content stopped being current; ttlOf: the TTL it was      *)
(* written with.                                                           *)
Past == [until : [Version -> 0 .. Always], ttlOf : [Version -> Nat]]

(* bodies: what reads of a versioned URL got; queued: the newest write     *)
(* enqueued; batch: the newest one in the worker's batch; lost: the newest *)
(* one in a batch that was given up; reached: the newest one whose purge   *)
(* took effect at an edge; overtaken: the handlers that held an older      *)
(* answer of the origin when it did; refilled: the entries they stored.    *)
Ghost == [bodies : [AskedVersion -> SUBSET Version],
          queued : 0 .. MaxVersion, batch : 0 .. MaxVersion, lost : 0 .. MaxVersion,
          reached : [Edge -> 0 .. MaxVersion],
          overtaken : SUBSET Handler, refilled : SUBSET Object]

(* What the handler of a write is about to do: nothing, as no handler of   *)
(* this node knows of the write, or as it gave up waiting; the two halves  *)
(* of Enqueue; or nothing more.                                            *)
WriteState == {"none", "gone", "add", "wake", "done"}

TypeOK == /\ EdgeType
          /\ QueueType
          /\ scope \in Scopes
          /\ record \in Record
          /\ past \in Past
          /\ clock \in 0 .. MaxClock
          /\ writes \in [Version -> WriteState]
          /\ due \in [Edge -> SUBSET (0 .. MaxVersion)]
          /\ ghost \in Ghost

Init == /\ EdgeStarts
        /\ scope \in Scopes
        /\ NewQueue(scope.inv)
        /\ record = [version |-> 0, content |-> 0, live |-> FALSE, cacheable |-> FALSE, ttl |-> 0]
        /\ clock = 0
        /\ writes = [n \in Version |-> "none"]
        /\ due = [e \in Edge |-> {}]
        /\ past = [until |-> [n \in Version |-> Always], ttlOf |-> [n \in Version |-> 0]]
        /\ ghost = [bodies |-> [v \in AskedVersion |-> {}],
                    queued |-> 0, batch |-> 0, lost |-> 0, reached |-> [e \in Edge |-> 0],
                    overtaken |-> {}, refilled |-> {}]

Tick == /\ clock < scope.ticks
        /\ clock' = clock + 1
        /\ UNCHANGED <<edgeVars, queueVars, originVars, writes, due, ghost>>

-----------------------------------------------------------------------------
(* The gateway: writes.                                                    *)

(* handlePut's TTL of a cacheable put. *)
TtlSeconds(asked) == IF asked = 0 THEN DefaultTtl ELSE Min({Max({asked, 1}), MaxTtl})

(* The mutant whose re-created key starts its versions over. *)
NextVersionReset == IF record.live THEN record.version + 1 ELSE 1

(* The version a committed write gets, also across a delete. *)
NextVersion == record.version + 1

(* write n is committed and applied.  Its handler at this node waits for   *)
(* the result and goes on to Enqueue, or it is gone: its context ended or  *)
(* the node lost the leadership, and it answered 503 or forwarded without  *)
(* an Enqueue.  Once the node has stopped, another leader commits.         *)
Commit(live, cacheable, ttl) ==
  LET n == record.content + 1 IN
  /\ n <= scope.commits
  /\ record' = [version |-> NextVersion, content |-> n,
                live |-> live, cacheable |-> cacheable, ttl |-> ttl]
  /\ \/ Accepts /\ \E at \in {"add", "gone"} : writes' = [writes EXCEPT ![n] = at]
     \/ ~Accepts /\ UNCHANGED writes
  /\ past' = [until |-> [m \in Version |-> IF m = record.content THEN clock ELSE past.until[m]],
              ttlOf |-> [past.ttlOf EXCEPT ![n] = ttl]]
  /\ UNCHANGED <<edgeVars, queueVars, clock, due, ghost>>

Put == \/ "plain" \in scope.writes /\ Commit(TRUE, FALSE, 0)
       \/ /\ "cacheable" \in scope.writes
          /\ \E asked \in scope.asked : Commit(TRUE, TRUE, TtlSeconds(asked))

(* A delete of a key that exists; of one that does not, nothing changes. *)
Delete == "delete" \in scope.writes /\ record.live /\ Commit(FALSE, FALSE, 0)

(* The mutant that enqueues while the next write is still to be committed. *)
MayEnqueueEarly(n) == writes[n] = "add" \/ (n = record.content + 1 /\ writes[n] = "none")

(* "Invalidate only after the write is committed." *)
MayEnqueue(n) == writes[n] = "add"

(* The two halves of Enqueue, in the handler of write n. *)
WriteEnqueues(n) == /\ MayEnqueue(n)
                    /\ worker.at # "stopped"
                    /\ EnqueueAdd(TheKey)
                    /\ writes' = [writes EXCEPT ![n] = "wake"]
                    /\ ghost' = [ghost EXCEPT !.queued = Max({@, n})]
                    /\ UNCHANGED <<edgeVars, originVars, clock, due>>

WriteWakes(n) == /\ writes[n] = "wake"
                 /\ worker.at # "stopped"
                 /\ EnqueueWake
                 /\ writes' = [writes EXCEPT ![n] = "done"]
                 /\ UNCHANGED <<edgeVars, originVars, clock, due, ghost>>

(* A retry of a committed write is answered from the dedup table with the  *)
(* same status, so its handler enqueues the path, once more or at last.    *)
WriteRetried(n) == /\ writes[n] \in {"done", "gone"}
                   /\ worker.at # "stopped"
                   /\ writes' = [writes EXCEPT ![n] = "add"]
                   /\ UNCHANGED <<edgeVars, queueVars, originVars, clock, due, ghost>>

-----------------------------------------------------------------------------
(* The gateway: GET /v1/kv/k and GET /v1/cache/k.                          *)

MaxAge(u) == IF u.kind = "versioned" THEN Year ELSE record.ttl

Ok(ttl) == [status |-> "ok", version |-> record.version, content |-> record.content, ttl |-> ttl]

(* handleGet: never cacheable. *)
KvGet == IF record.live THEN Ok(0) ELSE Refused

(* handleCacheGet: refusals are no-store; a matching ETag is answered 304. *)
CacheGet(u, match) ==
  IF ~record.live \/ ~record.cacheable \/ (u.kind = "versioned" /\ u.v # record.version)
  THEN Refused
  ELSE IF match = record.version
       THEN [NoAnswer EXCEPT !.status = "notModified", !.ttl = MaxAge(u)]
       ELSE Ok(MaxAge(u))

OriginAnswer(r) ==
  IF requests[r].url.kind = "kv" THEN KvGet ELSE CacheGet(requests[r].url, Conditional(r))

Cached == {cache[e][u] : e \in Edge, u \in CacheUrl} \ {NoEntry}

(* What the properties remember when the handler of r responds. *)
Remember(r) ==
  LET url == requests[r].url IN
  ghost' = [ghost EXCEPT
    !.bodies = [v \in AskedVersion |->
                  @[v] \cup {c \in {Response(r).body} \ {0} :
                             url.kind = "versioned" /\ url.v = v}],
    !.overtaken = @ \ {r},
    !.refilled = {o \in Cached' : o \in @ \/ (o \notin Cached /\ r \in ghost.overtaken)}]

EdgeStep(r) ==
  /\ \/ /\ \/ /\ r <= scope.handlers
              /\ \E e \in scope.edges, u \in scope.urls : Handle(r, e, u, clock)
           \/ Lookup(r)
           \/ GoToOrigin(r)
           \/ Fetch(r, OriginAnswer(r))
           \/ Fetch(r, Refused)        \* 421 or 503: no leader to be found
           \/ Fetch(r, FetchError)
        /\ UNCHANGED ghost
     \/ /\ \/ ServeHit(r)
           \/ PassOn(r)
           \/ FetchFailed(r)
           \/ Renew(r, clock)
           \/ Fill(r)
           \/ PassUncached(r)
        /\ Remember(r)
  /\ UNCHANGED <<queueVars, originVars, clock, writes, due>>

EdgeFlush(e) == /\ Flush(e)
                /\ ghost' = [ghost EXCEPT !.refilled = @ \cap Cached']
                /\ UNCHANGED <<queueVars, originVars, clock, writes, due>>

-----------------------------------------------------------------------------
(* The worker of the queue, and what its calls do at the edges.            *)

WorkerWoken == Woken /\ UNCHANGED <<edgeVars, originVars, clock, writes, due, ghost>>

WorkerTakes ==
  /\ TakeBatch
  /\ ghost' = [ghost EXCEPT !.batch = IF pending = {} THEN @ ELSE ghost.queued]
  /\ UNCHANGED <<edgeVars, originVars, clock, writes, due>>

(* A purge that covers the writes up to n takes effect at e. *)
TakesEffect(e, n) ==
  /\ Purge(e)
  /\ ghost' = [ghost EXCEPT
       !.reached[e] = Max({@, n}),
       !.overtaken = @ \cup {r \in Handler : /\ At(r, "answered") /\ requests[r].edge = e
                                             /\ requests[r].answer.content < n},
       !.refilled = @ \cap Cached']

(* The edge accepts the purge, now or after its delay; its answer may be   *)
(* lost on the way back, and then the worker counts a failure.             *)
WorkerPurges(e, heard) ==
  /\ Call(e, heard)
  /\ IF e \in DelayedEdge
     THEN due' = [due EXCEPT ![e] = @ \cup {ghost.batch}] /\ UNCHANGED <<edgeVars, ghost>>
     ELSE TakesEffect(e, ghost.batch) /\ UNCHANGED due
  /\ UNCHANGED <<originVars, clock, writes>>

(* The call does not reach the edge, or the edge refuses it. *)
WorkerRefused(e) == Call(e, FALSE) /\ UNCHANGED <<edgeVars, originVars, clock, writes, due, ghost>>

WorkerReturned == Returned /\ UNCHANGED <<edgeVars, originVars, clock, writes, due, ghost>>

WorkerBackedOff ==
  /\ BackedOff
  /\ ghost' = [ghost EXCEPT !.lost = IF GivesUp THEN Max({@, ghost.batch}) ELSE @]
  /\ UNCHANGED <<edgeVars, originVars, clock, writes, due>>

(* Queue.Stop; a crash of the node loses the queue in the same way.  With  *)
(* Noop there is nothing to lose.                                          *)
NodeStops == /\ inv # Noop
             /\ Stopped
             /\ UNCHANGED <<edgeVars, originVars, clock, writes, due, ghost>>

DelayOver(e) == \E n \in due[e] : /\ TakesEffect(e, n)
                                  /\ due' = [due EXCEPT ![e] = @ \ {n}]
                                  /\ UNCHANGED <<queueVars, originVars, clock, writes>>

WorkerStep == \/ WorkerWoken
              \/ WorkerTakes
              \/ \E e \in Edge : \/ \E heard \in BOOLEAN : WorkerPurges(e, heard)
                                 \/ WorkerRefused(e)
              \/ WorkerReturned
              \/ WorkerBackedOff

(* The queue of another node, which led the shard before or after this     *)
(* one, purges the key.  Nothing is claimed of what that purge covers.     *)
OtherNodePurges(e) == /\ TakesEffect(e, 0)
                      /\ UNCHANGED <<queueVars, originVars, clock, writes, due>>

Step == \/ Tick
        \/ Put
        \/ Delete
        \/ \E n \in Version : WriteEnqueues(n) \/ WriteWakes(n) \/ WriteRetried(n)
        \/ \E r \in Handler : EdgeStep(r)
        \/ \E e \in scope.edges : EdgeFlush(e) \/ OtherNodePurges(e)
        \/ \E e \in Edge : DelayOver(e)
        \/ WorkerStep
        \/ NodeStops

Next == Step /\ UNCHANGED scope

(* The goroutines run: a write's handler, the worker, whose calls return   *)
(* within their 5 s timeout whatever the edge does, and the timers.        *)
Fairness == /\ \A n \in Version : /\ WF_vars(WriteEnqueues(n) /\ UNCHANGED scope)
                                  /\ WF_vars(WriteWakes(n) /\ UNCHANGED scope)
            /\ WF_vars(WorkerStep /\ UNCHANGED scope)
            /\ \A e \in Edge : WF_vars(DelayOver(e) /\ UNCHANGED scope)

Spec == Init /\ [][Next]_vars /\ Fairness

-----------------------------------------------------------------------------

(* A body is within its bound when it was current at some time later than  *)
(* the request's start less the TTL it was written with; one that comes    *)
(* straight from the origin, when the request began or later.              *)
Bounded(r) ==
  LET q == requests[r]  body == Response(r).body IN
  \/ body = 0 \/ q.url.kind = "versioned"
  \/ q.now < past.until[body] + past.ttlOf[body]
  \/ Response(r).how = "Pass" /\ q.now = past.until[body]

(* Bounded staleness (architecture.md: "at most the key's TTL"): whatever  *)
(* the interleaving of fills, renewals, purges and writes, no read that is *)
(* answered from a fresh, renewed or new entry of /v1/cache/k, or through  *)
(* the edge from /v1/kv/k, gets a body beyond its bound.                   *)
BoundedStaleness == \A r \in Handler : Response(r).how # "Stale" => Bounded(r)

(* The documented bound for every read, also for the "Stale" answers that  *)
(* main.go gives from an entry of any age while the origin is down.        *)
EveryReadIsBounded == \A r \in Handler : Bounded(r)

(* A versioned URL is immutable: all reads of /v1/cache/k?v=n that get a   *)
(* body, from whatever edge and at whatever time, get the same one.        *)
VersionedReadsAgree ==
  \A v \in AskedVersion : \A b, c \in ghost.bodies[v] : b = c

(* "Invalidate only after the write is committed.  The other order would   *)
(* let the CDN re-fetch and re-cache the old value in between": once a     *)
(* purge that was queued for a write has taken effect at an edge, at once  *)
(* or after the edge's delay, the edge holds nothing older under the key's *)
(* path, unless a handler had its answer from the origin before the purge  *)
(* and stored it after.  Of an escaped spelling this cannot be said: no    *)
(* purge ever matches it.                                                  *)
PurgeIsEffective ==
  \A e \in Edge, u \in CacheUrl : LET o == cache[e][u] IN
    u.spelt = "path" /\ o # NoEntry =>
      entries[o].content >= ghost.reached[e] \/ o \in ghost.refilled

(* The dropped send of Enqueue is harmless: while a path is pending, a     *)
(* token is in the channel, or a handler is about to send one, or the      *)
(* worker has yet to look at the set.                                      *)
WakeUpIsOwed ==
  pending # {} => \/ wake
                  \/ \E n \in Version : writes[n] = "wake"
                  \/ worker.at \in {"pause", "stopped"}

(* No wake-up is lost and no batch is forgotten: when a handler has heard  *)
(* that its write is committed (any write: the behaviour's scope names it) *)
(* the purge takes effect at every endpoint, or its batch was given up     *)
(* after the last attempt, or the node stopped.  A write whose handler is  *)
(* gone when it commits is not purged unless the client retries it; only   *)
(* the TTL bounds how long reads may miss it (BoundedStaleness).           *)
Settled(n) == \/ worker.at = "stopped"
              \/ ghost.lost >= n
              \/ \A e \in inv.endpoints : ghost.reached[e] >= n

InvalidationHappens == (writes[scope.watch] = "add") ~> Settled(scope.watch)

=============================================================================
