------------------------- MODULE CachedReadsProofs --------------------------
(***************************************************************************)
(* Reads through the edge are bounded by the TTL, for every number of      *)
(* edges, handlers, versions and clock values.                             *)
(***************************************************************************)
EXTENDS StalenessSteps

LEMMA TakesEffectKeeps ==
  ASSUME StalenessInv, UNCHANGED <<record, past, clock, scope>>, NEW e \in Edge, NEW n,
         TakesEffect(e, n)
  PROVE  StalenessInv'
BY PurgeKeeps DEF TakesEffect

LEMMA WorkerStepKeeps ==
  ASSUME StalenessInv, UNCHANGED scope, WorkerStep
  PROVE  StalenessInv'
<1>0. UNCHANGED <<record, past, clock, scope>>
  BY Zenon DEF WorkerStep, WorkerWoken, WorkerTakes, WorkerPurges, WorkerRefused, WorkerReturned,
         WorkerBackedOff, originVars
<1>1. CASE \E e \in Edge, heard \in BOOLEAN : WorkerPurges(e, heard)
  <2>1. PICK e \in Edge, heard \in BOOLEAN : WorkerPurges(e, heard)
    BY <1>1
  <2>2. UNCHANGED edgeVars \/ TakesEffect(e, ghost.batch)
    BY <2>1 DEF WorkerPurges
  <2> QED BY <1>0, <2>2, UntouchedKeeps, TakesEffectKeeps DEF edgeVars
<1>2. CASE UNCHANGED edgeVars
  BY <1>0, <1>2, UntouchedKeeps DEF edgeVars
<1>3. (\E e \in Edge, heard \in BOOLEAN : WorkerPurges(e, heard)) \/ UNCHANGED edgeVars
  BY Zenon DEF WorkerStep, WorkerWoken, WorkerTakes, WorkerRefused, WorkerReturned, WorkerBackedOff
<1> QED BY <1>1, <1>2, <1>3

LEMMA StalenessInit == Init => StalenessInv
<1> SUFFICES ASSUME Init PROVE StalenessInv
  OBVIOUS
<1>1. EdgeStarts
  BY DEF Init
<1>2. (CHOOSE e \in Edge : TRUE) \in Edge
  BY CachedReadsAssumption
<1>3. [kind |-> "kv", v |-> 0, spelt |-> "path"] \in Url /\ NoEntry \in Nat
  BY Constants DEF Url
<1>4. /\ NoRequest \in SomeRequest
      /\ NoRequest.at = "free" /\ NoRequest.ent = NoEntry /\ NoRequest.now = 0
      /\ NoRequest.url.kind = "kv" /\ NoRequest.answer = NoAnswer
  BY <1>2, <1>3, AnswerShapes DEF NoRequest, SomeRequest
<1>5. EdgeShape
  BY <1>1, <1>4, GarbageShape DEF EdgeStarts, EdgeShape
<1>6. OriginInv
  BY Constants DEF Init, OriginInv, Version
<1>7. ASSUME NEW o \in Object, NEW kind PROVE ~Held(kind, o)
  BY <1>1, <1>4, Constants DEF EdgeStarts, Held
<1>8. \A o \in Object : EntryInv(o)
  BY <1>7 DEF EntryInv
<1>9. ASSUME NEW r \in Handler PROVE RequestInv(r)
  <2>1. requests[r] = NoRequest /\ clock = 0
    BY <1>1 DEF EdgeStarts, Init
  <2> QED BY <1>4, <2>1, AnswerShapes DEF RequestInv
<1> QED BY <1>5, <1>6, <1>8, <1>9 DEF StalenessInv

LEMMA StalenessStep == StalenessInv /\ [Next]_vars => StalenessInv'
<1> SUFFICES ASSUME StalenessInv, [Next]_vars PROVE StalenessInv'
  OBVIOUS
<1>0. UNCHANGED scope
  BY DEF Next, vars
<1>1. CASE Tick
  BY <1>0, <1>1, TickKeeps
<1>2. CASE Put
  <2>1. CASE Commit(TRUE, FALSE, 0)
    BY <1>0, <2>1, CommitKeeps, Zenon
  <2>2. CASE \E asked \in scope.asked : Commit(TRUE, TRUE, TtlSeconds(asked))
    <3>1. PICK asked \in scope.asked : Commit(TRUE, TRUE, TtlSeconds(asked))
      BY <2>2, Zenon
    <3>2. asked \in Nat
      BY Constants DEF StalenessInv, OriginInv
    <3>3. TtlSeconds(asked) \in Nat /\ TtlSeconds(asked) > 0
      BY <3>2, TtlPositive
    <3> QED BY <1>0, <3>1, <3>3, CommitKeeps, Zenon
  <2> QED BY <1>2, <2>1, <2>2, Zenon DEF Put
<1>3. CASE Delete
  <2>1. Commit(FALSE, FALSE, 0)
    BY <1>3, Zenon DEF Delete
  <2> QED BY <1>0, <2>1, CommitKeeps, Zenon
<1>4. CASE \E n \in Version : WriteEnqueues(n) \/ WriteWakes(n) \/ WriteRetried(n)
  BY <1>0, <1>4, UntouchedKeeps DEF WriteEnqueues, WriteWakes, WriteRetried, edgeVars, originVars
<1>5. CASE \E r \in Handler : EdgeStep(r)
  BY <1>0, <1>5, EdgeStepKeeps
<1>6. CASE \/ \E e \in scope.edges : EdgeFlush(e) \/ OtherNodePurges(e)
           \/ \E e \in Edge : DelayOver(e)
  <2>1. PICK e \in scope.edges \cup Edge : EdgeFlush(e) \/ OtherNodePurges(e) \/ DelayOver(e)
    BY <1>6
  <2>2. e \in Edge /\ UNCHANGED <<record, past, clock, scope>>
    BY <1>0, <2>1, Constants
       DEF StalenessInv, OriginInv, EdgeFlush, DelayOver, OtherNodePurges, originVars
  <2>3. Flush(e) \/ \E n : TakesEffect(e, n)
    BY <2>1 DEF EdgeFlush, DelayOver, OtherNodePurges
  <2> QED BY <2>2, <2>3, PurgeKeeps, TakesEffectKeeps
<1>7. CASE WorkerStep
  BY <1>0, <1>7, WorkerStepKeeps
<1>8. CASE NodeStops
  BY <1>0, <1>8, UntouchedKeeps DEF NodeStops, edgeVars, originVars
<1>9. CASE UNCHANGED vars
  BY <1>9, UntouchedKeeps DEF vars, edgeVars, originVars
<1> QED BY <1>1, <1>2, <1>3, <1>4, <1>5, <1>6, <1>7, <1>8, <1>9 DEF Next, Step

(* What the invariant says of the body of each kind of answer. *)
LEMMA InvBoundsReads == StalenessInv => BoundedStaleness
<1> SUFFICES ASSUME StalenessInv, NEW r \in Handler, Response(r).how # "Stale" PROVE Bounded(r)
  BY DEF BoundedStaleness
<1> DEFINE q == requests[r]
<1>0. /\ q \in SomeRequest /\ q.now \in Nat /\ q.url \in Url /\ q.ent \in Object \cup {NoEntry}
      /\ RequestInv(r)
  BY DEF StalenessInv, EdgeShape, SomeRequest
<1>1. q.url.kind \in {"kv", "latest", "versioned"}
  BY <1>0, Constants
<1>2. ASSUME NEW c, Known(c) PROVE past.until[c] \in Nat /\ past.ttlOf[c] \in Nat
  BY <1>2, Numbers DEF StalenessInv
<1>3. ASSUME q.url.kind = "latest", q.ent # NoEntry
      PROVE  LET x == entries[q.ent] IN
             /\ Known(x.content) /\ x.ttl = past.ttlOf[x.content] /\ x.ttl > 0
             /\ x.expires \in Nat /\ x.expires <= past.until[x.content] + x.ttl
  <2>1. q.ent \in Object /\ Held("latest", q.ent)
    BY <1>0, <1>3 DEF Held
  <2>2. entries[q.ent] \in SomeEntry /\ EntryInv(q.ent)
    BY <2>1 DEF StalenessInv, EdgeShape
  <2> QED BY <2>1, <2>2 DEF EntryInv, SomeEntry
<1>4. CASE q.url.kind = "versioned"
  BY <1>4 DEF Bounded
<1>5. CASE q.url.kind # "versioned" /\ At(r, "compare") /\ IsFresh(r)
  <2>1. Response(r).body = entries[q.ent].content /\ q.ent # NoEntry /\ q.now < entries[q.ent].expires
    BY <1>5 DEF Response, IsFresh, Body, At, Caching
  <2>2. q.url.kind = "latest"
    BY <1>0, <1>1, <1>5 DEF RequestInv, At
  <2>3. q.now < past.until[Response(r).body] + past.ttlOf[Response(r).body]
    <3>1. /\ Known(entries[q.ent].content) /\ entries[q.ent].expires \in Nat
          /\ entries[q.ent].expires <= past.until[entries[q.ent].content] + past.ttlOf[entries[q.ent].content]
      BY <1>3, <2>1, <2>2
    <3> HIDE DEF q
    <3> QED BY <1>0, <1>2, <2>1, <3>1
  <2> QED BY <2>3 DEF Bounded
<1>6. CASE At(r, "answered") /\ q.url.kind = "kv"
  <2>1. Response(r).body = q.answer.content /\ Response(r).how = "Pass"
    BY <1>6 DEF Response, At, Caching
  <2>2. CASE q.answer.status = "ok"
    <3>1. Known(q.answer.content) /\ q.now <= past.until[q.answer.content]
      BY <1>0, <1>6, <2>2 DEF RequestInv
    <3>2. \/ q.now < past.until[Response(r).body] + past.ttlOf[Response(r).body]
          \/ q.now = past.until[Response(r).body]
      <4> HIDE DEF q
      <4> QED BY <1>0, <1>2, <2>1, <3>1
    <3> QED BY <2>1, <3>2 DEF Bounded
  <2>3. CASE q.answer.status # "ok"
    BY <1>0, <2>1, <2>3 DEF RequestInv, Bounded
  <2> QED BY <2>2, <2>3
<1>7. CASE At(r, "answered") /\ q.url.kind = "latest" /\ q.answer.status # "error" /\ Renewable(q)
  <2>1. Response(r).body = entries[q.ent].content /\ q.ent # NoEntry
    BY <1>7 DEF Response, At, Caching, Renewable, Body
  <2>2. q.now <= past.until[entries[q.ent].content]
    BY <1>0, <1>7, <2>1 DEF RequestInv, Renewable
  <2>3. Known(entries[q.ent].content) /\ past.ttlOf[entries[q.ent].content] > 0
    BY <1>3, <1>7, <2>1
  <2>4. q.now < past.until[Response(r).body] + past.ttlOf[Response(r).body]
    <3> HIDE DEF q
    <3> QED BY <1>0, <1>2, <2>1, <2>2, <2>3
  <2> QED BY <2>4 DEF Bounded
<1>8. CASE At(r, "answered") /\ q.url.kind = "latest" /\ q.answer.status # "error" /\ ~Renewable(q)
  <2>1. Response(r).body = q.answer.content
    BY <1>8 DEF Response, At, Caching
  <2>2. CASE q.answer.status = "ok"
    <3>1. /\ Known(q.answer.content) /\ q.now <= past.until[q.answer.content]
          /\ past.ttlOf[q.answer.content] > 0
      BY <1>0, <1>8, <2>2 DEF RequestInv
    <3>2. q.now < past.until[Response(r).body] + past.ttlOf[Response(r).body]
      <4> HIDE DEF q
      <4> QED BY <1>0, <1>2, <2>1, <3>1
    <3> QED BY <3>2 DEF Bounded
  <2>3. CASE q.answer.status # "ok"
    BY <1>0, <2>1, <2>3 DEF RequestInv, Bounded
  <2> QED BY <2>2, <2>3
<1>9. CASE At(r, "answered") /\ q.url.kind = "latest" /\ q.answer.status = "error"
  BY <1>9 DEF Response, At, Caching, Renewable
<1>10. CASE ~At(r, "answered") /\ ~(At(r, "compare") /\ IsFresh(r))
  BY <1>10 DEF Response, Caching, Bounded
<1> QED BY <1>1, <1>4, <1>5, <1>6, <1>7, <1>8, <1>9, <1>10

(* Reads through the edge are bounded by the TTL: whatever fills, renewals *)
(* and purges of handle and handleInvalidate interleave with the writes,   *)
(* no Hit, RefreshHit, Miss or Pass has a body that stopped being current  *)
(* a TTL or more before its request began.                                 *)
THEOREM ReadsAreBounded == Spec => []BoundedStaleness
<1>1. Init => StalenessInv
  BY StalenessInit
<1>2. StalenessInv /\ [Next]_vars => StalenessInv'
  BY StalenessStep
<1>3. StalenessInv => BoundedStaleness
  BY InvBoundsReads
<1> QED BY <1>1, <1>2, <1>3, PTL DEF Spec
=============================================================================
