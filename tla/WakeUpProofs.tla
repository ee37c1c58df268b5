---------------------------- MODULE WakeUpProofs ----------------------------
(***************************************************************************)
(* No path waits in the invalidation queue without a wake-up, for every    *)
(* number of writes, edges and attempts.  A commit begins Enqueue for a    *)
(* write no handler is with yet, so it takes no owed wake-up away.         *)
(***************************************************************************)
EXTENDS CachedReads, TLAPS

SomeWorker == [at : {"idle", "pause", "call", "backoff", "stopped"}, batch : SUBSET Path,
               attempt : Nat, left : SUBSET Endpoint, failed : BOOLEAN]

WakeInv == /\ WakeUpIsOwed
           /\ scope \in Scopes
           /\ record.content \in 0 .. MaxVersion
           /\ pending \subseteq Path
           /\ worker \in SomeWorker
           /\ inv.endpoints \subseteq Endpoint
           /\ writes \in [Version -> WriteState]
           /\ \A n \in Version : n > record.content => writes[n] = "none"

LEMMA Bounds ==
  /\ MaxVersion \in Nat
  /\ \A s \in Scopes : s.commits \in 1 .. MaxVersion
BY CachedReadsAssumption, Zenon DEF Version

LEMMA WorkerShapes ==
  /\ Idle \in SomeWorker /\ Idle.at = "idle"
  /\ [Idle EXCEPT !.at = "stopped"] \in SomeWorker /\ [Idle EXCEPT !.at = "stopped"].at = "stopped"
  /\ inv.endpoints \subseteq Endpoint =>
       \A paths \in SUBSET Path, n \in Nat : Calling(paths, n) \in SomeWorker
BY Zenon DEF Idle, Calling, SomeWorker

LEMMA WakeInit == Init => WakeInv
<1> SUFFICES ASSUME Init PROVE WakeInv
  OBVIOUS
<1>1. inv \in Invalidator
  BY CachedReadsAssumption, Zenon DEF Init, NewQueue
<1>2. inv.endpoints \subseteq Endpoint
  BY <1>1 DEF Invalidator, Noop, HTTPPurge
<1> QED BY <1>2, Bounds, WorkerShapes DEF Init, NewQueue, WakeInv, WakeUpIsOwed, Version, WriteState

LEMMA WakeCommit ==
  ASSUME WakeInv, UNCHANGED scope, NEW live, NEW cacheable, NEW ttl, Commit(live, cacheable, ttl)
  PROVE  WakeInv'
<1> DEFINE n == record.content + 1
<1>1. /\ UNCHANGED <<inv, pending, wake, worker, scope>> /\ n <= scope.commits
      /\ record'.content = n
      /\ writes' = writes \/ \E at \in {"add", "gone"} : writes' = [writes EXCEPT ![n] = at]
  BY DEF Commit, queueVars
<1>2. n \in Version /\ record.content \in Nat /\ n \in 0 .. MaxVersion /\ n > record.content
  BY <1>1, Bounds DEF WakeInv, Version
<1>3. writes[n] = "none"
  BY <1>2 DEF WakeInv
<1>4. /\ writes' \in [Version -> WriteState]
      /\ \A m \in Version : m # n => writes'[m] = writes[m]
  BY <1>1, <1>2 DEF WakeInv, WriteState
<1>5. \A m \in Version : m > n => writes'[m] = "none"
  BY <1>2, <1>4 DEF WakeInv, Version
<1>6. WakeUpIsOwed'
  BY <1>1, <1>3, <1>4 DEF WakeInv, WakeUpIsOwed
<1> QED BY <1>1, <1>2, <1>4, <1>5, <1>6 DEF WakeInv

LEMMA WakeWrite ==
  ASSUME WakeInv, UNCHANGED scope, NEW n \in Version,
         WriteEnqueues(n) \/ WriteWakes(n) \/ WriteRetried(n)
  PROVE  WakeInv'
<1> USE DEF WakeInv
<1>1. /\ UNCHANGED <<inv, record, worker, scope>> /\ writes[n] # "none"
      /\ \E w \in {"add", "wake", "done"} : writes' = [writes EXCEPT ![n] = w]
  BY DEF WriteEnqueues, MayEnqueue, WriteWakes, WriteRetried, EnqueueAdd, EnqueueWake, originVars,
         queueVars
<1>2. /\ writes' \in [Version -> WriteState]
      /\ \A m \in Version : m > record.content => writes'[m] = "none"
  BY <1>1 DEF WriteState
<1>3. pending' \subseteq Path
  <2>1. TheKey \in Path
    BY CachedReadsAssumption DEF TheKey
  <2> QED BY <2>1 DEF WriteEnqueues, WriteWakes, WriteRetried, EnqueueAdd, EnqueueWake, queueVars
<1>4. CASE WriteEnqueues(n)
  <2>1. writes'[n] = "wake"
    BY <1>4 DEF WriteEnqueues
  <2> QED BY <1>1, <1>2, <1>3, <2>1 DEF WakeUpIsOwed
<1>5. CASE WriteWakes(n)
  BY <1>1, <1>2, <1>3, <1>5 DEF WriteWakes, EnqueueWake, WakeUpIsOwed
<1>6. CASE WriteRetried(n)
  <2>1. UNCHANGED <<pending, wake, worker>> /\ writes[n] # "wake" /\ writes' = [writes EXCEPT ![n] = "add"]
    BY <1>6 DEF WriteRetried, queueVars
  <2>2. \A m \in Version : writes[m] = "wake" => writes'[m] = "wake"
    BY <2>1
  <2>3. WakeUpIsOwed'
    BY <2>1, <2>2 DEF WakeUpIsOwed
  <2> QED BY <1>1, <1>2, <1>3, <2>3
<1> QED BY <1>4, <1>5, <1>6

LEMMA WakeWorker ==
  ASSUME WakeInv, UNCHANGED <<scope, record, writes>>,
         \/ Woken \/ TakeBatch \/ Returned \/ BackedOff \/ Stopped
         \/ \E e \in Edge, ok \in BOOLEAN : Call(e, ok)
  PROVE  WakeInv'
<1> USE DEF WakeInv
<1>0. UNCHANGED inv
  BY Zenon DEF Woken, TakeBatch, Returned, BackedOff, Stopped, Call
<1>1. CASE Woken
  <2>1. worker' \in SomeWorker /\ worker'.at = "pause"
    BY <1>1 DEF Woken, SomeWorker
  <2> QED BY <1>0, <1>1, <2>1 DEF Woken, WakeUpIsOwed
<1>2. CASE TakeBatch
  <2>1. worker' \in SomeWorker /\ pending' = {}
    BY <1>2, WorkerShapes DEF TakeBatch
  <2> QED BY <1>0, <2>1 DEF WakeUpIsOwed
<1>3. CASE Returned
  <2>1. worker' \in SomeWorker /\ worker.at = "call" /\ UNCHANGED <<pending, wake>>
    BY <1>3, WorkerShapes DEF Returned, SomeWorker
  <2> QED BY <1>0, <2>1 DEF WakeUpIsOwed
<1>4. CASE BackedOff
  <2>1. worker.attempt + 1 \in Nat /\ worker.batch \in SUBSET Path
    BY DEF SomeWorker
  <2>2. worker' \in SomeWorker /\ worker.at = "backoff" /\ UNCHANGED <<pending, wake>>
    BY <1>4, <2>1, WorkerShapes DEF BackedOff
  <2> QED BY <1>0, <2>2 DEF WakeUpIsOwed
<1>5. CASE Stopped
  <2>1. worker' \in SomeWorker /\ worker'.at = "stopped" /\ UNCHANGED pending
    BY <1>5, WorkerShapes DEF Stopped
  <2> QED BY <1>0, <2>1 DEF WakeUpIsOwed
<1>6. CASE \E e \in Edge, ok \in BOOLEAN : Call(e, ok)
  <2>1. PICK e \in Edge, ok \in BOOLEAN : Call(e, ok)
    BY <1>6
  <2>2. (worker.failed \/ ~ok) \in BOOLEAN
    OBVIOUS
  <2>3. worker' \in SomeWorker /\ worker.at = "call" /\ UNCHANGED <<pending, wake>>
    BY <2>1, <2>2, Zenon DEF Call, SomeWorker
  <2> QED BY <1>0, <2>3 DEF WakeUpIsOwed
<1> QED BY <1>1, <1>2, <1>3, <1>4, <1>5, <1>6

LEMMA WakeUntouched ==
  ASSUME WakeInv, UNCHANGED <<scope, record, writes, inv, pending, wake, worker>>
  PROVE  WakeInv'
BY DEF WakeInv, WakeUpIsOwed

LEMMA WakeStep == WakeInv /\ [Next]_vars => WakeInv'
<1> SUFFICES ASSUME WakeInv, [Next]_vars PROVE WakeInv'
  OBVIOUS
<1>0. UNCHANGED scope
  BY DEF Next, vars
<1>1. CASE Put \/ Delete
  BY <1>0, <1>1, WakeCommit, Zenon DEF Put, Delete
<1>2. CASE \E n \in Version : WriteEnqueues(n) \/ WriteWakes(n) \/ WriteRetried(n)
  BY <1>0, <1>2, WakeWrite
<1>3. CASE WorkerStep \/ NodeStops
  <2>1. UNCHANGED <<record, writes>>
    BY <1>3, Zenon DEF WorkerStep, NodeStops, WorkerWoken, WorkerTakes, WorkerPurges, WorkerRefused,
                WorkerReturned, WorkerBackedOff, originVars
  <2>2. \/ Woken \/ TakeBatch \/ Returned \/ BackedOff \/ Stopped
        \/ \E e \in Edge, ok \in BOOLEAN : Call(e, ok)
    BY <1>3, Zenon DEF WorkerStep, NodeStops, WorkerWoken, WorkerTakes, WorkerPurges, WorkerRefused,
                WorkerReturned, WorkerBackedOff
  <2> QED BY <1>0, <2>1, <2>2, WakeWorker
<1>4. CASE \/ Tick
           \/ \E r \in Handler : EdgeStep(r)
           \/ \E e \in scope.edges : EdgeFlush(e) \/ OtherNodePurges(e)
           \/ \E e \in Edge : DelayOver(e)
           \/ UNCHANGED vars
  <2>1. UNCHANGED <<record, writes, inv, pending, wake, worker>>
    BY <1>4 DEF Tick, EdgeStep, EdgeFlush, DelayOver, OtherNodePurges, vars, originVars, queueVars
  <2> QED BY <1>0, <2>1, WakeUntouched
<1> QED BY <1>1, <1>2, <1>3, <1>4 DEF Next, Step

(* No path waits for ever in Queue.pending: the non-blocking send of       *)
(* Enqueue may find the channel full, but then the token already in it, or *)
(* the worker on its way to the set, takes the path along.                 *)
THEOREM PendingPathsAreOwedAWakeUp == Spec => []WakeUpIsOwed
<1>1. Init => WakeInv
  BY WakeInit
<1>2. WakeInv /\ [Next]_vars => WakeInv'
  BY WakeStep
<1>3. WakeInv => WakeUpIsOwed
  BY DEF WakeInv
<1> QED BY <1>1, <1>2, <1>3, PTL DEF Spec
=============================================================================
