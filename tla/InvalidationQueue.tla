------------------------- MODULE InvalidationQueue -------------------------
(***************************************************************************)
(* The invalidation queue of internal/cdn: writers put the path of a key   *)
(* they changed into a set and wake a single background goroutine, which   *)
(* takes the whole set as one batch and asks every endpoint to drop it,    *)
(* up to MaxAttempts times.  An operation is here what it does to the      *)
(* queue; what a call does to an endpoint is the business of the module    *)
(* that composes the two (CachedReads).                                    *)
(***************************************************************************)
EXTENDS Naturals

CONSTANTS Path,         \* the paths that can be invalidated
          Endpoint,     \* the endpoints an invalidator may be given
          MaxAttempts   \* attempts per batch, 4 in the code

ASSUME AttemptsAssumption == MaxAttempts \in Nat \ {0}

VARIABLES inv,      \* Queue.inv, chosen at the start by newInvalidator
          pending,  \* Queue.pending
          wake,     \* Queue.wake, a channel of capacity one, as "holds a token"
          worker    \* the goroutine Queue.run

queueVars == <<inv, pending, wake, worker>>

Worker == [at : {"idle", "pause", "call", "backoff", "stopped"},
           batch : SUBSET Path,        \* the local variable paths
           attempt : 0 .. MaxAttempts,
           left : SUBSET Endpoint,     \* endpoints this attempt has yet to call
           failed : BOOLEAN]           \* Invalidate's firstErr # nil

Idle == [at |-> "idle", batch |-> {}, attempt |-> 0, left |-> {}, failed |-> FALSE]

Calling(paths, n) ==
  [at |-> "call", batch |-> paths, attempt |-> n, left |-> inv.endpoints, failed |-> FALSE]

Noop == [kind |-> "none", endpoints |-> {}]
HTTPPurge(endpoints) == [kind |-> "edge", endpoints |-> endpoints]

Invalidator == {Noop} \cup {HTTPPurge(endpoints) : endpoints \in SUBSET Endpoint}

QueueType == /\ inv \in Invalidator
             /\ pending \subseteq Path
             /\ wake \in BOOLEAN
             /\ worker \in Worker

NewQueue(i) == /\ inv = i
               /\ pending = {}
               /\ wake = FALSE
               /\ worker = Idle

(* Enqueue does nothing for Noop, and there is none once the node is down. *)
Accepts == inv # Noop /\ worker.at # "stopped"

(* Enqueue, first half: the path joins the set under the mutex. *)
EnqueueAdd(p) == /\ pending' = pending \cup {p}
                 /\ UNCHANGED <<inv, wake, worker>>

(* The mutant with an unbuffered channel: a send while the worker is busy  *)
(* is dropped.                                                             *)
EnqueueWakeUnbuffered == /\ wake' = (wake \/ worker.at = "idle")
                         /\ UNCHANGED <<inv, pending, worker>>

(* Enqueue, second half: a send that is dropped when the channel is full. *)
EnqueueWake == /\ wake' = TRUE
               /\ UNCHANGED <<inv, pending, worker>>

(* run receives the token and pauses, so that a burst shares one call. *)
Woken == /\ worker.at = "idle"
         /\ wake
         /\ wake' = FALSE
         /\ worker' = [worker EXCEPT !.at = "pause"]
         /\ UNCHANGED <<inv, pending>>

(* After the pause run swaps the set for an empty one, under the mutex. *)
TakeBatch == /\ worker.at = "pause"
             /\ pending' = {}
             /\ worker' = IF pending = {} THEN Idle ELSE Calling(pending, 1)
             /\ UNCHANGED <<inv, wake>>

(* Invalidate calls one endpoint; an error does not stop the loop. *)
Call(ep, ok) == /\ worker.at = "call"
                /\ ep \in worker.left
                /\ worker' = [worker EXCEPT !.left = @ \ {ep}, !.failed = @ \/ ~ok]
                /\ UNCHANGED <<inv, pending, wake>>

(* The mutant that does not look at Invalidate's error. *)
ReturnedUnheeded == /\ worker.at = "call"
                    /\ worker.left = {}
                    /\ worker' = Idle
                    /\ UNCHANGED <<inv, pending, wake>>

(* Invalidate has called every endpoint and returns. *)
Returned == /\ worker.at = "call"
            /\ worker.left = {}
            /\ worker' = IF worker.failed THEN [worker EXCEPT !.at = "backoff"] ELSE Idle
            /\ UNCHANGED <<inv, pending, wake>>

(* The mutant that counts the attempts one too far. *)
GivesUpLate == worker.attempt > MaxAttempts

(* The loop over the attempts ends. *)
GivesUp == worker.attempt = MaxAttempts

(* The backoff is over: another attempt, or the batch is given up. *)
BackedOff == /\ worker.at = "backoff"
             /\ worker' = IF GivesUp THEN Idle ELSE Calling(worker.batch, worker.attempt + 1)
             /\ UNCHANGED <<inv, pending, wake>>

(* Stop, seen by the select statements of run. *)
Stopped == /\ worker.at \in {"idle", "pause", "backoff"}
           /\ worker' = [Idle EXCEPT !.at = "stopped"]
           /\ UNCHANGED <<inv, pending, wake>>

=============================================================================
