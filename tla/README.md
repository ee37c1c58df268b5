# EdgeKV in TLA+

EdgeKV is a sharded key-value store. Every shard is a Raft group; a write is
replicated through the group's log, kept in a write-ahead log and snapshots on each
member, and applied to a versioned in-memory map. A gateway serves HTTP on every node,
a client library talks to it, and edge caches hold copies of cacheable keys. This
project specifies that system in TLA+, model-checks it with TLC on small instances, and
proves with TLAPS, for instances of any size, that elections are safe, that a write
takes effect at most once from client to state machine, and that reads through an edge
are bounded by the TTL.

Paths below are relative to the repository; `internal/raft/raft.go` is
`src/internal/raft/raft.go` in `PROJECT.json`, whose `map` gives the source lines of
every definition.

## 1. The system and its models

| Part | State | Operations | What makes it hard | Module |
|---|---|---|---|---|
| Raft log (`raft/log.go`) | snapshot index and term, entries | append, truncate, compact, reset, term search | index arithmetic around the snapshot | `RaftLog` |
| Raft (`raft/*.go`) | term, vote, log; role, hint, campaign; commit and apply indexes; per-peer progress; waiters; reads; transfers | election rounds, four RPC handlers, replicators, proposer, applier, reader, transfer, restart | every goroutine drops the lock around I/O and acts on what it read before; late, lost and reordered RPCs; crashes | `RaftReplica`, `Raft` |
| Storage (`raftstore`, `wal`) | segments and snapshot files; hard state, snapshot meta, last index | Save, rotation, GC, SaveSnapshot, Load | a crash at every file operation; two snapshot writers; logical truncation in an append-only log | `RaftStore` |
| State machine (`store`) | records with versions and tombstones, request-ID table with its queue | Put, CAS, Delete, Snapshot, Restore | retries, eviction, replicas that jump ahead by snapshot | `KVStore` |
| Gateway, client (`server`, `node.Write`, `pkg/client`) | HTTP handlers, leader hints, the client's leader cache | write, forward, redirect, retry, cancel | stale hints; several copies of a command, any of which may commit late | `Gateway` |
| Invalidation queue (`cdn`) | pending paths, wake-up channel, worker | Enqueue, batch, attempts, Stop | dropped wake-ups, partial failures | `InvalidationQueue` |
| Edge cache (`edgekv-edge`) | map of shared entry objects, handlers | lookup, revalidation, fill, stale-if-error, purge, flush | handlers hold objects across a fetch while purges and other handlers change the map | `EdgeCache` |
| Cached reads end to end (`server`, `cdn`, `edgekv-edge`) | the record, the queue, the edges, time | all of the above with writes | write, fetch and purge cross | `CachedReads` |
| gRPC transport, metrics, generated code, commands, bench | - | - | I/O, formatting, wiring | section 6 |

Shards share no state but the process, so one group stands for all of them.

The parts meet in four places. Raft calls `Storage` before it answers or counts
anything (`persistLocked`), and `RaftStore` is the specification of what `Storage`
does. Raft's applier calls the state machine with committed entries in order, which
is what `ReplicatedLog` promises and `KVStore` assumes. The gateway reaches Raft through
`Propose`, `ReadIndex` and `TransferLeadership`, all actions of `Raft`; `Gateway` keeps
of Raft and the state machine what a handler can observe. And a write that succeeded is
given to the invalidation queue, whose purges and the fetches of the edges meet in
`CachedReads`; that its answers are those of one instant is `ReadsAreLinearizable`
of `RaftSafety`.

## 2. Modules

### `RaftLog`, `RaftReplica`, `Raft`

`RaftLog` and `RaftReplica` are pure: what the operations of a log do, and what a
request of the leader does to the log of a follower and its answer to the leader's
next index.

An action of `Raft` is one section of code under `Raft.mu`, or one call to `Storage`
made without it. Goroutines are explicit where they hold state across an unlock:
`campaign` is the election goroutine, `applier` the applier (`pc` says where it is),
`read` the reader, `transfers` the running `TransferLeadership` calls, and a
replicator is the request it waits for (`Busy`).

- *Data.* An entry is its term: index and term identify an entry, so the command adds
  nothing the properties could tell apart. A state machine is the sequence of entries
  it has executed; snapshot data is that sequence.
- *Time.* Timeouts fire at any moment their code allows. Whether a leader was heard of
  recently, whether a target has gone quiet and whether check-quorum fails are
  nondeterministic. Send times are reduced to the one comparison that is made with
  them: sent before or after the current read began (`fresh`). A request that was built
  but not sent when the read began may count as either, since `replicateOnce` takes its
  time after it has released the lock.
- *Network.* `msgs` is a set; a message in it may be handled in any order, late, or
  never. An RPC whose caller gives up may still be handled (`wait = FALSE`). Answers in
  a newer term are one kind of message because all callers treat them alike. A pre-vote
  changes nothing at its receiver and its grant is only looked at later, so request,
  handler and tally are one step; so are a granted vote and its tally.
- *Crashes.* `Crash` is the crash and the reboot through `New`; a node that is down is
  a node that takes no step. `CrashInHandler` falls between the two saves of a handler
  that adopts a newer term. What the disk returns is the contract of `Storage`;
  section 5 lists where `RaftStore` shows the real one to fall short of it.
- *Batches* of proposals are consecutive `Propose` steps.
- *History* variables: `votes`, `committed`, `acked`, `mustSee`. `spent` holds what the
  bounds have left.

The `ELSE` branch of `HandleSnapshotReply` is there because the code has it; no
reachable state takes it. `Stop` is not modelled: it is a crash that answers its
callers.

### `RaftSafety`, `RaftRefinement`, `ReplicatedLog`

`RaftSafety` states the properties of logs, commitment, snapshots, reads and transfer.
`ReplicatedLog` is what a group promises to the layers above: one growing sequence of
commands, state machines that move along it, answers never taken back. The refinement
mapping is the identity on `committed`, `sm` and `acked`.

### `RaftStore`

`raftstore.go` on `wal.go`, with the calls `internal/raft` makes. On disk there are
segments (sequence number, tag, records) and snapshot files; in memory `hs`, `meta`,
`lastIndex` and the two possible `SaveSnapshot` calls, stepped through lock, rename and
publication. A record is an entry, a hard state or a bad record. `Load` is an operator,
so a property can ask in *every* state what a restart would return. Crash actions leave
each prefix of a batch with or without a torn record, each stage of a rotation and any
subset of the files a GC was removing; a restart can crash in its turn. `agreed` is
external: commits and snapshots of one group do not contradict each other, which `Raft`
establishes. The vote is not separate from the term: both are one record, always saved
together.

### `KVStore`

`applyLocked`, `Apply`, `evictDedupLocked`, `Snapshot` and `Restore`, over one committed
log that several replicas apply at their own pace. `Executed` is an independent
definition of which entries take effect, computed from the log alone; `AtMostOnce`
compares the store with it. The value stands for all Put copies into the record.

### `Gateway`

Writes of one key: calls of the client library, which retry, follow redirects and keep
one request ID, and plain HTTP calls, which a gateway forwards. A handler is named by
its call, attempt and hop. `Elect`, `StepDown` and `LearnLeader` are Raft seen from
outside: a node may believe it leads after it was deposed, any other node may hear from
any node that believes so, and a campaign leaves it without a hint. A leader whose
check-quorum fails steps down before there is a successor. A leader that is
handing over refuses without a hint (`leaderHintLocked`). Any proposal may commit as long
as it has not been, or never: more than Raft allows, so the properties do not rest on
which ones do. The table of results never forgets here; its window is the subject of
`KVStore`. A 404 of `Delete` is definitive like a 412 and is not told apart. A call that
ends (`Returns`) leaves its handlers running, and their commands may still commit.

`forget` followed by the end of the context in the backoff is here `HearNothing`
followed by `Cancel`.

### `InvalidationQueue`, `EdgeCache`, `CachedReads`

`InvalidationQueue` is `cdn.Queue`. `Enqueue` is two steps, because the mutex is released
between the insertion and the non-blocking send; the worker's `select` statements, the
swap of the set, the calls to each endpoint and the attempts are its actions.

`EdgeCache` is `cmd/edgekv-edge`. A handler goes through lookup, comparison, fetch and
response; the map is read under the mutex and the entry's expiry after it. That read
races with the renewal by another handler; both times carry a monotonic reading and
`Before` compares that one word, so the model lets the comparison see the old or the new
value. Entries are objects with identity in a heap (`entries`), since a handler can renew
an object that a purge has taken off the map; objects nobody refers to are collected,
which keeps the model finite. A URL's spelling is modelled because the conversion
matters: the gateway makes the path of a purge from the decoded key, the edge compares
it with request URIs as they came.

`CachedReads` composes the two with the gateway's write and read handlers for one key of
a cacheable namespace. `content` numbers the committed writes and identifies bodies,
`version` is what the code compares. `TtlSeconds` is the clamp of `handlePut`. The purge
of an edge with a delay takes effect at any later time. A call to an edge may fail before
or after the edge acted on it. When a write commits, its handler hears of it and goes on
to `Enqueue`, or it is gone: `write` answered an error or forwarded, and nothing is
queued unless the client retries. `OtherNodePurges` is the queue of another node, of
whose purges nothing is claimed. `past` and `ghost` are history; `scope` selects the
bounds and the invalidator of a behaviour and never changes.

### MC modules

`MCRaft` and `MCKVStore` hold the symmetry sets: nodes, replicas and request IDs are only
compared for equality. `MCGateway` gives each write its expected version.

`MCRaft` also gives three runs their starts, because one budget that allows everything
is out of TLC's reach. A start has part of the budget spent already (`spent`), so that a
run explores few elections with many requests and the reverse. `AfterTwoLeaders` is a
state that `Init` reaches, in which two leaderships have left entries of different terms
on two nodes and the group has restarted: only such logs produce the conflict hints
with a term. The other starts are `Init` with a smaller budget.

`MCCachedReads` lists the scopes: the queue with two edges and two writes; a reader of the
plain URL and one of a versioned URL on an edge the queue purges at once, and a reader of
the plain URL on an edge with a delay; two readers of the plain URL while time passes;
one reader with writes of different TTLs; one reader of both spellings; two readers of a
versioned URL and of `/v1/kv` while a key is deleted and created again.

## 3. Runs

The Raft, storage, state machine and gateway runs set `CHECK_DEADLOCK FALSE`: bounded
budgets run out, and a group whose messages are lost may stop. In `cached_reads`
deadlock is checked. Raft groups have three nodes, the smallest size in which a majority
is not everyone and two majorities can differ.

| Run | Checks | Why these bounds |
|---|---|---|
| `raft_election` | `ElectionSafety`, `HintNamesAWinner`, `ElectionInv`, `LogMatching`, `LeaderCompleteness` | three rounds and two sends of one entry over two indexes: rivals in one term, an old entry on a majority and a successor that lacks it |
| `raft_replication` | `TypeOK`, `CommittedIsDurable`, `CommitIndexAgrees`, `MatchIsHeld`, `BackOffProgress` | four one-entry sends over three indexes from an empty group, five after two leaderships: conflict, back-off with and without a term the leader has too, repair, an RPC that times out, an answer that outlives the leadership it was for |
| `raft_apply` | `StateMachineSafety`, `SlicesInRange`, `SnapshotsAreCommitted`, `WaitersAreOwed`, `VoteIsFinal`, `ImplementsReplicatedLog` | a leader deposed with a proposal waiting; threshold 1, so that every apply may snapshot; a crash and the replay; in one term, enough sends for a snapshot to arrive while the follower's applier is in a batch |
| `raft_read` | `ReadsAreLinearizable`, `TransferIsOwned` | a read on a leader that hands over while the read waits; without reads, two leaderships of one node with a transfer each, both calls still running |
| `store_recovery` | `TypeOK`, `SnapshotReadable`, `HardStateSurvives`, `RecoversLog` | two-record segments: three saves rotate, one overwrites a tail, two snapshots race, two crashes. `marks` records the circumstances of findings 1 and 2; the properties are about the states outside them |
| `kv_store` | `TypeOK`, `ReplicasAgree`, `AtMostOnce`, `CompareAndSet` | window 2 in a log of 4: retries inside and outside it, write, delete and re-create, on two replicas |
| `gateway` | `TypeOK`, `AtMostOnce`, `AnswersAreFinal`, `AckedWritesAreInvalidated` | three nodes: one leads, one believes it does, one has a stale hint; a library call with a retry and a plain call; leadership moves once, to another node or, after a step-down, to any |
| `cached_reads` | `TypeOK`, `WakeUpIsOwed`, `BoundedStaleness`, `VersionedReadsAgree`, `PurgeIsEffective`, `InvalidationHappens` | two edges, one with a delay; two attempts; two handlers that can hold one object; a TTL left to the default and one cut to the maximum; the clock passes an expiry |
| `store_lost_vote`, `store_stale_tail`, `store_damage`, `stale_if_error` | violated: section 5 | the bounds of the passing run of the same module, with one save more or fewer faults |

Between them the passing runs take every action. Each property has a mutant in
`PROJECT.json`: a plausible bug, defined next to the definition it changes, that makes
TLC report that property.

*Scopes.* The edge, the queue and time multiply, so `cached_reads` explores a set of
scopes, each with the parts free that its question is about (`MCCachedReads`). What is
given up: where the queue purges an edge there is one reader at a time and the clock
stands still; where the clock runs or two readers meet, the purges come from
`OtherNodePurges`, which `PurgeIsEffective` makes no claim about. `PurgeIsEffective` is
thus decided in the three scopes where a reader meets the queue's own purges, immediate
and delayed, retried after a lost answer or not. The proofs need no scope: they hold for
any of them.

*Fairness.* `InvalidationHappens` is the liveness property: once a handler has heard that
its write is committed, the purge reaches every edge, or its batch is given up after the
last attempt, or the node stops. It says nothing of a write whose handler gave up while
the command committed (`server.go:189-193`): no purge is queued for it then, and
`BoundedStaleness` is what remains.
It assumes weak fairness of the two halves of `Enqueue` in a write handler, of the worker
and of the timers of delayed purges. Goroutines that can run do run, the worker's calls
end because each has a timeout, `time.AfterFunc` fires. Nothing is assumed of clients,
readers, writes, or the success of a call. In `Raft` and `Gateway` no fairness is
assumed: the code promises no election within a time, and a randomised timeout is not
weak fairness. `BackOffProgress` is the step-wise half of progress there.

## 4. Proofs

**Elections.** For every finite non-empty `Node`, every `MaxAppendEntries` above 0, every
`SnapshotThreshold` and with no assumption on the bounds (`NodeAssumption`,
`ConfigAssumption`):

- `TypeCorrect`: `Spec => []TypeOK` (`RaftTypes`, on the lemmas of `RaftLogProofs` about
  the log operators). `TypeOK` is inductive as it stands. `committed` and `mustSee` are
  not part of it: that `committed` is a sequence of terms depends on snapshots being
  committed histories.
- `VotesAreFinal`: `Spec => VoteIsFinal`.
- `ElectionInvariant`: `Spec => []ElectionInv`, and from it `ElectionsAreSafe`
  (`Spec => []ElectionSafety`) and `HintsNameWinners` (`RaftElections`).

`ElectionSafety` is not inductive: that a leader was elected says nothing about a
candidate that is about to win. `ElectionInv` adds what a tally rests on. Every vote
given is still on its voter's disk while its term lasts (`VotesStand`), a tally holds
only such votes (`GrantsAreVotes`), and who sends entries in a term was elected in it
(`RequestsFromLeaders`, needed for hints). Votes only accumulate, so `Elected` is stable;
two majorities share a voter (`MajoritiesMeet`), who voted once. Each invariant has one
lemma for node steps and one for deliveries, split by action.

**Writes.** `GatewayProofs`, for any number of nodes, calls, attempts and changes of
leader (`GatewayAssumption`): `WritesHappenAtMostOnce`, `DefinitiveAnswersAreFinal`
and `AckedImpliesQueued`. The inductive invariant `GatewayInv` puts
the table of results in the middle. A request ID has one result; effects and successful
results come in pairs (`TableInv`); a definitive answer in a handler (`HandlersInv`) or
at a client (`ClientsInv`) is the result of its call, and a success at either has been
enqueued. `AtMostOnce` alone is not inductive: nothing in it says that a second copy of a
command finds the first one's result.

**Cached reads.** For any set of edges, handlers, versions, TTLs and scopes
(`CachedReadsAssumption`, `AttemptsAssumption`):

- `ReadsAreBounded` (`CachedReadsProofs`): `Spec => []BoundedStaleness`, from
  `StalenessInv`, which is stated in `StalenessLemmas` with its lemmas on time, commits
  and purges; `StalenessSteps` has the steps of the handlers. An entry of the
  plain URL, in a map or held by a handler, expires at most its TTL after its content
  stopped being current. The reason is in the handlers: each counts from the time it
  began, and the content it is given was current then or later. Purges play no part in
  it, so the bound holds when all of them fail.
- `PendingPathsAreOwedAWakeUp` (`WakeUpProofs`): `Spec => []WakeUpIsOwed`. The
  strengthening `WakeInv` adds the types, and that no handler is in `Enqueue` for a
  write that has not committed.

The bounds of the models (`MaxMoves`, `MaxClock`, `MaxVersion` and so on) are parameters
of these theorems: they hold for every value.

Only model-checked: everything in `RaftSafety`, the refinement, `RaftStore`, `KVStore`,
`VersionedReadsAgree`, `PurgeIsEffective` and `InvalidationHappens`. Out of the prover's
reach: liveness under fairness, `ENABLED`, and induction over data, such as what `Replay`
computes for every sequence of records.

## 5. Findings

1. **A crash in a rotation can lose term and vote** (`store_lost_vote`). `Rotate` makes
   the new segment durable (`wal.go:303`) before its head record (`:306-311`). After a
   crash in between, the active segment is empty; `Load` reads the hard state from the
   older segment and then runs `gcLocked` (`raftstore.go:131`), which may delete that
   segment. The next restart has term 0 and no vote. `raftstore.go:176-177` and
   `docs/architecture.md:45` say that a rotation makes the deletion safe.
2. **A truncated tail can come back** (`store_stale_tail`). `Load` drops records at or
   below the snapshot index (`raftstore.go:108`) before applying "an existing index
   replaces the tail". If entries 2 and 3 are replaced by a new entry 2 and a snapshot
   then covers 2, the old entry 3 is returned after the snapshot. `raft/types.go:71-73`
   and `docs/architecture.md:45` promise otherwise; `MemStorage` keeps the promise.
   Without overwritten tails Load returns exactly the log; with them nothing is missing
   from it until such a tail has come back (`RecoversLog`).
3. **Damage inside the last segment is not reported** (`store_damage`). `ReadAll` cuts
   the last segment at its first bad record, also when good acknowledged records follow
   it. `wal.go:47-50`, `:156-159` and `docs/architecture.md:44` say that such damage
   stops the node.
4. **Stale-if-error has no age limit** (`stale_if_error`). When the fetch fails, the edge
   serves the entry it holds, however long ago it expired (`cmd/edgekv-edge/main.go:113`).
   `docs/architecture.md:11` says "at most the key's TTL" of a cached read. All other
   answers keep the bound (`BoundedStaleness`, proved).

5. **The purge is queued before the reply, not after it** (`gateway`).
   `docs/architecture.md:24-25` has "reply" and then "after reply: enqueue CDN
   invalidation (best effort)"; `write` calls `Enqueue` and then `writeJSON`
   (`server.go:200-203`). The code is the stronger of the two:
   `AckedWritesAreInvalidated` holds, and is proved, because of its order. Under the
   documented one a node could stop between the reply and the purge.

The Raft runs and proofs assume a storage without findings 1 and 2.

One observation has no run. A purge names the decoded key, while the edge keeps entries
under the request URI as it came (`main.go:94`, `:223`). An entry stored under an escaped
spelling, which the client library makes of keys with a blank or a slash, is never purged
and lives out its TTL; `main.go:220` says "every variant (query strings) of that key".
`PurgeIsEffective` is therefore about the plain spelling. `BoundedStaleness` covers both.

## 6. Not modelled

- *The gRPC transport.* It carries Raft's messages and cuts snapshots into chunks; a
  call or a transfer that fails is a lost message in `Raft`.
- *The rebalancer* of `internal/node`. It decides from counts when to call
  `TransferLeadership`; `Raft` lets any node call it at any time, so no choice of the
  rebalancer can break what is checked. That it converges is not stated.
- *Reads at the gateway and in the client.* `ReadIndex` is in `Raft` and the handlers'
  answers are in `CachedReads`; forwarding and retrying a read change no state but the
  client's leader cache, whose entries `Gateway` lets be wrong anyway.
- *CloudFront*: one call to an AWS library. `HTTPPurge` is the invalidator modelled, and
  `Noop`.
- *Several keys and shards.* Keys of one shard meet only in the request-ID table, which
  `KVStore` has; shards do not meet. FNV hashing is a pure function.
- *Eviction in `Gateway`.* A retry that outlives 100,000 later log entries executes
  again; `KVStore` checks exactly that boundary.
- *Bytes*: record layouts and checksums (a record is good or bad), the snapshot and
  command encodings, JSON, the generated protocol code. Their failures are I/O errors
  that stop a node, and a stopped node is a crashed one.
- *`Sync = false`*, which the code documents as unsafe.
- *Membership changes*, which the code does not have.
- *Real time.* Timeouts may fire whenever their code allows, which includes every timing.
- *Metrics, logging, status pages, commands and the benchmark*: no state that the rest
  reads.
