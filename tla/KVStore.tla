------------------------------ MODULE KVStore ------------------------------
(***************************************************************************)
(* The replicated state machine of internal/store: versioned keys,         *)
(* compare-and-set, tombstones and the table of request IDs.               *)
(*                                                                         *)
(* Replicas apply one committed log (ReplicatedLog promises it), each at   *)
(* its own pace; they restart from their own snapshots and jump ahead with *)
(* those of others.  A value stands for everything Put copies into the     *)
(* record; the request's ID serves as its value.                           *)
(***************************************************************************)
EXTENDS Integers, Sequences, FiniteSets, SequencesExt

CONSTANTS
    Replica, Key,
    RequestId,      \* request IDs of clients
    NoId,           \* the empty request ID
    DedupWindow,    \* Store.dedupWindow, the same on every replica
    Expected,       \* expected versions that clients ask for
    MaxLog          \* bound on the log

ASSUME NoIdAssumption == NoId \notin RequestId
ASSUME WindowAssumption == DedupWindow \in Nat

VARIABLES
    log,            \* the committed log of the Raft group (external)
    replica,        \* the Store of each replica and its lastApplied
    snapshot,       \* the newest snapshot on each replica's disk
    results         \* what Apply returned for each index, on the first replica there

vars == <<log, replica, snapshot, results>>

Noop == [op |-> "noop"]

\* expected is -1 for a command without an expected version.
Command ==
    [op : {"put"}, key : Key, id : RequestId \cup {NoId}, expected : {-1} \cup Expected]
    \cup [op : {"delete"}, key : Key, id : RequestId \cup {NoId}, expected : {-1}]

Result(status, version) == [status |-> status, version |-> version]

\* A key that was never written is like a tombstone of version 0.
NoRecord == [version |-> 0, deleted |-> TRUE, value |-> NoId]

EmptyStore ==
    [applied |-> 0, data |-> [k \in Key |-> NoRecord],
     dedup |-> <<>>, order |-> <<>>]

----------------------------------------------------------------------------
(* Commands: applyLocked                                                    *)

Visible(rec) == IF rec.deleted THEN 0 ELSE rec.version

Tombstone(rec) == [version |-> rec.version + 1, deleted |-> TRUE, value |-> NoId]

\* Mutant: a key that is created again starts at version 1 again.
WrittenAfresh(rec, cmd) ==
    [version |-> IF rec.deleted THEN 1 ELSE rec.version + 1, deleted |-> FALSE, value |-> cmd.id]

Written(rec, cmd) == [version |-> rec.version + 1, deleted |-> FALSE, value |-> cmd.id]

Mismatch(rec, cmd) == cmd.expected # -1 /\ cmd.expected # Visible(rec)

\* The record a command leaves and the result it returns.
Outcome(rec, cmd) ==
    LET unchanged(status, v) == [rec |-> rec, result |-> Result(status, v)]
        changed(new) == [rec |-> new, result |-> Result("ok", new.version)]
    IN  IF Mismatch(rec, cmd) THEN unchanged("mismatch", Visible(rec))
        ELSE IF cmd.op = "put" THEN changed(Written(rec, cmd))
        ELSE IF Visible(rec) = 0 THEN unchanged("notFound", 0)
        ELSE changed(Tombstone(rec))

----------------------------------------------------------------------------
(* Request IDs: Apply and evictDedupLocked                                  *)

Expired(index, old) == index - old > DedupWindow

\* The loop stops at the first entry that stays.
Evict(st, index) ==
    LET stays == {k \in DOMAIN st.order : ~Expired(index, st.order[k].index)}
        first == IF stays = {} THEN Len(st.order) + 1 ELSE Min(stays)
        gone == {st.order[k].id : k \in 1..(first - 1)}
    IN  [st EXCEPT !.order = SubSeq(@, first, Len(@)),
                   !.dedup = [id \in DOMAIN @ \ gone |-> @[id]]]

\* Mutant: only a success is remembered.
RememberSuccess(st, index, cmd, result) ==
    IF cmd.id = NoId \/ result.status # "ok" THEN st
    ELSE [st EXCEPT !.dedup = (cmd.id :> [index |-> index, result |-> result]) @@ @,
                    !.order = Append(@, [index |-> index, id |-> cmd.id])]

Remember(st, index, cmd, result) ==
    IF cmd.id = NoId THEN st
    ELSE [st EXCEPT !.dedup = (cmd.id :> [index |-> index, result |-> result]) @@ @,
                    !.order = Append(@, [index |-> index, id |-> cmd.id])]

\* The state after the entry and what is returned.  The applier does not pass a
\* leader's no-op to the store.
ApplyEntry(before, index, cmd) ==
    LET st == Evict(before, index)
        out == Outcome(st.data[cmd.key], cmd)
    IN  IF cmd = Noop THEN [state |-> before, result |-> Result("ok", 0)]
        ELSE IF cmd.id \in DOMAIN st.dedup
        THEN [state |-> st, result |-> st.dedup[cmd.id].result]
        ELSE [state |-> Remember([st EXCEPT !.data[cmd.key] = out.rec], index, cmd, out.result),
              result |-> out.result]

----------------------------------------------------------------------------
(* Snapshot and Restore                                                     *)

\* Mutant: request IDs are as old as the snapshot.
SnapshotRestamps(st) ==
    [index |-> st.applied, records |-> st.data,
     dedup |-> [k \in DOMAIN st.order |->
                   [id |-> st.order[k].id, index |-> st.applied,
                    result |-> st.dedup[st.order[k].id].result]]]

Snapshot(st) ==
    [index |-> st.applied, records |-> st.data,
     dedup |-> [k \in DOMAIN st.order |->
                   [id |-> st.order[k].id, index |-> st.order[k].index,
                    result |-> st.dedup[st.order[k].id].result]]]

\* Mutant: the table comes back without the order it is evicted in.
RestoreWithoutOrder(snap) ==
    [applied |-> snap.index, data |-> snap.records,
     dedup |-> [id \in {d.id : d \in ToSet(snap.dedup)} |->
                   LET d == CHOOSE e \in ToSet(snap.dedup) : e.id = id
                   IN  [index |-> d.index, result |-> d.result]],
     order |-> <<>>]

Restore(snap) ==
    [applied |-> snap.index, data |-> snap.records,
     dedup |-> [id \in {d.id : d \in ToSet(snap.dedup)} |->
                   LET d == CHOOSE e \in ToSet(snap.dedup) : e.id = id
                   IN  [index |-> d.index, result |-> d.result]],
     order |-> [k \in DOMAIN snap.dedup |->
                   [index |-> snap.dedup[k].index, id |-> snap.dedup[k].id]]]

----------------------------------------------------------------------------

Init ==
    /\ log = <<>>
    /\ replica = [r \in Replica |-> EmptyStore]
    /\ snapshot = [r \in Replica |-> Snapshot(EmptyStore)]
    /\ results = <<>>

\* A command is committed; one that is sent again is sent as it was, and any
\* number of its copies may be committed.
Submit(cmd) ==
    /\ Len(log) < MaxLog
    /\ cmd \in Command /\ cmd.id # NoId =>
          \A c \in ToSet(log) \ {Noop} : c.id = cmd.id => c = cmd
    /\ log' = Append(log, cmd)
    /\ UNCHANGED <<replica, snapshot, results>>

Apply(r) ==
    LET index == replica[r].applied + 1
        out == ApplyEntry(replica[r], index, log[index])
    IN  /\ index <= Len(log)
        /\ replica' = [replica EXCEPT ![r] = [out.state EXCEPT !.applied = index]]
        /\ results' = IF index > Len(results) THEN Append(results, out.result) ELSE results
        /\ UNCHANGED <<log, snapshot>>

TakeSnapshot(r) ==
    /\ replica[r].applied > snapshot[r].index
    /\ snapshot' = [snapshot EXCEPT ![r] = Snapshot(replica[r])]
    /\ UNCHANGED <<log, replica, results>>

\* Another replica's snapshot is installed, or one's own after a restart.
InstallSnapshot(r, from) ==
    /\ from # r => snapshot[from].index > replica[r].applied
    /\ replica' = [replica EXCEPT ![r] = Restore(snapshot[from])]
    /\ snapshot' = [snapshot EXCEPT ![r] = snapshot[from]]
    /\ UNCHANGED <<log, results>>

Next ==
    \/ \E cmd \in Command \cup {Noop} : Submit(cmd)
    \/ \E r \in Replica : Apply(r) \/ TakeSnapshot(r)
    \/ \E r, from \in Replica : InstallSnapshot(r, from)

Spec == Init /\ [][Next]_vars

----------------------------------------------------------------------------
(* Properties                                                               *)

\* The records, the table and the log have their shapes; the eviction queue
\* lists exactly the request IDs in the table, oldest first (Snapshot looks each
\* of them up and would fail on one that is missing).
TypeOK ==
    /\ log \in Seq(Command \cup {Noop})
    /\ \A r \in Replica : LET st == replica[r] IN
        /\ st.applied \in 0..Len(log)
        /\ \A k \in Key : st.data[k].version \in Nat
        /\ DOMAIN st.dedup = {o.id : o \in ToSet(st.order)}
        /\ \A i \in DOMAIN st.order : st.order[i].index = st.dedup[st.order[i].id].index
        /\ \A i, j \in DOMAIN st.order : i < j => st.order[i].index <= st.order[j].index

\* Replicas that have applied the same prefix are in the same state, request
\* IDs and their order included, however each of them got there: through
\* entries, through its own snapshot or through another's.
ReplicasAgree ==
    \A r, q \in Replica : replica[r].applied = replica[q].applied => replica[r] = replica[q]

\* The indexes at which a command takes effect: unless an earlier one with its
\* request ID did so within the window.
Executed ==
    LET executed[i \in 1..Len(log)] ==
            /\ log[i] # Noop
            /\ log[i].id # NoId => \A j \in 1..(i - 1) :
                  executed[j] /\ log[j].id = log[i].id => i - j > DedupWindow
    IN  {i \in 1..Len(log) : executed[i]}

\* "Retrying with the same ID is safe": a retry inside the window changes no key
\* and gets the answer of the first attempt, a refusal included; and the version
\* of a key counts the commands that took effect on it.
AtMostOnce ==
    /\ \A i \in DOMAIN results : log[i] # Noop /\ i \notin Executed =>
          \E j \in Executed : j < i /\ log[j].id = log[i].id /\ results[j] = results[i]
    /\ \A r \in Replica, k \in Key :
          replica[r].data[k].version =
            Cardinality({i \in Executed \cap (1..replica[r].applied) :
                            log[i].key = k /\ results[i].status = "ok"})

\* The entries before i that changed the key of entry i.
ChangesBefore(i) ==
    {j \in Executed : j < i /\ log[j].key = log[i].key /\ results[j].status = "ok"}

\* "Compare-and-set on the per-key version; n = 0 means must not exist": a write
\* conditional on a version succeeds exactly if one put only was ever given that
\* version and nothing has changed the key since that put.  So whoever learnt the
\* version, however long ago, overwrites what they saw, also when the key was
\* deleted and created again in between.
CompareAndSet ==
    \A i \in Executed \cap DOMAIN results : log[i].expected # -1 =>
        LET changes == ChangesBefore(i)
            named == {j \in changes : log[j].op = "put" /\ results[j].version = log[i].expected}
        IN  results[i].status = "ok" <=>
              IF log[i].expected = 0 THEN changes = {} \/ log[Max(changes)].op = "delete"
              ELSE changes # {} /\ named = {Max(changes)}

=============================================================================
