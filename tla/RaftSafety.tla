----------------------------- MODULE RaftSafety -----------------------------
(***************************************************************************)
(* What a Raft group guarantees about logs, commitment, snapshots, reads   *)
(* and leadership transfer.                                                *)
(***************************************************************************)
EXTENDS Raft, SequencesExt

----------------------------------------------------------------------------
(* Logs and commitment                                                      *)

\* Two logs with the same term at an index are the same up to it: what
\* HandleAppendEntries checks, truncates and appends, and what snapshots
\* replace, never makes two histories meet again after they parted.
LogMatching ==
    \A a, b \in Node : LET h == History(a)  g == History(b) IN
        \A i \in 1..Min({Len(h), Len(g)}) :
            h[i] = g[i] => SubSeq(h, 1, i) = SubSeq(g, 1, i)

\* A leader at least as new as the last commitment holds everything committed:
\* the election restriction (logUpToDateLocked) and the own-term rule of
\* advanceCommitLocked together.
LeaderCompleteness ==
    \A n \in Node :
        /\ state[n] = "leader"
        /\ committed # <<>>
        /\ term[n] >= committed[Len(committed)]
        => IsPrefix(committed, History(n))

\* What is committed stands on the disks of a majority and survives any crash.
CommittedIsDurable == Majority({n \in Node : IsPrefix(committed, History(n))})

\* Every node applies the same commands in the same order, and lastApplied says
\* how many, through entries, local snapshots and snapshots from the leader.
StateMachineSafety ==
    \A n \in Node : IsPrefix(sm[n], committed) /\ Len(sm[n]) = lastApplied[n]

\* No commitIndex, those of deposed leaders and of followers with leftovers of an
\* older leader included, covers an entry other than the one committed there.
CommitIndexAgrees ==
    \A n \in Node :
        /\ commitIndex[n] <= Len(History(n))
        /\ IsPrefix(SubSeq(History(n), 1, commitIndex[n]), committed)

----------------------------------------------------------------------------
(* Replication and compaction                                               *)

\* raftLog.slice never panics: not for the applier, which reads what compaction
\* and snapshots may have removed, and not for a replicator.
SlicesInRange ==
    \A n \in Node :
        /\ applier[n].pc = "idle" /\ ~SnapshotFirst(n) =>
              SliceInRange(rlog[n], lastApplied[n] + 1, commitIndex[n])
        /\ state[n] = "leader" => \A p \in Others(n) :
              nextIndex[n][p] <= LastIndex(rlog[n]) + 1

\* A leader never counts a follower for an entry the follower does not hold:
\* while they share the term, the follower's history agrees with the leader's up
\* to matchIndex, and nextIndex stays above it.
MatchIsHeld ==
    \A n, p \in Node :
        state[n] = "leader" /\ p # n =>
            /\ matchIndex[n][p] < nextIndex[n][p]
            /\ matchIndex[n][p] <= LastIndex(rlog[n])
            /\ term[p] = term[n] =>
                  IsPrefix(SubSeq(History(n), 1, matchIndex[n][p]), History(p))

\* The fast back-off makes progress: a rejected request is followed by one with a
\* smaller prevIndex, so replicateOnce, which retries at once, cannot loop.
BackOffProgress ==
    [][\A m \in msgs \ msgs' :
          /\ m.type = "appendReply" /\ ~m.success
          /\ CurrentReply(m) /\ state'[m.to] = "leader"
          => nextIndex'[m.to][m.from] < nextIndex[m.to][m.from]]_vars

\* The snapshot on disk and the log after it never leave a gap, and a snapshot
\* holds only committed entries, whoever took it.
SnapshotsAreCommitted ==
    \A n \in Node :
        /\ rlog[n].snapIndex <= diskSnap[n].index
        /\ diskSnap[n].index <= LastIndex(rlog[n])
        /\ Len(diskSnap[n].data) = diskSnap[n].index
        /\ IsPrefix(diskSnap[n].data, committed)

----------------------------------------------------------------------------
(* Clients                                                                  *)

\* No proposal is forgotten: one that waits does so on the leader of its own
\* term, for an entry that is in the log and is still to be applied.
WaitersAreOwed ==
    \A n \in Node : \A w \in waiters[n] :
        /\ state[n] = "leader" /\ w[2] = term[n]
        /\ w[1] \in (lastApplied[n] + 1)..LastIndex(rlog[n])
        /\ History(n)[w[1]] = w[2]

\* A confirmed read covers everything committed before it began: a leader that
\* was deposed without knowing cannot have its old index confirmed.  (The state
\* machine it is then served from holds that prefix by StateMachineSafety.)
ReadsAreLinearizable ==
    \A n \in Node : read[n].phase = "wait" => mustSee[n] <= read[n].index

\* Writes are refused exactly while a TransferLeadership call of this very
\* leadership runs: whatever older calls are still on their way out, a node that
\* leads again accepts writes, and stops accepting them until its own call has
\* returned (the target must catch up with a log that no longer grows).
TransferIsOwned ==
    \A n \in Node :
        LET running == {t \in transfers[n] : state[n] = "leader" /\ t.term = term[n]}
        IN  \/ running = {} /\ transferTarget[n] = NoNode
            \/ running # {} /\ \A t \in running : t.target = transferTarget[n]

=============================================================================
