---------------------------- MODULE RaftReplica ----------------------------
(***************************************************************************)
(* What one replica keeps, as values: snapshots, the history a snapshot    *)
(* and a log stand for together, and what the requests of a leader and the *)
(* answers of a follower do to a log (HandleAppendEntries, replicateOnce   *)
(* and HandleInstallSnapshot without the state of the node around them).   *)
(***************************************************************************)
EXTENDS RaftLog

Snapshot == [index : Nat, term : Nat, data : Seq(Nat)]
NoSnapshot == [index |-> 0, term |-> 0, data |-> <<>>]

\* Every entry held in a snapshot and the log that goes with it.
HistoryOf(snap, l) == SubSeq(snap.data, 1, l.snapIndex) \o l.entries

----------------------------------------------------------------------------
(* AppendEntries at the follower.                                           *)

\* The first sent entry that the log does not already hold with the same term.
FirstFresh(l, prev, entries) ==
    Min({k \in DOMAIN entries :
            ~(HasTerm(l, prev + k) /\ TermAt(l, prev + k) = entries[k])})

\* Append, truncating only on a real conflict.
MergeEntries(l, prev, entries) ==
    IF \A k \in DOMAIN entries :
          HasTerm(l, prev + k) /\ TermAt(l, prev + k) = entries[k]
    THEN l
    ELSE LET k == FirstFresh(l, prev, entries)
         IN  AppendTo(TruncateFrom(l, prev + k), SubSeq(entries, k, Len(entries)))

Accept(l, commit) ==
    [success |-> TRUE, index |-> 0, term |-> 0, log |-> l, commit |-> commit]
Conflict(l, i, t) ==
    [success |-> FALSE, index |-> i, term |-> t, log |-> l, commit |-> 0]

\* Mutant: it is enough that there is an entry before the new ones.
PrevExists(l, m) == HasTerm(l, m.prev)

\* The entry before the new ones is the leader's.
PrevAgrees(l, m) == TermAt(l, m.prev) = m.prevTerm

\* Mutant: the leader's commit index is taken over as it is.
UnverifiedCommit(m) == m.commit

\* Only entries verified against the leader's are committed: the log may extend
\* past them with leftovers of an older leader.
VerifiedCommit(m) == Min({m.commit, m.prev + Len(m.entries)})

\* What HandleAppendEntries does to log l for a request of the current term.
\* What lies inside the snapshot is committed, hence identical, and skipped.
AppendOutcome(l, m) ==
    LET skip == IF m.prev < l.snapIndex THEN l.snapIndex - m.prev ELSE 0
        prev == m.prev + skip
        entries == SubSeq(m.entries, skip + 1, Len(m.entries))
    IN  IF skip > 0 /\ skip >= Len(m.entries) THEN Accept(l, 0)
        ELSE IF prev > LastIndex(l) THEN Conflict(l, LastIndex(l) + 1, 0)
        ELSE IF skip = 0 /\ ~PrevAgrees(l, m)
        THEN Conflict(l, FirstIndexOfTerm(l, TermAt(l, prev), prev), TermAt(l, prev))
        ELSE Accept(MergeEntries(l, prev, entries), VerifiedCommit(m))

----------------------------------------------------------------------------
(* Its answer at the leader, and snapshots at the follower.                 *)

\* Mutant: one entry too many is kept of a conflicting term the leader has too.
BackOffKeepsOneMore(l, hint, hintTerm) ==
    LET own == IF hintTerm # 0 THEN LastIndexOfTerm(l, hintTerm) ELSE 0
        next == IF own # 0 THEN own + 2 ELSE hint
    IN  Max({1, Min({next, LastIndex(l) + 1})})

\* Mutant: no floor, and the hint is taken for the previous index.
BackOffNoFloor(l, hint, hintTerm) == Min({hint - 1, LastIndex(l) + 1})

\* The follower's hint: skip the conflicting term unless the leader has it too.
BackOff(l, hint, hintTerm) ==
    LET own == IF hintTerm # 0 THEN LastIndexOfTerm(l, hintTerm) ELSE 0
        next == IF own # 0 THEN own + 1 ELSE hint
    IN  Max({1, Min({next, LastIndex(l) + 1})})

\* The log agrees with the snapshot at its last index: the suffix is kept.
KeepSuffix(l, snap) == HasTerm(l, snap.index) /\ TermAt(l, snap.index) = snap.term
============================================================================
