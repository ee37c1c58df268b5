----------------------------- MODULE RaftStore -----------------------------
(***************************************************************************)
(* The durable storage of one Raft replica: internal/raftstore on top of   *)
(* the segmented write-ahead log of internal/wal, with the calls that      *)
(* internal/raft makes to it.                                              *)
(*                                                                         *)
(* An entry is its index and term, a hard state its term, and the data of  *)
(* a snapshot the terms of all entries up to its last one.  A record that  *)
(* readSegment cannot use (short or with a bad checksum) is TornRec.       *)
(* Sizes are counted in records.                                           *)
(*                                                                         *)
(* hist, commit and term are what the replica holds in memory: hist is its *)
(* whole log, the part under snapshots included, and has been acknowledged *)
(* to others, so it is what recovery owes.  agreed is external: commits    *)
(* and snapshots of one group never contradict each other                  *)
(* (StateMachineSafety of RaftSafety).                                     *)
(***************************************************************************)
EXTENDS Integers, Sequences, FiniteSets, SequencesExt

CONSTANTS
    SegmentSize,      \* wal.Options.SegmentSize
    MaxIndex, MaxTerm, MaxSaves, MaxSnapshots, MaxOverwrites, MaxCrashes  \* bounds

VARIABLES
    \* On disk.
    segments,         \* WAL segment files, oldest first; the last is active
    snaps,            \* snapshot files that have their final name
    \* Fields of Store; undefined while the process is down.
    hs, meta, lastIndex,
    saver,            \* the SaveSnapshot calls of the applier and of an install
    \* The replica above.
    up, hist, commit, term,
    agreed,           \* what the group has committed, as far as this replica was told
    spent,            \* what the bounds have left
    marks             \* headless: a crash in a rotation left a segment without its head;
                      \* revived: a restart brought back a tail that was overwritten

disk == <<segments, snaps>>
fields == <<hs, meta, lastIndex>>
replica == <<hist, commit, term>>
vars == <<disk, fields, saver, up, replica, agreed, spent, marks>>

Caller == {"applier", "install"}

EntryRec(i, t) == [type |-> "entry", index |-> i, term |-> t]
HardStateRec(t) == [type |-> "hardState", term |-> t]
TornRec == [type |-> "torn"]

\* A nil snapshot or hard state reads as all zeros.
NoMeta == [index |-> 0, term |-> 0, minSeq |-> 0, data |-> <<>>]

IdleSaver == [pc |-> "idle", snap |-> NoMeta, discard |-> FALSE]

Init ==
    /\ segments = <<[seq |-> 1, tag |-> 0, recs |-> <<>>]>>
    /\ snaps = {}
    /\ hs = 0 /\ meta = NoMeta /\ lastIndex = 0
    /\ saver = [c \in Caller |-> IdleSaver]
    /\ up = TRUE
    /\ hist = <<>> /\ commit = 0 /\ term = 0
    /\ agreed = <<>>
    /\ spent = [saves |-> 0, snapshots |-> 0, overwrites |-> 0, crashes |-> 0]
    /\ marks = [headless |-> FALSE, revived |-> FALSE]

----------------------------------------------------------------------------
(* internal/wal                                                             *)

AppendRecords(segs, recs) ==
    [segs EXCEPT ![Len(segs)].recs = @ \o recs]

ShouldRotate(segs) == Len(Last(segs).recs) >= SegmentSize

\* Mutant: segments are numbered by how many there are.
RotateByCount(segs, tag, head) ==
    Append(segs, [seq |-> Len(segs) + 1, tag |-> tag, recs |-> head])

Rotate(segs, tag, head) ==
    Append(segs, [seq |-> Last(segs).seq + 1, tag |-> tag, recs |-> head])

RemoveBefore(segs, seq) ==
    SelectSeq(segs, LAMBDA s : s.seq >= seq \/ s.seq = Last(segs).seq)

\* readSegment: the records before the first bad one.
Readable(recs) ==
    LET bad == {k \in DOMAIN recs : recs[k] = TornRec}
    IN  IF bad = {} THEN recs ELSE SubSeq(recs, 1, Min(bad) - 1)

\* Mutant: the bad tail is skipped and left in the file.
LeaveTail(segs) == segs

\* ReadAll cuts a bad tail off the last segment.
TruncateTail(segs) == [segs EXCEPT ![Len(segs)].recs = Readable(@)]

\* ReadAll's ErrCorrupt: a bad record in a sealed segment.
Corrupt(segs, minSeq) ==
    \E k \in 1..(Len(segs) - 1) :
        segs[k].seq >= minSeq /\ Readable(segs[k].recs) # segs[k].recs

ReadAll(segs, minSeq) ==
    FlattenSeq([k \in DOMAIN segs |->
        IF segs[k].seq >= minSeq THEN Readable(segs[k].recs) ELSE <<>>])

----------------------------------------------------------------------------
(* Store.Load                                                               *)

\* loadNewestSnapshot: by name, that is by index and then by term.
NewestSnapshot(files) ==
    IF files = {} THEN NoMeta
    ELSE CHOOSE f \in files : \A g \in files :
            f.index > g.index \/ (f.index = g.index /\ f.term >= g.term)

\* What Load has read so far; gap is its "gap in log" error.
ReplayRecord(snapIndex, got, rec) ==
    LET pos == rec.index - snapIndex - 1
    IN  IF rec.type = "hardState" THEN [got EXCEPT !.hs = rec.term]
        ELSE IF got.gap \/ rec.index <= snapIndex THEN got
        ELSE IF pos > Len(got.entries) THEN [got EXCEPT !.gap = TRUE]
        ELSE [got EXCEPT !.entries = Append(SubSeq(@, 1, pos), rec.term)]

Replay(snapIndex, recs) ==
    FoldLeft(LAMBDA got, rec : ReplayRecord(snapIndex, got, rec),
             [hs |-> 0, entries |-> <<>>, gap |-> FALSE], recs)

\* The result of Load: a hard state, a snapshot and the log after it.
Load(segs, files) ==
    LET m == NewestSnapshot(files)
        got == Replay(m.index, ReadAll(segs, m.minSeq))
    IN  [ok |-> ~Corrupt(segs, m.minSeq) /\ ~got.gap,
         meta |-> m, hs |-> got.hs, hist |-> m.data \o got.entries]

----------------------------------------------------------------------------
(* Garbage collection: gcLocked                                             *)

\* Everything live before a segment with this tag is inside the snapshot.
Covered(tag, m) == tag <= m.index + 1

RemoveBound(segs, m) ==
    Max({m.minSeq} \cup {segs[k].seq : k \in
            {j \in 2..Len(segs) : \A i \in 2..j : Covered(segs[i].tag, m)}})

GcSegments(segs, m) == IF m = NoMeta THEN segs ELSE RemoveBefore(segs, RemoveBound(segs, m))

\* Mutant: every file but the current one goes.
GcAllSnaps(files, m) ==
    IF m = NoMeta THEN files
    ELSE {f \in files : f.index = m.index /\ f.term = m.term}

\* A file with a higher index may be about to be published.
GcSnaps(files, m) ==
    IF m = NoMeta THEN files
    ELSE {f \in files : (f.index = m.index /\ f.term = m.term) \/ f.index > m.index}

\* What a power failure can leave of a GC that was removing segments.
GcImages(segs, m) ==
    LET kept == GcSegments(segs, m)
        Survivor(s) == s \in ToSet(kept)
        gone == {s \in ToSet(segs) : ~Survivor(s)}
    IN  {SelectSeq(segs, LAMBDA s : Survivor(s) \/ s \in back) : back \in SUBSET gone}

----------------------------------------------------------------------------
(* Store.Save and the replica's calls to it (persistLocked).                *)

\* Mutant: the new segment does not open with the hard state.
NoHead(h) == <<>>

HeadRecords(h) == IF h = 0 THEN <<>> ELSE <<HardStateRec(h)>>

\* rotateLocked.
Rotated(segs, h, last) == Rotate(segs, last + 1, HeadRecords(h))

Save(recs, h, last) ==
    LET written == AppendRecords(segments, recs)
    IN  /\ hs' = h
        /\ lastIndex' = last
        /\ \/ /\ ShouldRotate(written)
              /\ segments' = GcSegments(Rotated(written, h, last), meta)
              /\ snaps' = GcSnaps(snaps, meta)
           \/ /\ ~ShouldRotate(written)
              /\ segments' = written
              /\ snaps' = snaps

\* The replica's mutex is free: HandleInstallSnapshot holds it throughout.
RaftMuFree == up /\ saver["install"].pc = "idle"

\* A new term or a vote.
SaveHardState ==
    /\ RaftMuFree
    /\ term < MaxTerm /\ spent.saves < MaxSaves
    /\ term' = term + 1
    /\ Save(<<HardStateRec(term')>>, term', lastIndex)
    /\ spent' = [spent EXCEPT !.saves = @ + 1]
    /\ UNCHANGED <<meta, saver, up, hist, commit, agreed, marks>>

\* Logs whose terms never decrease and are at most the replica's.
IsLog(h) == \A i \in DOMAIN h : h[i] <= term /\ (i > 1 => h[i - 1] <= h[i])

\* The log after entries have been appended, or have replaced a conflicting tail.
Overwritten(from, es) == SubSeq(hist, 1, from - 1) \o es

\* What a leader appends or a follower accepts: never at or below commitIndex.
Saveable(from, es) ==
    /\ RaftMuFree
    /\ spent.saves < MaxSaves
    /\ from \in (commit + 1)..(Len(hist) + 1)
    /\ from + Len(es) - 1 <= MaxIndex
    /\ IsLog(Overwritten(from, es))
    /\ from <= Len(hist) => hist[from] # es[1] /\ spent.overwrites < MaxOverwrites

SpendSave(from) ==
    [spent EXCEPT !.saves = @ + 1,
                  !.overwrites = IF from <= Len(hist) THEN @ + 1 ELSE @]

EntryRecords(from, es) == [k \in DOMAIN es |-> EntryRec(from + k - 1, es[k])]

SaveEntries(from, es) ==
    /\ Saveable(from, es)
    /\ hist' = Overwritten(from, es)
    /\ Save(EntryRecords(from, es), hs, from + Len(es) - 1)
    /\ spent' = SpendSave(from)
    /\ UNCHANGED <<meta, saver, up, commit, term, agreed, marks>>

\* The group commits h: it contradicts nothing the group committed before.
Agree(h) ==
    \/ IsPrefix(h, agreed) /\ UNCHANGED agreed
    \/ IsStrictPrefix(agreed, h) /\ agreed' = h

Commit ==
    /\ RaftMuFree
    /\ commit' \in (commit + 1)..Len(hist)
    /\ Agree(SubSeq(hist, 1, commit'))
    /\ UNCHANGED <<disk, fields, saver, up, hist, term, spent, marks>>

----------------------------------------------------------------------------
(* Store.SaveSnapshot: one step per critical section or file operation.     *)

SnapMuFree == \A c \in Caller : saver[c].pc = "idle"

MinSeq(discard) == IF discard THEN Last(segments).seq + 1 ELSE meta.minSeq

\* A snapshot that is not newer than the current one is ignored.
SnapshotStarts(snap) ==
    /\ SnapMuFree
    /\ spent.snapshots < MaxSnapshots
    /\ snap.index > meta.index

SaveSnapshot(c, snap, discard) ==
    /\ SnapshotStarts(snap)
    /\ \/ /\ discard
          /\ lastIndex' = snap.index
          /\ segments' = Rotated(segments, hs, lastIndex')
       \/ ~discard /\ UNCHANGED <<lastIndex, segments>>
    /\ saver' = [saver EXCEPT ![c] = [pc |-> "write", discard |-> discard,
                    snap |-> [snap EXCEPT !.minSeq = MinSeq(discard)]]]
    /\ spent' = [spent EXCEPT !.snapshots = @ + 1]
    /\ UNCHANGED <<snaps, hs, meta, up, replica, marks>>

SnapshotOf(h) == [index |-> Len(h), term |-> Last(h), minSeq |-> 0, data |-> h]

\* takeSnapshot, without the replica's mutex.
TakeSnapshot ==
    /\ up
    /\ \E i \in 1..commit : SaveSnapshot("applier", SnapshotOf(SubSeq(hist, 1, i)), FALSE)
    /\ UNCHANGED agreed

\* HandleInstallSnapshot: the log disagrees with the snapshot or ends before it.
MustDiscard(h) == ~(Len(h) <= Len(hist) /\ hist[Len(h)] = Last(h))

\* The log a leader's snapshot stands for.  It equals the log here if they share
\* the last entry (LogMatching).
Installable(h) ==
    /\ RaftMuFree
    /\ Len(h) \in (commit + 1)..MaxIndex
    /\ IsLog(h)
    /\ MustDiscard(h) \/ IsPrefix(h, hist)
    /\ Agree(h)

Install(h) == Installable(h) /\ SaveSnapshot("install", SnapshotOf(h), MustDiscard(h))

\* writeSnapshotFile up to its rename, which replaces a file of the same name.
RenameSnapshot(c) ==
    LET snap == saver[c].snap
    IN  /\ saver[c].pc = "write"
        /\ snaps' = {f \in snaps : f.index # snap.index \/ f.term # snap.term} \cup {snap}
        /\ saver' = [saver EXCEPT ![c].pc = "publish"]
        /\ UNCHANGED <<segments, fields, up, replica, agreed, spent, marks>>

\* The applier logs a failed write and goes on; an install would panic.  When the
\* sync of the directory fails the file has its final name, but is not published.
WriteFails ==
    /\ saver["applier"].pc \in {"write", "publish"}
    /\ saver' = [saver EXCEPT !["applier"] = IdleSaver]
    /\ UNCHANGED <<disk, fields, up, replica, agreed, spent, marks>>

NewerMeta(snap) == IF snap.index > meta.index THEN snap ELSE meta

\* The log once an install has returned.
AfterInstall == IF saver["install"].discard THEN saver["install"].snap.data ELSE hist

Publish(c) ==
    LET m == NewerMeta(saver[c].snap)
    IN  /\ saver[c].pc = "publish"
        /\ meta' = m
        /\ segments' = GcSegments(segments, m)
        /\ snaps' = GcSnaps(snaps, m)
        /\ saver' = [saver EXCEPT ![c] = IdleSaver]
        /\ \/ c = "install" /\ hist' = AfterInstall /\ commit' = saver[c].snap.index
           \/ c = "applier" /\ UNCHANGED <<hist, commit>>
        /\ UNCHANGED <<hs, lastIndex, up, term, agreed, spent, marks>>

----------------------------------------------------------------------------
(* Crashes, and what they can leave on the disk.                            *)

\* What a crash between createSegment and the sync of the head can leave of it.
PartialHeads == {<<>>, <<TornRec>>}

\* segs end in a new segment that does not open with the hard state t.
HeadMissing(segs, t) ==
    Last(segs).seq # Last(segments).seq /\ Last(segs).recs # HeadRecords(t)

\* Only the first k records of a batch were written, the next one perhaps in
\* part; or the batch was, and the process died in the rotation or GC after it.
SaveImages(recs, k, h, last) ==
    LET written == AppendRecords(segments, SubSeq(recs, 1, k))
    IN  IF k < Len(recs) THEN {written, AppendRecords(written, <<TornRec>>)}
        ELSE IF ~ShouldRotate(written) THEN {written}
        ELSE {written} \cup {Rotate(written, last + 1, head) : head \in PartialHeads}
                \cup GcImages(Rotated(written, h, last), meta)

\* The log a restart owes: an install counts from its rename on.
Owed == IF saver["install"].pc = "publish" THEN AfterInstall ELSE hist

\* used is what the interrupted step spent.
Die(segs, h, t, used) ==
    /\ up
    /\ spent.crashes < MaxCrashes
    /\ up' = FALSE
    /\ segments' = segs
    /\ hist' = h
    /\ term' = t
    /\ saver' = [c \in Caller |-> IdleSaver]
    /\ spent' = [used EXCEPT !.crashes = @ + 1]
    /\ marks' = [marks EXCEPT !.headless = @ \/ HeadMissing(segs, t)]
    /\ UNCHANGED <<snaps, fields, commit>>

\* Between two steps, or in one that had not reached the disk.
Crash == Die(segments, Owed, term, spent) /\ UNCHANGED agreed

CrashInSaveHardState ==
    /\ RaftMuFree
    /\ term < MaxTerm
    /\ \E k \in 0..1 : \E img \in SaveImages(<<HardStateRec(term + 1)>>, k, term + 1, lastIndex) :
          Die(img, hist, term + k, spent)
    /\ UNCHANGED agreed

CrashInSaveEntries(from, es) ==
    /\ Saveable(from, es)
    /\ \E k \in 0..Len(es) :
          \E img \in SaveImages(EntryRecords(from, es), k, hs, from + Len(es) - 1) :
             \/ k = 0 /\ Die(img, hist, term, spent)
             \/ k > 0 /\ Die(img, Overwritten(from, SubSeq(es, 1, k)), term, SpendSave(from))
    /\ UNCHANGED agreed

\* The rotation of a discarding install, before or after its head was written.
CrashInInstall(h) ==
    /\ Installable(h)
    /\ MustDiscard(h)
    /\ SnapshotStarts(SnapshotOf(h))
    /\ \E head \in PartialHeads \cup {HeadRecords(hs)} :
          Die(Rotate(segments, Len(h) + 1, head), hist, term, spent)

CrashInPublish(c) ==
    /\ saver[c].pc = "publish"
    /\ \E img \in GcImages(segments, NewerMeta(saver[c].snap)) : Die(img, Owed, term, spent)
    /\ UNCHANGED agreed

\* Open, Load and raft.New.  If Load fails the process does not start.
Restart ==
    LET loaded == Load(segments, snaps)
    IN  /\ ~up
        /\ loaded.ok
        /\ up' = TRUE
        /\ segments' = GcSegments(TruncateTail(segments), loaded.meta)
        /\ snaps' = GcSnaps(snaps, loaded.meta)
        /\ hs' = loaded.hs
        /\ meta' = loaded.meta
        /\ lastIndex' = Len(loaded.hist)
        /\ hist' = loaded.hist
        /\ commit' = loaded.meta.index
        /\ term' = loaded.hs
        /\ marks' = [marks EXCEPT !.revived = @ \/ loaded.hist # hist]
        /\ UNCHANGED <<saver, agreed, spent>>

\* A restart dies in its turn, while Load is cutting the tail or removing segments.
CrashInRestart ==
    LET loaded == Load(segments, snaps)
    IN  /\ ~up
        /\ loaded.ok
        /\ segments' \in GcImages(TruncateTail(segments), loaded.meta)
        /\ UNCHANGED <<snaps, fields, saver, up, replica, agreed, spent, marks>>

----------------------------------------------------------------------------

Batches == UNION {[1..k -> 1..MaxTerm] : k \in 1..2}
Logs == UNION {[1..k -> 1..MaxTerm] : k \in 1..MaxIndex}

Next ==
    \/ SaveHardState
    \/ \E from \in 1..MaxIndex, es \in Batches : SaveEntries(from, es)
    \/ Commit
    \/ TakeSnapshot
    \/ \E h \in Logs : Install(h)
    \/ \E c \in Caller : RenameSnapshot(c) \/ Publish(c)
    \/ WriteFails
    \/ Crash
    \/ CrashInSaveHardState
    \/ \E from \in 1..MaxIndex, es \in Batches : CrashInSaveEntries(from, es)
    \/ \E h \in Logs : CrashInInstall(h)
    \/ \E c \in Caller : CrashInPublish(c)
    \/ Restart
    \/ CrashInRestart

Spec == Init /\ [][Next]_vars

\* Damage to the medium: a record of the active segment goes bad.
Damage ==
    /\ ~up
    /\ \E k \in DOMAIN Last(segments).recs :
          segments' = [segments EXCEPT ![Len(segments)].recs[k] = TornRec]
    /\ UNCHANGED <<snaps, fields, saver, up, replica, agreed, spent, marks>>

DamageSpec == Init /\ [][Next \/ Damage]_vars

----------------------------------------------------------------------------
(* Properties                                                               *)

\* The log, hard state, snapshots and calls have their shapes, and the segments
\* are numbered upwards: listSegments and createSegment agree on the active one.
TypeOK ==
    /\ up \in BOOLEAN
    /\ hist \in Seq(1..MaxTerm) /\ commit \in 0..MaxIndex /\ term \in 0..MaxTerm
    /\ hs \in 0..MaxTerm /\ lastIndex \in 0..MaxIndex
    /\ \A c \in Caller : saver[c].pc \in {"idle", "write", "publish"}
    /\ segments # <<>>
    /\ \A i, j \in DOMAIN segments : i < j => segments[i].seq < segments[j].seq

\* Whenever the process dies, in the middle of a Save, a rotation, a GC or a
\* snapshot, Load succeeds and returns all of the log the replica had; and
\* nothing else, unless a conflicting tail has been overwritten.
RecoversLog ==
    LET loaded == Load(segments, snaps)
    IN  /\ loaded.ok
        /\ ~marks.revived => IsPrefix(Owed, loaded.hist)
        /\ spent.overwrites = 0 => loaded.hist = Owed

\* "Load returns everything that was saved", and only that: the log that comes
\* back after any crash is the log the replica had.
RecoversExactLog ==
    LET loaded == Load(segments, snaps) IN loaded.ok /\ loaded.hist = Owed

\* The term and vote survive the deletion of the segment they were written to,
\* as long as no crash has come between a new segment and its head.
HardStateSurvives == marks.headless \/ Load(segments, snaps).hs = term

\* "Every rotation re-states term/vote in the new segment so old segments can be
\* deleted": the term and vote survive any crash.
HardStateIsDurable == Load(segments, snaps).hs = term

\* The snapshot that Store believes in, and Snapshot() reads for a follower, has
\* its file, whatever GC runs between another one's rename and its publication.
SnapshotReadable == up /\ meta # NoMeta => meta \in snaps

\* "The same damage anywhere else returns ErrCorrupt": only the last record of
\* the last segment may be dropped as torn.
DamageIsReported ==
    LET recs == Last(segments).recs
    IN  (\E k \in 1..(Len(recs) - 1) : recs[k] = TornRec) => ~Load(segments, snaps).ok

=============================================================================
