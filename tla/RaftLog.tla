------------------------------ MODULE RaftLog ------------------------------
(***************************************************************************)
(* The in-memory Raft log of internal/raft/log.go as a value.              *)
(*                                                                         *)
(* Entries up to and including snapIndex have been folded into a snapshot. *)
(* entries[k] is the log entry with index snapIndex + k.  An entry is      *)
(* represented by its term: a leader appends at most one entry per index,  *)
(* so the pair (index, term) names the command, and no property of this    *)
(* project looks inside the command.                                       *)
(***************************************************************************)
EXTENDS Integers, Sequences, FiniteSetsExt

Log == [snapIndex : Nat, snapTerm : Nat, entries : Seq(Nat)]

EmptyLog == [snapIndex |-> 0, snapTerm |-> 0, entries |-> <<>>]

LastIndex(l) == l.snapIndex + Len(l.entries)

LastTerm(l) ==
    IF l.entries = <<>> THEN l.snapTerm ELSE l.entries[Len(l.entries)]

\* The `ok` result of raftLog.term: neither compacted away nor past the end.
HasTerm(l, i) == l.snapIndex <= i /\ i <= LastIndex(l)

TermAt(l, i) ==
    IF i = l.snapIndex THEN l.snapTerm
    ELSE IF HasTerm(l, i) THEN l.entries[i - l.snapIndex] ELSE 0

\* raftLog.slice panics outside this range (an empty range is never a panic).
SliceInRange(l, lo, hi) == lo <= hi => lo > l.snapIndex /\ hi <= LastIndex(l)

Slice(l, lo, hi) == SubSeq(l.entries, lo - l.snapIndex, hi - l.snapIndex)

AppendTo(l, es) == [l EXCEPT !.entries = @ \o es]

TruncateFrom(l, i) ==
    IF i > LastIndex(l) THEN l
    ELSE [l EXCEPT !.entries = SubSeq(@, 1, i - l.snapIndex - 1)]

\* The backward scan stops at the first index whose predecessor is compacted
\* or has another term.
FirstIndexOfTerm(l, t, from) ==
    Min({from} \cup {i \in (l.snapIndex + 1)..from :
                        \A j \in i..(from - 1) : TermAt(l, j) = t})

\* The backward scan gives up at the first smaller term it meets.
LastIndexOfTerm(l, t) ==
    LET hits == {k \in DOMAIN l.entries :
                    /\ l.entries[k] = t
                    /\ \A j \in (k + 1)..Len(l.entries) : l.entries[j] >= t}
    IN  IF hits = {} THEN 0 ELSE l.snapIndex + Max(hits)

CompactTo(l, i, t) ==
    IF i <= l.snapIndex THEN l
    ELSE [snapIndex |-> i, snapTerm |-> t,
          entries |-> IF i >= LastIndex(l) THEN <<>>
                      ELSE SubSeq(l.entries, i - l.snapIndex + 1, Len(l.entries))]

Reset(i, t) == [snapIndex |-> i, snapTerm |-> t, entries |-> <<>>]
=============================================================================
