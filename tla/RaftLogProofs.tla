---------------------------- MODULE RaftLogProofs ----------------------------
(***************************************************************************)
(* What the operations of the log return, for every log: the facts about   *)
(* internal/raft/log.go that the proofs about Raft rest on.                *)
(***************************************************************************)
EXTENDS RaftLog, TLAPS, SequenceTheorems, WellFoundedInduction

----------------------------------------------------------------------------
\* The smallest element of a non-empty set of naturals exists and is chosen by
\* Min; the prover has no built-in notion of it.
LEMMA MinOfNats ==
    ASSUME NEW S \in SUBSET Nat, S # {}
    PROVE  Min(S) \in S /\ \A y \in S : Min(S) <= y
<1>. DEFINE R == {ss \in Nat \X Nat : ss[1] < ss[2]}
<1>1. IsWellFoundedOn(R, Nat)
    BY NatLessThanWellFounded DEF OpToRel
<1>. HIDE DEF R
<1>2. PICK x \in S : \A y \in S : ~(<<y, x>> \in R)
    BY <1>1, WFMin, Zenon
<1>3. ASSUME NEW y \in S PROVE x <= y
    <2>1. y < x => <<y, x>> \in R
        BY DEF R
    <2>. QED
        BY <2>1, <1>2
<1>. QED
    BY <1>3, Zenon DEF Min

\* The same for the largest element of a set of naturals with a bound.
LEMMA MaxOfNats ==
    ASSUME NEW S \in SUBSET Nat, S # {}, NEW b \in Nat, \A x \in S : x <= b
    PROVE  Max(S) \in S /\ \A y \in S : y <= Max(S)
<1>. DEFINE T == {b - x : x \in S}
<1>1. T \in SUBSET Nat /\ T # {}
    <2>1. \A x \in S : b - x \in Nat
        OBVIOUS
    <2>. QED
        BY <2>1, Zenon
<1>2. Min(T) \in T /\ \A y \in T : Min(T) <= y
    BY <1>1, MinOfNats, Zenon
<1>3. PICK x \in S : Min(T) = b - x
    BY <1>2, Zenon
<1>4. ASSUME NEW y \in S PROVE y <= x
    <2>1. b - y \in T
        OBVIOUS
    <2>2. b - x <= b - y
        BY <2>1, <1>2, <1>3, Zenon
    <2>. QED
        BY <2>2
<1>. QED
    BY <1>4, Zenon DEF Max

\* Of two naturals.
LEMMA MaxOfTwo ==
    ASSUME NEW a \in Nat, NEW b \in Nat
    PROVE  Max({a, b}) \in {a, b} /\ Max({a, b}) >= a /\ Max({a, b}) >= b
<1>. QED
    BY DEF Max

LEMMA MinOfTwo ==
    ASSUME NEW a \in Nat, NEW b \in Nat
    PROVE  Min({a, b}) \in {a, b} /\ Min({a, b}) <= a /\ Min({a, b}) <= b
<1>. QED
    BY DEF Min

----------------------------------------------------------------------------
\* Indexes and terms of a log are naturals.
LEMMA LastIndexType ==
    ASSUME NEW l \in Log
    PROVE  LastIndex(l) \in Nat /\ LastIndex(l) = l.snapIndex + Len(l.entries)
<1>. QED
    BY DEF LastIndex, Log

LEMMA LastTermType ==
    ASSUME NEW l \in Log
    PROVE  LastTerm(l) \in Nat
<1>. QED
    BY DEF LastTerm, Log

LEMMA TermAtType ==
    ASSUME NEW l \in Log, NEW i \in Nat
    PROVE  TermAt(l, i) \in Nat
<1>1. CASE i = l.snapIndex
    BY <1>1 DEF TermAt, Log
<1>2. CASE i # l.snapIndex /\ HasTerm(l, i)
    <2>1. i - l.snapIndex \in 1..Len(l.entries)
        BY <1>2 DEF HasTerm, LastIndex, Log
    <2>. QED
        BY <1>2, <2>1 DEF TermAt, Log
<1>3. CASE i # l.snapIndex /\ ~HasTerm(l, i)
    BY <1>3 DEF TermAt
<1>. QED
    BY <1>1, <1>2, <1>3

----------------------------------------------------------------------------
\* Pieces of a sequence of naturals.
LEMMA SubSeqType ==
    ASSUME NEW s \in Seq(Nat), NEW a \in Int, NEW b \in Int,
           a > b \/ (1 <= a /\ b <= Len(s))
    PROVE  SubSeq(s, a, b) \in Seq(Nat)
<1>1. \A i \in a..b : s[i] \in Nat
    OBVIOUS
<1>. QED
    BY <1>1, SubSeqProperties

\* raftLog.slice within its range is a sequence of entries.
LEMMA SliceType ==
    ASSUME NEW l \in Log, NEW lo \in Nat, NEW hi \in Nat, SliceInRange(l, lo, hi)
    PROVE  Slice(l, lo, hi) \in Seq(Nat)
<1>1. l.entries \in Seq(Nat) /\ l.snapIndex \in Nat
    BY DEF Log
<1>2. lo - l.snapIndex > hi - l.snapIndex
      \/ (1 <= lo - l.snapIndex /\ hi - l.snapIndex <= Len(l.entries))
    BY <1>1 DEF SliceInRange, LastIndex
<1>3. lo - l.snapIndex \in Int /\ hi - l.snapIndex \in Int
    BY <1>1
<1>4. SubSeq(l.entries, lo - l.snapIndex, hi - l.snapIndex) \in Seq(Nat)
    BY <1>1, <1>2, <1>3, SubSeqType
<1>. QED
    BY <1>4 DEF Slice

\* Every operation of the log returns a log.
LEMMA AppendToType ==
    ASSUME NEW l \in Log, NEW es \in Seq(Nat)
    PROVE  AppendTo(l, es) \in Log
<1>1. l.entries \in Seq(Nat)
    BY DEF Log
<1>2. l.entries \o es \in Seq(Nat)
    BY <1>1, ConcatProperties
<1>. QED
    BY <1>2, Zenon DEF AppendTo, Log

LEMMA TruncateFromType ==
    ASSUME NEW l \in Log, NEW i \in Nat
    PROVE  TruncateFrom(l, i) \in Log
<1>1. CASE i > LastIndex(l)
    BY <1>1 DEF TruncateFrom
<1>2. CASE ~(i > LastIndex(l))
    <2>1. l.entries \in Seq(Nat) /\ l.snapIndex \in Nat
        BY DEF Log
    <2>2. i - l.snapIndex - 1 \in Int /\ i - l.snapIndex - 1 <= Len(l.entries)
        BY <1>2, <2>1 DEF LastIndex
    <2>3. SubSeq(l.entries, 1, i - l.snapIndex - 1) \in Seq(Nat)
        BY <2>1, <2>2, SubSeqType
    <2>. QED
        BY <1>2, <2>3, Zenon DEF TruncateFrom, Log
<1>. QED
    BY <1>1, <1>2

LEMMA CompactToType ==
    ASSUME NEW l \in Log, NEW i \in Nat, NEW t \in Nat
    PROVE  CompactTo(l, i, t) \in Log
<1>. DEFINE rest == SubSeq(l.entries, i - l.snapIndex + 1, Len(l.entries))
<1>1. l.entries \in Seq(Nat) /\ l.snapIndex \in Nat
    BY DEF Log
<1>2. i > l.snapIndex => rest \in Seq(Nat)
    BY <1>1, SubSeqType
<1>. QED
    BY <1>1, <1>2 DEF CompactTo, Log

LEMMA ResetType ==
    ASSUME NEW i \in Nat, NEW t \in Nat
    PROVE  Reset(i, t) \in Log
<1>. QED
    BY DEF Reset, Log

\* The two scans of the fast back-off return indexes.
LEMMA FirstIndexOfTermType ==
    ASSUME NEW l \in Log, NEW t \in Nat, NEW from \in Nat
    PROVE  FirstIndexOfTerm(l, t, from) \in Nat
<1>. DEFINE S == {from} \cup {i \in (l.snapIndex + 1)..from :
                                \A j \in i..(from - 1) : TermAt(l, j) = t}
<1>1. S \in SUBSET Nat /\ S # {}
    BY DEF Log
<1>2. Min(S) \in S
    BY <1>1, MinOfNats
<1>. QED
    BY <1>1, <1>2 DEF FirstIndexOfTerm

LEMMA LastIndexOfTermType ==
    ASSUME NEW l \in Log, NEW t \in Nat
    PROVE  LastIndexOfTerm(l, t) \in Nat
<1>. DEFINE hits == {k \in DOMAIN l.entries :
                        /\ l.entries[k] = t
                        /\ \A j \in (k + 1)..Len(l.entries) : l.entries[j] >= t}
<1>1. hits \in SUBSET Nat /\ \A k \in hits : k <= Len(l.entries)
    BY DEF Log
<1>2. Len(l.entries) \in Nat /\ l.snapIndex \in Nat
    BY DEF Log
<1>3. hits # {} => Max(hits) \in Nat
    BY <1>1, <1>2, MaxOfNats, Zenon
<1>. QED
    BY <1>2, <1>3 DEF LastIndexOfTerm
=============================================================================
