------------------------------ MODULE RaftTypes ------------------------------
(***************************************************************************)
(* Type correctness of Raft for every group, every configuration and every *)
(* value of the bounds.                                                    *)
(***************************************************************************)
EXTENDS Raft, RaftLogProofs, FiniteSetTheorems

----------------------------------------------------------------------------
(* What the operators of the model return.                                  *)

\* The type of a message says which record it is.
LEMMA MessageKinds ==
    ASSUME NEW m \in Message
    PROVE  /\ m.type = "vote" => m \in VoteMsg
           /\ m.type = "newerTerm" => m \in NewerTermMsg
           /\ m.type = "append" => m \in AppendMsg
           /\ m.type = "appendReply" => m \in AppendReplyMsg
           /\ m.type = "snapshot" => m \in SnapshotMsg
           /\ m.type = "snapshotReply" => m \in SnapshotReplyMsg
           /\ m.type = "timeoutNow" => m \in TimeoutNowMsg
           /\ m.from \in Node /\ m.to \in Node /\ m.term \in Nat
<1>. QED
    BY DEF Message, VoteMsg, NewerTermMsg, AppendMsg, AppendReplyMsg, SnapshotMsg,
           SnapshotReplyMsg, TimeoutNowMsg, Term

\* A commit index computed from typed matches is an index.
LEMMA NewCommitIndexType ==
    ASSUME TypeOK, NEW n \in Node, NEW l \in Log, NEW match \in [Node -> Nat]
    PROVE  NewCommitIndex(n, l, match) \in Nat
<1>. DEFINE held == Held(n, l, match)
            next == {c \in {held[p] : p \in Node} :
                        IsQuorumIndex(held, c) /\ MayCommit(n, l, c)}
<1>1. held \in [Node -> Nat]
    BY LastIndexType DEF Held
<1>. HIDE DEF held
<1>2. next \in SUBSET Nat
    BY <1>1
<1>3. commitIndex[n] \in Nat
    BY DEF TypeOK, Index
<1>4. NewCommitIndex(n, l, match) = IF next = {} THEN commitIndex[n] ELSE CHOOSE c \in next : TRUE
    BY DEF NewCommitIndex, held
<1>. HIDE DEF next
<1>. QED
    BY <1>2, <1>3, <1>4, Zenon

\* The merged log of a follower is a log.
LEMMA MergeEntriesType ==
    ASSUME NEW l \in Log, NEW prev \in Nat, NEW es \in Seq(Nat)
    PROVE  MergeEntries(l, prev, es) \in Log
<1>. DEFINE same(k) == HasTerm(l, prev + k) /\ TermAt(l, prev + k) = es[k]
            new == {k \in DOMAIN es : ~same(k)}
            first == FirstFresh(l, prev, es)
<1>1. CASE \A k \in DOMAIN es : same(k)
    BY <1>1 DEF MergeEntries
<1>2. CASE ~ \A k \in DOMAIN es : same(k)
    <2>1. new # {} /\ new \in SUBSET Nat
        BY <1>2
    <2>2. first \in new
        BY <2>1, MinOfNats, Zenon DEF FirstFresh
    <2>3. first \in 1..Len(es)
        BY <2>2
    <2>. HIDE DEF first
    <2>4. SubSeq(es, first, Len(es)) \in Seq(Nat)
        BY <2>3, SubSeqType
    <2>5. TruncateFrom(l, prev + first) \in Log
        BY <2>3, TruncateFromType
    <2>6. AppendTo(TruncateFrom(l, prev + first), SubSeq(es, first, Len(es))) \in Log
        BY <2>4, <2>5, AppendToType, Zenon
    <2>. QED
        BY <1>2, <2>6 DEF MergeEntries, first
<1>. QED
    BY <1>1, <1>2

\* What a follower makes of an AppendEntries request is typed.
LEMMA AppendOutcomeType ==
    ASSUME NEW l \in Log, NEW m \in AppendMsg
    PROVE  AppendOutcome(l, m) \in [success : BOOLEAN, index : Nat, term : Nat,
                                   log : Log, commit : Nat]
<1>. DEFINE skip == IF m.prev < l.snapIndex THEN l.snapIndex - m.prev ELSE 0
            prev == m.prev + skip
            entries == SubSeq(m.entries, skip + 1, Len(m.entries))
            out == [success : BOOLEAN, index : Nat, term : Nat, log : Log, commit : Nat]
<1>1. m.prev \in Nat /\ m.entries \in Seq(Nat) /\ m.commit \in Nat /\ l.snapIndex \in Nat
    BY DEF AppendMsg, Index, Term, Log
<1>2. skip \in Nat /\ prev \in Nat
    BY <1>1
<1>3. entries \in Seq(Nat)
    <2>1. skip + 1 \in Int /\ Len(m.entries) \in Int /\ 1 <= skip + 1
        BY <1>1, <1>2
    <2>. QED
        BY <1>1, <2>1, SubSeqType
<1>. HIDE DEF skip, entries
<1>4. ASSUME NEW k \in Log, NEW c \in Nat PROVE Accept(k, c) \in out
    BY <1>4 DEF Accept
<1>5. ASSUME NEW i \in Nat, NEW t \in Nat PROVE Conflict(l, i, t) \in out
    BY <1>5 DEF Conflict
<1>6. VerifiedCommit(m) \in Nat
    <2>1. m.prev + Len(m.entries) \in Nat
        BY <1>1
    <2>. QED
        BY <1>1, <2>1, MinOfTwo DEF VerifiedCommit
<1>7. MergeEntries(l, prev, entries) \in Log
    BY <1>2, <1>3, MergeEntriesType
<1>8. TermAt(l, prev) \in Nat /\ FirstIndexOfTerm(l, TermAt(l, prev), prev) \in Nat
    BY <1>2, TermAtType, FirstIndexOfTermType, Zenon
<1>9. LastIndex(l) + 1 \in Nat
    BY LastIndexType
<1>10. AppendOutcome(l, m) =
         IF skip > 0 /\ skip >= Len(m.entries) THEN Accept(l, 0)
         ELSE IF prev > LastIndex(l) THEN Conflict(l, LastIndex(l) + 1, 0)
         ELSE IF skip = 0 /\ ~PrevAgrees(l, m)
         THEN Conflict(l, FirstIndexOfTerm(l, TermAt(l, prev), prev), TermAt(l, prev))
         ELSE Accept(MergeEntries(l, prev, entries), VerifiedCommit(m))
    BY DEF AppendOutcome, skip, entries
<1>. HIDE DEF prev, out
<1>11. Accept(l, 0) \in out /\ Accept(MergeEntries(l, prev, entries), VerifiedCommit(m)) \in out
    BY <1>4, <1>6, <1>7
<1>12. /\ Conflict(l, LastIndex(l) + 1, 0) \in out
       /\ Conflict(l, FirstIndexOfTerm(l, TermAt(l, prev), prev), TermAt(l, prev)) \in out
    BY <1>5, <1>8, <1>9
<1>13. AppendOutcome(l, m) \in out
    BY <1>10, <1>11, <1>12
<1>. QED
    BY <1>13 DEF out

\* nextIndex never backs off to 0.
LEMMA BackOffType ==
    ASSUME NEW l \in Log, NEW hint \in Nat, NEW hintTerm \in Nat
    PROVE  BackOff(l, hint, hintTerm) \in Nat \ {0}
<1>. DEFINE own == IF hintTerm # 0 THEN LastIndexOfTerm(l, hintTerm) ELSE 0
            next == IF own # 0 THEN own + 1 ELSE hint
            low == Min({next, LastIndex(l) + 1})
<1>1. own \in Nat
    BY LastIndexOfTermType
<1>. HIDE DEF own
<1>2. next \in Nat
    BY <1>1
<1>. HIDE DEF next
<1>3. low \in Nat
    BY <1>2, MinOfTwo, LastIndexType
<1>. HIDE DEF low
<1>4. Max({1, low}) \in Nat \ {0}
    BY <1>3, MaxOfTwo
<1>. QED
    BY <1>4 DEF BackOff, low, next, own

\* An answer in a newer term is a message.
LEMMA NewerTermType ==
    ASSUME TypeOK, NEW p \in Node, NEW n \in Node, NEW t \in Nat
    PROVE  NewerTerm(p, n, t) \subseteq Message
<1>. QED
    BY DEF NewerTerm, Message, NewerTermMsg, TypeOK, Term

\* Answering a message adds nothing but the answer.
LEMMA RespondType ==
    ASSUME TypeOK, NEW m \in msgs, NEW replies \in SUBSET Message
    PROVE  Respond(m, replies) \subseteq Message
<1>. QED
    BY DEF Respond, TypeOK

----------------------------------------------------------------------------
(* Every step keeps the types.                                              *)

USE DEF Term, Index, durableVars, roleVars, applyVars, progressVars, proposeVars,
        historyVars

\* The budgets only grow.
LEMMA BudgetType ==
    ASSUME NEW s \in Budget
    PROVE  /\ [s EXCEPT !.rounds = s.rounds + 1] \in Budget
           /\ [s EXCEPT !.reads = s.reads + 1] \in Budget
           /\ [s EXCEPT !.transfers = s.transfers + 1] \in Budget
           /\ [s EXCEPT !.crashes = s.crashes + 1] \in Budget
           /\ \A k \in Nat : [s EXCEPT !.timeouts = s.timeouts + k] \in Budget
<1>. QED
    BY DEF Budget

\* becomeFollowerLocked.
LEMMA DemoteType ==
    ASSUME TypeOK, NEW n \in Node, NEW leader \in NodeOrNone, Demote(n, leader)
    PROVE  /\ state' \in [Node -> State] /\ leaderID' \in [Node -> NodeOrNone]
           /\ transferTarget' \in [Node -> NodeOrNone]
           /\ waiters' \in [Node -> SUBSET (Nat \X Nat)]
<1>. QED
    BY Zenon DEF TypeOK, Demote, State, NodeOrNone

LEMMA AdoptTermType ==
    ASSUME TypeOK, NEW n \in Node, NEW t \in Nat, AdoptTerm(n, t)
    PROVE  term' \in [Node -> Nat] /\ votedFor' \in [Node -> NodeOrNone]
<1>. QED
    BY DEF TypeOK, AdoptTerm, NodeOrNone

\* appendProposals and becomeLeaderLocked.
LEMMA LeaderAppendType ==
    ASSUME TypeOK, NEW n \in Node, NEW match \in [Node -> Nat], LeaderAppend(n, match)
    PROVE  rlog' \in [Node -> Log] /\ commitIndex' \in [Node -> Nat]
<1>. DEFINE l == AppendTo(rlog[n], <<term[n]>>)
<1>1. l \in Log
    <2>1. rlog[n] \in Log /\ <<term[n]>> \in Seq(Nat)
        BY DEF TypeOK
    <2>. QED
        BY <2>1, AppendToType, Zenon
<1>2. NewCommitIndex(n, l, match) \in Nat
    BY <1>1, NewCommitIndexType
<1>. QED
    BY <1>1, <1>2 DEF TypeOK, LeaderAppend, CommitTo

LEMMA BecomeLeaderType ==
    ASSUME TypeOK, NEW n \in Node, BecomeLeader(n)
    PROVE  /\ state' \in [Node -> State] /\ leaderID' \in [Node -> NodeOrNone]
           /\ transferTarget' \in [Node -> NodeOrNone]
           /\ nextIndex' \in [Node -> [Node -> Nat \ {0}]]
           /\ matchIndex' \in [Node -> [Node -> Nat]]
           /\ noopIndex' \in [Node -> Nat]
           /\ rlog' \in [Node -> Log] /\ commitIndex' \in [Node -> Nat]
<1>1. LastIndex(rlog[n]) \in Nat
    BY LastIndexType DEF TypeOK
<1>2. NoMatch \in [Node -> Nat]
    BY DEF NoMatch
<1>3. rlog' \in [Node -> Log] /\ commitIndex' \in [Node -> Nat]
    BY <1>2, LeaderAppendType DEF BecomeLeader
<1>4. [p \in Node |-> LastIndex(rlog[n]) + 1] \in [Node -> Nat \ {0}]
    BY <1>1
<1>5. /\ nextIndex' \in [Node -> [Node -> Nat \ {0}]]
      /\ matchIndex' \in [Node -> [Node -> Nat]]
      /\ noopIndex' \in [Node -> Nat]
    BY <1>1, <1>2, <1>4, Zenon DEF TypeOK, BecomeLeader
<1>. QED
    BY <1>3, <1>5 DEF TypeOK, BecomeLeader, State, NodeOrNone

\* voteRequestLocked.
LEMMA RoundType ==
    ASSUME TypeOK, NEW n \in Node, NEW phase \in {"pre", "vote"}, NEW t \in Nat
    PROVE  Round(n, phase, t) \in Campaign
<1>1. LastIndex(rlog[n]) \in Nat /\ LastTerm(rlog[n]) \in Nat
    BY LastIndexType, LastTermType DEF TypeOK
<1>. QED
    BY <1>1 DEF Round, Campaign

LEMMA NoCampaignType == NoCampaign \in Campaign
    BY DEF NoCampaign, Campaign

LEMMA GrantedType ==
    ASSUME NEW c \in Campaign, NEW p \in Node
    PROVE  [c EXCEPT !.granted = c.granted \cup {p}] \in Campaign
<1>. QED
    BY DEF Campaign

LEMMA EndCampaignType ==
    ASSUME TypeOK, NEW n \in Node, EndCampaign(n)
    PROVE  campaign' \in [Node -> Campaign] /\ spent' \in Budget /\ msgs' \subseteq Message
<1>. DEFINE pending == {m \in msgs : /\ m.type = "vote" /\ m.from = n
                                     /\ m.term = campaign[n].term}
<1>1. {m.to : m \in pending} \subseteq Node
    BY MessageKinds DEF TypeOK
<1>2. PICK late \in SUBSET {m.to : m \in pending} :
         /\ spent' = [spent EXCEPT !.timeouts = @ + Cardinality(late)]
         /\ msgs' = msgs \ {m \in pending : m.to \notin late}
    BY DEF EndCampaign
<1>. HIDE DEF pending
<1>3. Cardinality(late) \in Nat
    BY <1>1, NodeAssumption, FS_Subset, FS_CardinalityType
<1>. QED
    <2>1. spent' \in Budget
        <3>1. spent \in Budget
            BY DEF TypeOK
        <3>. QED
            BY <3>1, <1>2, <1>3, BudgetType, Zenon
    <2>. QED
        BY <2>1, <1>2, NoCampaignType DEF TypeOK, EndCampaign

LEMMA RealElectionType ==
    ASSUME TypeOK, NEW n \in Node, RealElection(n)
    PROVE  /\ term' \in [Node -> Nat] /\ votedFor' \in [Node -> NodeOrNone]
           /\ votes' \subseteq Node \X Nat \X Node
           /\ state' \in [Node -> State] /\ leaderID' \in [Node -> NodeOrNone]
           /\ campaign' \in [Node -> Campaign] /\ msgs' \subseteq Message
<1>1. LastIndex(rlog[n]) \in Nat /\ LastTerm(rlog[n]) \in Nat /\ term[n] + 1 \in Nat
    BY LastIndexType, LastTermType DEF TypeOK
<1>2. campaign' \in [Node -> Campaign]
    BY <1>1, RoundType, Zenon DEF TypeOK, RealElection
<1>3. msgs' \subseteq Message
    BY <1>1 DEF TypeOK, RealElection, Message, VoteMsg, Others
<1>4. votes' \subseteq Node \X Nat \X Node
    BY <1>1 DEF TypeOK, RealElection
<1>. QED
    BY <1>1, <1>2, <1>3, <1>4, Zenon DEF TypeOK, RealElection, State, NodeOrNone

\* The actions of an election.
LEMMA StartPreVoteType ==
    ASSUME TypeOK, NEW n \in Node, StartPreVote(n)
    PROVE  TypeOK'
<1>1. term[n] + 1 \in Nat /\ spent \in Budget
    BY DEF TypeOK
<1>2. campaign' \in [Node -> Campaign] /\ spent' \in Budget
    BY <1>1, RoundType, BudgetType, Zenon DEF TypeOK, StartPreVote
<1>. QED
    BY <1>2, Zenon DEF TypeOK, StartPreVote

LEMMA AnswerPreVoteType ==
    ASSUME TypeOK, NEW n \in Node, NEW p \in Node, AnswerPreVote(n, p)
    PROVE  TypeOK'
<1>1. campaign' \in [Node -> Campaign]
    <2>1. campaign \in [Node -> Campaign]
        BY DEF TypeOK
    <2>2. [campaign[n] EXCEPT !.granted = campaign[n].granted \cup {p}] \in Campaign
        BY <2>1, GrantedType
    <2>3. \/ UNCHANGED campaign
          \/ campaign' = [campaign EXCEPT ![n] =
                              [campaign[n] EXCEPT !.granted = campaign[n].granted \cup {p}]]
        BY <2>1 DEF AnswerPreVote, Campaign
    <2>. QED
        BY <2>1, <2>2, <2>3
<1>2. msgs' \subseteq Message
    BY NewerTermType, Zenon DEF TypeOK, AnswerPreVote
<1>. QED
    BY <1>1, <1>2, Zenon DEF TypeOK, AnswerPreVote

LEMMA PreVoteWonType ==
    ASSUME TypeOK, NEW n \in Node, PreVoteWon(n)
    PROVE  TypeOK'
<1>1. CASE RealElection(n)
    BY <1>1, RealElectionType, Zenon DEF TypeOK, PreVoteWon
<1>2. CASE AbandonCampaign(n)
    BY <1>2, NoCampaignType DEF TypeOK, PreVoteWon, AbandonCampaign
<1>. QED
    BY <1>1, <1>2 DEF PreVoteWon

LEMMA ForcedElectionType ==
    ASSUME TypeOK, NEW n \in Node, ForcedElection(n)
    PROVE  TypeOK'
<1>1. CASE RealElection(n)
    BY <1>1, RealElectionType, Zenon DEF TypeOK, ForcedElection
<1>2. CASE AbandonCampaign(n)
    BY <1>2, NoCampaignType DEF TypeOK, ForcedElection, AbandonCampaign
<1>. QED
    BY <1>1, <1>2 DEF ForcedElection

LEMMA ElectionWonType ==
    ASSUME TypeOK, NEW n \in Node, ElectionWon(n)
    PROVE  TypeOK'
<1>1. campaign' \in [Node -> Campaign] /\ spent' \in Budget /\ msgs' \subseteq Message
    BY EndCampaignType DEF ElectionWon
<1>2. CASE BecomeLeader(n)
    BY <1>1, <1>2, BecomeLeaderType, Zenon DEF TypeOK, ElectionWon
<1>3. CASE UNCHANGED <<state, leaderID, transferTarget, progressVars, rlog,
                       commitIndex, committed>>
    BY <1>1, <1>3, Zenon DEF TypeOK, ElectionWon
<1>. QED
    BY <1>2, <1>3 DEF ElectionWon

LEMMA CampaignFailsType ==
    ASSUME TypeOK, NEW n \in Node, CampaignFails(n)
    PROVE  TypeOK'
<1>1. campaign' \in [Node -> Campaign] /\ spent' \in Budget /\ msgs' \subseteq Message
    BY EndCampaignType DEF CampaignFails
<1>. QED
    BY <1>1, Zenon DEF TypeOK, CampaignFails

LEMMA CheckQuorumFailsType ==
    ASSUME TypeOK, NEW n \in Node, CheckQuorumFails(n)
    PROVE  TypeOK'
<1>1. term[n] \in Nat /\ NoNode \in NodeOrNone
    BY DEF TypeOK, NodeOrNone
<1>2. spent' \in Budget
    <2>1. spent \in Budget
        BY DEF TypeOK
    <2>. QED
        BY <2>1, BudgetType, Zenon DEF CheckQuorumFails
<1>. QED
    BY <1>1, <1>2, DemoteType, AdoptTermType, Zenon DEF TypeOK, CheckQuorumFails, BecomeFollower

LEMMA HandleRequestVoteType ==
    ASSUME TypeOK, NEW m \in msgs, HandleRequestVote(m)
    PROVE  TypeOK'
<1>. DEFINE n == m.to
<1>1. /\ n \in Node /\ m.from \in Node /\ m.term \in Nat
      /\ NoNode \in NodeOrNone /\ m.from \in NodeOrNone
    BY MessageKinds DEF TypeOK, HandleRequestVote, NodeOrNone
<1>2. /\ state' \in [Node -> State] /\ leaderID' \in [Node -> NodeOrNone]
      /\ transferTarget' \in [Node -> NodeOrNone]
      /\ waiters' \in [Node -> SUBSET (Nat \X Nat)]
    <2>1. CASE m.term > term[n]
        BY <1>1, <2>1, DemoteType DEF HandleRequestVote
    <2>2. CASE ~(m.term > term[n])
        BY <2>2, Zenon DEF TypeOK, HandleRequestVote
    <2>. QED
        BY <2>1, <2>2
<1>3. /\ term' \in [Node -> Nat] /\ votedFor' \in [Node -> NodeOrNone]
      /\ votes' \subseteq Node \X Nat \X Node
      /\ campaign' \in [Node -> Campaign] /\ msgs' \subseteq Message
    <2>1. CASE GrantVote(n, m)
        <3>1. campaign' \in [Node -> Campaign]
            <4>1. campaign \in [Node -> Campaign]
                BY DEF TypeOK
            <4>2. [campaign[m.from] EXCEPT !.granted = campaign[m.from].granted \cup {n}]
                     \in Campaign
                BY <4>1, <1>1, GrantedType
            <4>3. \/ campaign' = campaign
                  \/ campaign' = [campaign EXCEPT ![m.from] =
                        [campaign[m.from] EXCEPT !.granted = campaign[m.from].granted \cup {n}]]
                BY <2>1, <4>1, <1>1 DEF HandleRequestVote, Campaign
            <4>. QED
                BY <4>1, <4>2, <4>3, <1>1
        <3>2. votes' \subseteq Node \X Nat \X Node
            <4>1. votes' = votes \cup {<<n, m.term, m.from>>}
                BY <2>1 DEF HandleRequestVote
            <4>2. <<n, m.term, m.from>> \in Node \X Nat \X Node
                BY <1>1
            <4>. QED
                BY <4>1, <4>2, Zenon DEF TypeOK
        <3>. QED
            BY <1>1, <2>1, <3>1, <3>2, Zenon DEF TypeOK, HandleRequestVote
    <2>2. CASE ~GrantVote(n, m)
        <3>1. term' \in [Node -> Nat] /\ votedFor' \in [Node -> NodeOrNone]
            BY <1>1, <2>2, AdoptTermType, Zenon DEF TypeOK, HandleRequestVote
        <3>2. NewerTerm(n, m.from, m.term) \subseteq Message
            BY <1>1, NewerTermType
        <3>3. msgs' \subseteq Message
            BY <2>2, <3>2, RespondType DEF HandleRequestVote
        <3>. QED
            BY <2>2, <3>1, <3>3, Zenon DEF TypeOK, HandleRequestVote
    <2>. QED
        BY <2>1, <2>2
<1>. QED
    BY <1>2, <1>3, Zenon DEF TypeOK, HandleRequestVote

LEMMA HandleNewerTermType ==
    ASSUME TypeOK, NEW m \in msgs, HandleNewerTerm(m)
    PROVE  TypeOK'
<1>. DEFINE n == m.to
<1>1. n \in Node /\ m.term \in Nat /\ NoNode \in NodeOrNone /\ msgs' \subseteq Message
    BY MessageKinds DEF TypeOK, HandleNewerTerm, NodeOrNone
<1>2. CASE BecomeFollower(n, m.term, NoNode)
    BY <1>1, <1>2, DemoteType, AdoptTermType, Zenon DEF TypeOK, HandleNewerTerm, BecomeFollower
<1>3. CASE UNCHANGED <<term, votedFor, state, leaderID, proposeVars>>
    BY <1>1, <1>3 DEF TypeOK, HandleNewerTerm
<1>. QED
    BY <1>2, <1>3 DEF HandleNewerTerm

LEMMA HandleTimeoutNowType ==
    ASSUME TypeOK, NEW m \in msgs, HandleTimeoutNow(m)
    PROVE  TypeOK'
<1>1. m.to \in Node /\ campaign \in [Node -> Campaign]
    BY MessageKinds DEF TypeOK
<1>2. campaign' \in [Node -> Campaign]
    BY <1>1 DEF HandleTimeoutNow, Campaign
<1>. QED
    BY <1>2, Zenon DEF TypeOK, HandleTimeoutNow

----------------------------------------------------------------------------
\* replicateOnce and sendSnapshot build messages.
LEMMA AppendRequestType ==
    ASSUME TypeOK, NEW n \in Node, NEW p \in Node, NEW wait \in BOOLEAN,
           ~(nextIndex[n][p] <= rlog[n].snapIndex)
    PROVE  AppendRequest(n, p, wait) \in Message
<1>. DEFINE prev == nextIndex[n][p] - 1
            last == Min({LastIndex(rlog[n]), prev + MaxAppendEntries})
<1>1. rlog[n] \in Log /\ term[n] \in Nat /\ commitIndex[n] \in Nat
    BY DEF TypeOK
<1>2. prev \in Nat /\ prev + 1 = nextIndex[n][p]
    <2>1. nextIndex \in [Node -> [Node -> Nat \ {0}]]
        BY DEF TypeOK
    <2>2. nextIndex[n][p] \in Nat /\ nextIndex[n][p] # 0
        BY <2>1
    <2>. QED
        BY <2>2
<1>3. LastIndex(rlog[n]) \in Nat /\ rlog[n].snapIndex \in Nat
    BY <1>1, LastIndexType DEF Log
<1>. HIDE DEF prev
<1>4. last \in Nat /\ last <= LastIndex(rlog[n])
    BY <1>2, <1>3, ConfigAssumption, MinOfTwo
<1>. HIDE DEF last
<1>5. SliceInRange(rlog[n], prev + 1, last)
    BY <1>2, <1>3, <1>4 DEF SliceInRange
<1>6. Slice(rlog[n], prev + 1, last) \in Seq(Nat) /\ TermAt(rlog[n], prev) \in Nat
    <2>1. prev + 1 \in Nat
        BY <1>2
    <2>. QED
        BY <1>1, <1>2, <1>4, <1>5, <2>1, SliceType, TermAtType, Zenon
<1>7. AppendRequest(n, p, wait) =
        [type |-> "append", from |-> n, to |-> p, term |-> term[n],
         prev |-> prev, prevTerm |-> TermAt(rlog[n], prev),
         entries |-> Slice(rlog[n], prev + 1, last), commit |-> commitIndex[n],
         fresh |-> read[n].phase = "confirm", wait |-> wait]
    BY DEF AppendRequest, prev, last
<1>8. AppendRequest(n, p, wait) \in AppendMsg
    BY <1>1, <1>2, <1>6, <1>7 DEF AppendMsg
<1>. QED
    BY <1>8 DEF Message

LEMMA SnapshotRequestType ==
    ASSUME TypeOK, NEW n \in Node, NEW p \in Node, NEW wait \in BOOLEAN
    PROVE  SnapshotRequest(n, p, wait) \in Message
<1>1. SnapshotRequest(n, p, wait) \in SnapshotMsg
    BY DEF TypeOK, SnapshotRequest, SnapshotMsg
<1>. QED
    BY <1>1 DEF Message

LEMMA ReplicateType ==
    ASSUME TypeOK, NEW n \in Node, NEW p \in Node, Replicate(n, p)
    PROVE  TypeOK'
<1>1. PICK wait \in BOOLEAN :
        /\ spent' = [spent EXCEPT !.sends = @ + 1, !.timeouts = IF wait THEN @ ELSE @ + 1]
        /\ msgs' = msgs \cup {IF nextIndex[n][p] <= rlog[n].snapIndex
                               THEN SnapshotRequest(n, p, wait)
                               ELSE AppendRequest(n, p, wait)}
    BY Zenon DEF Replicate
<1>2. spent \in Budget /\ msgs \subseteq Message
    BY DEF TypeOK
<1>3. spent' \in Budget
    <2>. DEFINE t == IF wait THEN spent.timeouts ELSE spent.timeouts + 1
    <2>1. t \in Nat
        BY <1>2 DEF Budget
    <2>2. spent' = [[spent EXCEPT !.sends = @ + 1] EXCEPT !.timeouts = t]
        BY <1>1, <1>2 DEF Budget
    <2>. HIDE DEF t
    <2>3. [spent EXCEPT !.sends = @ + 1] \in Budget
        BY <1>2 DEF Budget
    <2>4. ASSUME NEW s \in Budget PROVE [s EXCEPT !.timeouts = t] \in Budget
        BY <2>1 DEF Budget
    <2>. QED
        BY <2>2, <2>3, <2>4, Zenon
<1>4. msgs' \subseteq Message
    BY <1>1, <1>2, SnapshotRequestType, AppendRequestType
<1>. QED
    BY <1>3, <1>4, Zenon DEF TypeOK, Replicate

LEMMA HandleAppendEntriesType ==
    ASSUME TypeOK, NEW m \in msgs, HandleAppendEntries(m)
    PROVE  TypeOK'
<1>. DEFINE n == m.to
            out == AppendOutcome(rlog[n], m)
<1>1. /\ n \in Node /\ m.from \in Node /\ m.term \in Nat /\ m.from \in NodeOrNone
      /\ m \in AppendMsg
    BY MessageKinds DEF TypeOK, HandleAppendEntries, NodeOrNone
<1>2. rlog[n] \in Log /\ commitIndex \in [Node -> Nat] /\ commitIndex[n] \in Nat
    BY <1>1 DEF TypeOK
<1>3. CASE /\ msgs' = Respond(m, NewerTerm(n, m.from, m.term))
           /\ UNCHANGED <<term, votedFor, state, leaderID, proposeVars, rlog, commitIndex,
                          committed>>
    <2>1. msgs' \subseteq Message
        BY <1>1, <1>3, NewerTermType, RespondType, Zenon
    <2>. QED
        BY <1>3, <2>1, Zenon DEF TypeOK, HandleAppendEntries
<1>4. CASE /\ BecomeFollower(n, m.term, m.from)
           /\ rlog' = [rlog EXCEPT ![n] = out.log]
           /\ CommitTo(n, Max({commitIndex[n], out.commit}), HistoryOf(diskSnap[n], out.log))
           /\ msgs' = Respond(m, {AppendReply(m, out)})
    <2>1. /\ out.log \in Log /\ out.commit \in Nat /\ out.success \in BOOLEAN
          /\ out.index \in Nat /\ out.term \in Nat
        BY <1>1, <1>2, AppendOutcomeType
    <2>. HIDE DEF out
    <2>2. Max({commitIndex[n], out.commit}) \in Nat
        BY <1>1, <1>2, <2>1, MaxOfTwo
    <2>3. AppendReply(m, out) \in Message
        BY <1>1, <2>1 DEF AppendReply, AppendReplyMsg, AppendMsg, Message, MatchOf
    <2>4. msgs' \subseteq Message
        BY <1>4, <2>3, RespondType, Zenon
    <2>5. rlog' \in [Node -> Log]
        BY <1>1, <1>4, <2>1 DEF TypeOK
    <2>6. commitIndex' \in [Node -> Nat]
        BY <1>1, <1>2, <1>4, <2>2 DEF CommitTo
    <2>. QED
        BY <1>1, <1>4, <2>4, <2>5, <2>6, DemoteType, AdoptTermType, Zenon
        DEF TypeOK, HandleAppendEntries, BecomeFollower
<1>. QED
    BY <1>3, <1>4 DEF HandleAppendEntries

\* The leader's bookkeeping when a follower has answered.
LEMMA MatchedType ==
    ASSUME TypeOK, NEW n \in Node, NEW p \in Node, NEW match \in Nat, Matched(n, p, match)
    PROVE  /\ matchIndex' \in [Node -> [Node -> Nat]]
           /\ nextIndex' \in [Node -> [Node -> Nat \ {0}]]
           /\ commitIndex' \in [Node -> Nat]
<1>. DEFINE ms == [matchIndex[n] EXCEPT ![p] = match]
<1>1. matchIndex \in [Node -> [Node -> Nat]] /\ nextIndex \in [Node -> [Node -> Nat \ {0}]]
    BY DEF TypeOK
<1>2. ms \in [Node -> Nat] /\ match + 1 \in Nat \ {0}
    BY <1>1
<1>3. rlog[n] \in Log /\ commitIndex \in [Node -> Nat]
    BY DEF TypeOK
<1>4. /\ matchIndex' = [matchIndex EXCEPT ![n] = ms]
      /\ nextIndex' = [nextIndex EXCEPT ![n][p] = match + 1]
      /\ commitIndex' = [commitIndex EXCEPT ![n] = NewCommitIndex(n, rlog[n], ms)]
    BY DEF Matched, CommitTo
<1>. HIDE DEF ms
<1>5. NewCommitIndex(n, rlog[n], ms) \in Nat
    BY <1>2, <1>3, NewCommitIndexType
<1>. QED
    BY <1>1, <1>2, <1>3, <1>4, <1>5

LEMMA RecordAckType ==
    ASSUME TypeOK, NEW n \in Node, NEW m, m.from \in Node, RecordAck(n, m)
    PROVE  read' \in [Node -> Read]
<1>1. read \in [Node -> Read]
    BY DEF TypeOK
<1>. QED
    BY <1>1 DEF RecordAck, Read

LEMMA ReplyTooLateType ==
    ASSUME TypeOK, NEW m \in msgs, ReplyTooLate(m)
    PROVE  TypeOK'
<1>1. msgs' \subseteq Message
    BY DEF TypeOK, ReplyTooLate
<1>. QED
    BY <1>1, Zenon DEF TypeOK, ReplyTooLate

LEMMA HandleAppendReplyType ==
    ASSUME TypeOK, NEW m \in msgs, HandleAppendReply(m)
    PROVE  TypeOK'
<1>. DEFINE n == m.to
            p == m.from
            back == BackOff(rlog[n], m.index, m.cterm)
<1>1. /\ n \in Node /\ p \in Node /\ m.match \in Nat /\ m.index \in Nat /\ m.cterm \in Nat
      /\ msgs' \subseteq Message
    BY MessageKinds, Zenon DEF TypeOK, HandleAppendReply, AppendReplyMsg
<1>2. read' \in [Node -> Read]
    BY <1>1, RecordAckType, Zenon DEF HandleAppendReply
<1>3. CASE Matched(n, p, m.match)
    BY <1>1, <1>2, <1>3, MatchedType, Zenon DEF TypeOK, HandleAppendReply
<1>4. CASE UNCHANGED <<nextIndex, matchIndex, commitIndex, committed>>
    BY <1>1, <1>2, <1>4, Zenon DEF TypeOK, HandleAppendReply
<1>5. CASE /\ nextIndex' = [nextIndex EXCEPT ![n][p] = back]
           /\ UNCHANGED <<matchIndex, commitIndex, committed>>
    <2>1. rlog[n] \in Log /\ nextIndex \in [Node -> [Node -> Nat \ {0}]]
        BY <1>1 DEF TypeOK
    <2>2. back \in Nat \ {0}
        BY <1>1, <2>1, BackOffType, Zenon
    <2>. HIDE DEF back
    <2>3. nextIndex' \in [Node -> [Node -> Nat \ {0}]]
        BY <1>1, <1>5, <2>1, <2>2
    <2>. QED
        BY <1>1, <1>2, <1>5, <2>3, Zenon DEF TypeOK, HandleAppendReply
<1>. QED
    BY <1>3, <1>4, <1>5, Zenon DEF HandleAppendReply

LEMMA HandleSnapshotReplyType ==
    ASSUME TypeOK, NEW m \in msgs, HandleSnapshotReply(m)
    PROVE  TypeOK'
<1>. DEFINE n == m.to
            p == m.from
<1>1. n \in Node /\ p \in Node /\ m.match \in Nat /\ msgs' \subseteq Message
    BY MessageKinds, Zenon DEF TypeOK, HandleSnapshotReply, SnapshotReplyMsg
<1>2. read' \in [Node -> Read]
    BY <1>1, RecordAckType, Zenon DEF HandleSnapshotReply
<1>3. CASE Matched(n, p, m.match)
    BY <1>1, <1>2, <1>3, MatchedType, Zenon DEF TypeOK, HandleSnapshotReply
<1>4. CASE /\ nextIndex' = [nextIndex EXCEPT ![n][p] = matchIndex[n][p] + 1]
           /\ UNCHANGED <<matchIndex, commitIndex, committed>>
    <2>1. nextIndex \in [Node -> [Node -> Nat \ {0}]] /\ matchIndex \in [Node -> [Node -> Nat]]
        BY DEF TypeOK
    <2>2. nextIndex' \in [Node -> [Node -> Nat \ {0}]]
        BY <1>1, <1>4, <2>1
    <2>. QED
        BY <1>1, <1>2, <1>4, <2>2, Zenon DEF TypeOK, HandleSnapshotReply
<1>. QED
    BY <1>3, <1>4, Zenon DEF HandleSnapshotReply

\* Storage.SaveSnapshot.
LEMMA SaveSnapshotType ==
    ASSUME TypeOK, NEW n \in Node, NEW snap \in Snapshot, SaveSnapshot(n, snap)
    PROVE  diskSnap' \in [Node -> Snapshot]
<1>. QED
    BY DEF TypeOK, SaveSnapshot

LEMMA InstallSnapshotType ==
    ASSUME TypeOK, NEW n \in Node, NEW snap \in Snapshot, InstallSnapshot(n, snap)
    PROVE  /\ diskSnap' \in [Node -> Snapshot] /\ rlog' \in [Node -> Log]
           /\ commitIndex' \in [Node -> Nat] /\ pendingSnapshot' \in [Node -> Snapshot]
<1>1. snap.index \in Nat /\ snap.term \in Nat /\ rlog \in [Node -> Log]
    BY DEF Snapshot, TypeOK
<1>2. CompactTo(rlog[n], snap.index, snap.term) \in Log /\ Reset(snap.index, snap.term) \in Log
    BY <1>1, CompactToType, ResetType, Zenon
<1>3. rlog' \in [Node -> Log]
    BY <1>1, <1>2 DEF InstallSnapshot
<1>4. commitIndex' \in [Node -> Nat] /\ pendingSnapshot' \in [Node -> Snapshot]
    BY <1>1 DEF InstallSnapshot, CommitTo, TypeOK
<1>. QED
    BY <1>3, <1>4, SaveSnapshotType, Zenon DEF InstallSnapshot

LEMMA HandleInstallSnapshotType ==
    ASSUME TypeOK, NEW m \in msgs, HandleInstallSnapshot(m)
    PROVE  TypeOK'
<1>. DEFINE n == m.to
<1>1. /\ n \in Node /\ m.from \in Node /\ m.term \in Nat /\ m.from \in NodeOrNone
      /\ m \in SnapshotMsg /\ m.snap \in Snapshot
    BY MessageKinds DEF TypeOK, HandleInstallSnapshot, NodeOrNone, SnapshotMsg
<1>2. CASE /\ msgs' = Respond(m, NewerTerm(n, m.from, m.term))
           /\ UNCHANGED <<rlog, diskSnap, commitIndex, committed, pendingSnapshot>>
           /\ UNCHANGED <<term, votedFor, state, leaderID, proposeVars>>
    <2>1. msgs' \subseteq Message
        BY <1>1, <1>2, NewerTermType, RespondType, Zenon
    <2>. QED
        BY <1>2, <2>1, Zenon DEF TypeOK, HandleInstallSnapshot
<1>3. CASE /\ BecomeFollower(n, m.term, m.from)
           /\ msgs' = Respond(m, {SnapshotReply(m)})
           /\ \/ UNCHANGED <<rlog, diskSnap, commitIndex, committed, pendingSnapshot>>
              \/ InstallSnapshot(n, m.snap)
    <2>1. SnapshotReply(m) \in Message
        BY <1>1 DEF SnapshotReply, SnapshotReplyMsg, SnapshotMsg, Snapshot, Message
    <2>2. msgs' \subseteq Message
        BY <1>3, <2>1, RespondType, Zenon
    <2>3. /\ diskSnap' \in [Node -> Snapshot] /\ rlog' \in [Node -> Log]
          /\ commitIndex' \in [Node -> Nat] /\ pendingSnapshot' \in [Node -> Snapshot]
        BY <1>1, <1>3, InstallSnapshotType, Zenon DEF TypeOK
    <2>. QED
        BY <1>1, <1>3, <2>2, <2>3, DemoteType, AdoptTermType, Zenon
        DEF TypeOK, HandleInstallSnapshot, BecomeFollower
<1>. QED
    BY <1>2, <1>3, Zenon DEF HandleInstallSnapshot

----------------------------------------------------------------------------
LEMMA ProposeType ==
    ASSUME TypeOK, NEW n \in Node, Propose(n)
    PROVE  TypeOK'
<1>1. matchIndex[n] \in [Node -> Nat] /\ rlog[n] \in Log /\ term[n] \in Nat
    BY DEF TypeOK
<1>2. rlog' \in [Node -> Log] /\ commitIndex' \in [Node -> Nat]
    BY <1>1, LeaderAppendType, Zenon DEF Propose
<1>3. LastIndex(rlog[n]) \in Nat
    BY <1>1, LastIndexType, Zenon
<1>4. LastIndex(rlog[n]) + 1 \in Nat
    BY <1>3
<1>5. <<LastIndex(rlog[n]) + 1, term[n]>> \in Nat \X Nat
    BY <1>1, <1>4, Zenon
<1>6. waiters' \in [Node -> SUBSET (Nat \X Nat)]
    BY <1>5, Zenon DEF TypeOK, Propose
<1>. QED
    BY <1>2, <1>6, Zenon DEF TypeOK, Propose

\* The applier goroutine.
LEMMA IdleApplierType == NoSnapshot \in Snapshot /\ IdleApplier \in Applier
    BY DEF IdleApplier, Applier, NoSnapshot, Snapshot

LEMMA ApplierTakeType ==
    ASSUME TypeOK, NEW n \in Node, ApplierTake(n)
    PROVE  TypeOK'
<1>1. CASE /\ applier' = [applier EXCEPT ![n] = [IdleApplier EXCEPT !.pc = "restore",
                                                         !.snap = pendingSnapshot[n]]]
           /\ pendingSnapshot' = [pendingSnapshot EXCEPT ![n] = NoSnapshot]
    <2>1. pendingSnapshot[n] \in Snapshot
        BY DEF TypeOK
    <2>2. [IdleApplier EXCEPT !.pc = "restore", !.snap = pendingSnapshot[n]] \in Applier
        BY <2>1, IdleApplierType, Zenon DEF Applier, IdleApplier
    <2>3. applier' \in [Node -> Applier] /\ pendingSnapshot' \in [Node -> Snapshot]
        BY <1>1, <2>2, IdleApplierType, Zenon DEF TypeOK
    <2>. QED
        BY <2>3, Zenon DEF TypeOK, ApplierTake, unchangedByApplier
<1>2. CASE /\ SliceInRange(rlog[n], lastApplied[n] + 1, commitIndex[n])
           /\ applier' = [applier EXCEPT ![n] = [IdleApplier EXCEPT
                            !.pc = "apply",
                            !.entries = Slice(rlog[n], lastApplied[n] + 1, commitIndex[n]),
                            !.last = commitIndex[n]]]
           /\ UNCHANGED pendingSnapshot
    <2>. DEFINE es == Slice(rlog[n], lastApplied[n] + 1, commitIndex[n])
    <2>1. rlog[n] \in Log /\ lastApplied[n] + 1 \in Nat /\ commitIndex[n] \in Nat
        BY DEF TypeOK
    <2>2. es \in Seq(Nat)
        BY <1>2, <2>1, SliceType, Zenon
    <2>. HIDE DEF es
    <2>3. [IdleApplier EXCEPT !.pc = "apply", !.entries = es, !.last = commitIndex[n]] \in Applier
        BY <2>1, <2>2, IdleApplierType, Zenon DEF Applier, IdleApplier
    <2>4. applier' \in [Node -> Applier]
        BY <1>2, <2>3, Zenon DEF TypeOK, es
    <2>. QED
        BY <1>2, <2>4, Zenon DEF TypeOK, ApplierTake, unchangedByApplier
<1>. QED
    BY <1>1, <1>2, Zenon DEF ApplierTake

LEMMA ApplierRestoreType ==
    ASSUME TypeOK, NEW n \in Node, ApplierRestore(n)
    PROVE  TypeOK'
<1>1. applier[n].snap \in Snapshot /\ lastApplied[n] \in Nat
    BY DEF TypeOK, Applier
<1>2. applier[n].snap.data \in Seq(Nat) /\ applier[n].snap.index \in Nat
    BY <1>1 DEF Snapshot
<1>3. Max({lastApplied[n], applier[n].snap.index}) \in Nat
    BY <1>1, <1>2, MaxOfTwo
<1>4. sm' \in [Node -> Seq(Nat)] /\ lastApplied' \in [Node -> Nat]
    BY <1>2, <1>3 DEF TypeOK, ApplierRestore
<1>5. applier' \in [Node -> Applier]
    BY IdleApplierType, Zenon DEF TypeOK, ApplierRestore
<1>. QED
    BY <1>4, <1>5, Zenon DEF TypeOK, ApplierRestore, unchangedByApplier

LEMMA ApplierFinishType ==
    ASSUME TypeOK, NEW n \in Node, ApplierFinish(n)
    PROVE  TypeOK'
<1>. DEFINE a == applier[n]
            applied == Max({lastApplied[n], a.last})
<1>1. a.entries \in Seq(Nat) /\ a.last \in Nat /\ lastApplied[n] \in Nat /\ sm[n] \in Seq(Nat)
    BY DEF TypeOK, Applier
<1>2. applied \in Nat /\ sm[n] \o a.entries \in Seq(Nat)
    BY <1>1, MaxOfTwo, ConcatProperties, Zenon
<1>3. sm' \in [Node -> Seq(Nat)]
    BY <1>2, Zenon DEF TypeOK, ApplierFinish
<1>4. lastApplied' \in [Node -> Nat]
    BY <1>2, Zenon DEF TypeOK, ApplierFinish
<1>5. [IdleApplier EXCEPT !.pc = "take", !.last = a.last] \in Applier
    BY <1>1, IdleApplierType, Zenon DEF Applier, IdleApplier
<1>6. applier' \in [Node -> Applier]
    <2>1. \/ applier' = [applier EXCEPT ![n] = IdleApplier]
          \/ applier' = [applier EXCEPT ![n] = [IdleApplier EXCEPT !.pc = "take", !.last = a.last]]
        BY Zenon DEF ApplierFinish
    <2>. QED
        BY <1>5, <2>1, IdleApplierType, Zenon DEF TypeOK
<1>7. waiters' \in [Node -> SUBSET (Nat \X Nat)]
    BY DEF TypeOK, ApplierFinish
<1>8. acked' \subseteq Nat \X Nat
    BY DEF TypeOK, ApplierFinish, AnsweredOK, Answered
<1>. QED
    BY <1>3, <1>4, <1>6, <1>7, <1>8, Zenon DEF TypeOK, ApplierFinish, unchangedByApplier

LEMMA TakeSnapshotType ==
    ASSUME TypeOK, NEW n \in Node, TakeSnapshot(n)
    PROVE  TypeOK'
<1>. DEFINE i == applier[n].last
            snap == [index |-> i, term |-> TermAt(rlog[n], i), data |-> sm[n]]
<1>1. i \in Nat /\ rlog[n] \in Log /\ sm[n] \in Seq(Nat)
    BY DEF TypeOK, Applier
<1>2. snap \in Snapshot
    BY <1>1, TermAtType, Zenon DEF Snapshot
<1>. HIDE DEF snap
<1>3. [IdleApplier EXCEPT !.pc = "save", !.snap = snap] \in Applier
    BY <1>2, IdleApplierType, Zenon DEF Applier, IdleApplier
<1>4. applier' \in [Node -> Applier]
    <2>1. \/ applier' = [applier EXCEPT ![n] = IdleApplier]
          \/ applier' = [applier EXCEPT ![n] = [IdleApplier EXCEPT !.pc = "save", !.snap = snap]]
        BY Zenon DEF TakeSnapshot, snap
    <2>. QED
        BY <1>3, <2>1, IdleApplierType, Zenon DEF TypeOK
<1>. QED
    BY <1>4, Zenon DEF TypeOK, TakeSnapshot, unchangedByApplier

LEMMA StoreSnapshotType ==
    ASSUME TypeOK, NEW n \in Node, StoreSnapshot(n)
    PROVE  TypeOK'
<1>1. applier \in [Node -> Applier] /\ applier[n].snap \in Snapshot
    BY DEF TypeOK, Applier
<1>2. diskSnap' \in [Node -> Snapshot]
    BY <1>1, SaveSnapshotType, Zenon DEF StoreSnapshot, TypeOK
<1>3. applier' \in [Node -> Applier]
    <2>1. CASE applier' = [applier EXCEPT ![n].pc = "compact"]
        BY <1>1, <2>1, Zenon DEF Applier
    <2>2. CASE applier' = [applier EXCEPT ![n] = AfterSaveError(n)]
        BY <1>1, <2>2, IdleApplierType, Zenon DEF AfterSaveError
    <2>. QED
        BY <2>1, <2>2, Zenon DEF StoreSnapshot
<1>. QED
    BY <1>2, <1>3, Zenon DEF TypeOK, StoreSnapshot, unchangedByApplier

LEMMA CompactLogType ==
    ASSUME TypeOK, NEW n \in Node, CompactLog(n)
    PROVE  TypeOK'
<1>1. applier[n].snap.index \in Nat /\ applier[n].snap.term \in Nat /\ rlog[n] \in Log
    BY DEF TypeOK, Applier, Snapshot
<1>2. CompactTo(rlog[n], applier[n].snap.index, applier[n].snap.term) \in Log
    BY <1>1, CompactToType, Zenon
<1>3. rlog' \in [Node -> Log] /\ applier' \in [Node -> Applier]
    BY <1>2, IdleApplierType, Zenon DEF TypeOK, CompactLog
<1>. QED
    BY <1>3, Zenon DEF TypeOK, CompactLog, unchangedByApplier

----------------------------------------------------------------------------
\* Reads.
LEMMA ReadStartType ==
    ASSUME TypeOK, NEW n \in Node, ReadStart(n)
    PROVE  TypeOK'
<1>1. /\ term[n] \in Nat /\ commitIndex[n] \in Nat /\ spent \in Budget
      /\ read \in [Node -> Read] /\ msgs \subseteq Message
    BY DEF TypeOK
<1>2. spent' \in Budget
    BY <1>1, BudgetType, Zenon DEF ReadStart
<1>3. read' \in [Node -> Read]
    BY <1>1 DEF ReadStart, Read
<1>4. msgs' \subseteq Message
    <2>1. PICK unsent : msgs' = StampRequests(n, unsent)
        BY Zenon DEF ReadStart
    <2>2. ASSUME NEW m \in msgs, NEW b \in BOOLEAN
          PROVE  /\ m.type \in {"append", "snapshot"} => [m EXCEPT !.fresh = b] \in Message
                 /\ m.type \in {"appendReply", "snapshotReply"} =>
                        [m EXCEPT !.fresh = b] \in Message
        <3>1. m.type = "append" => [m EXCEPT !.fresh = b] \in AppendMsg
            BY <1>1, MessageKinds, Zenon DEF AppendMsg
        <3>2. m.type = "snapshot" => [m EXCEPT !.fresh = b] \in SnapshotMsg
            BY <1>1, MessageKinds DEF SnapshotMsg
        <3>3. m.type = "appendReply" => [m EXCEPT !.fresh = b] \in AppendReplyMsg
            BY <1>1, MessageKinds DEF AppendReplyMsg
        <3>4. m.type = "snapshotReply" => [m EXCEPT !.fresh = b] \in SnapshotReplyMsg
            BY <1>1, MessageKinds DEF SnapshotReplyMsg
        <3>. QED
            BY <3>1, <3>2, <3>3, <3>4 DEF Message
    <2>3. ASSUME NEW m \in msgs
          PROVE  (IF m.type \in {"append", "snapshot"} /\ m.from = n
                  THEN [m EXCEPT !.fresh = m \in unsent]
                  ELSE IF m.type \in {"appendReply", "snapshotReply"} /\ m.to = n
                  THEN [m EXCEPT !.fresh = FALSE]
                  ELSE m) \in Message
        <3>1. (m \in unsent) \in BOOLEAN
            OBVIOUS
        <3>2. CASE m.type \in {"append", "snapshot"} /\ m.from = n
            BY <2>2, <3>1, <3>2, Zenon
        <3>3. CASE /\ ~(m.type \in {"append", "snapshot"} /\ m.from = n)
                   /\ m.type \in {"appendReply", "snapshotReply"} /\ m.to = n
            BY <2>2, <3>3, Zenon
        <3>. QED
            BY <1>1, <3>2, <3>3, Zenon
    <2>. QED
        BY <2>1, <2>3, Zenon DEF StampRequests
<1>. QED
    BY <1>2, <1>3, <1>4, Zenon DEF TypeOK, ReadStart, unchangedByReader

LEMMA NoReadType == NoRead \in Read
    BY DEF NoRead, Read

LEMMA ReadConfirmedType ==
    ASSUME TypeOK, NEW n \in Node, ReadConfirmed(n)
    PROVE  TypeOK'
<1>1. read \in [Node -> Read]
    BY DEF TypeOK
<1>2. [read EXCEPT ![n].phase = "wait"] \in [Node -> Read]
    BY <1>1 DEF Read
<1>3. ASSUME NEW r \in [Node -> Read] PROVE [r EXCEPT ![n].acks = {}] \in [Node -> Read]
    BY DEF Read
<1>4. read' = [[read EXCEPT ![n].phase = "wait"] EXCEPT ![n].acks = {}]
    BY DEF ReadConfirmed
<1>5. read' \in [Node -> Read]
    BY <1>2, <1>3, <1>4, Zenon
<1>. QED
    BY <1>5, Zenon DEF TypeOK, ReadConfirmed, unchangedByReader

LEMMA ReadServedType ==
    ASSUME TypeOK, NEW n \in Node, ReadServed(n)
    PROVE  TypeOK'
<1>1. read' \in [Node -> Read]
    BY NoReadType, Zenon DEF TypeOK, ReadServed
<1>. QED
    BY <1>1, Zenon DEF TypeOK, ReadServed, unchangedByReader

LEMMA ReadFailsType ==
    ASSUME TypeOK, NEW n \in Node, ReadFails(n)
    PROVE  TypeOK'
<1>1. read' \in [Node -> Read]
    BY NoReadType, Zenon DEF TypeOK, ReadFails
<1>. QED
    BY <1>1, Zenon DEF TypeOK, ReadFails, unchangedByReader

\* Leadership transfer.
LEMMA TransferStartType ==
    ASSUME TypeOK, NEW n \in Node, NEW p \in Node, TransferStart(n, p)
    PROVE  TypeOK'
<1>1. /\ term[n] \in Nat /\ spent \in Budget /\ transfers \in [Node -> SUBSET Transfer]
      /\ transferTarget \in [Node -> NodeOrNone]
    BY DEF TypeOK
<1>2. spent' \in Budget
    BY <1>1, BudgetType, Zenon DEF TransferStart
<1>3. [term |-> term[n], target |-> p, sent |-> FALSE] \in Transfer
    BY <1>1 DEF Transfer
<1>4. transfers' \in [Node -> SUBSET Transfer]
    BY <1>1, <1>3, Zenon DEF TransferStart
<1>5. transferTarget' \in [Node -> NodeOrNone]
    BY <1>1 DEF TransferStart, NodeOrNone
<1>. QED
    BY <1>2, <1>4, <1>5, Zenon DEF TypeOK, TransferStart, unchangedByTransfer

LEMMA TransferSendType ==
    ASSUME TypeOK, NEW n \in Node, NEW t \in transfers[n], TransferSend(n, t)
    PROVE  TypeOK'
<1>1. transfers \in [Node -> SUBSET Transfer] /\ msgs \subseteq Message
    BY DEF TypeOK
<1>2. t \in Transfer /\ t.term \in Nat /\ t.target \in Node
    BY <1>1 DEF Transfer
<1>3. [t EXCEPT !.sent = TRUE] \in Transfer
    BY <1>2, Zenon DEF Transfer
<1>4. transfers' \in [Node -> SUBSET Transfer]
    BY <1>1, <1>3, Zenon DEF TransferSend
<1>5. [type |-> "timeoutNow", from |-> n, to |-> t.target, term |-> t.term] \in Message
    BY <1>2 DEF TimeoutNowMsg, Message
<1>6. msgs' \subseteq Message
    BY <1>1, <1>5 DEF TransferSend
<1>. QED
    BY <1>4, <1>6, Zenon DEF TypeOK, TransferSend, unchangedByTransfer

LEMMA TransferEndType ==
    ASSUME TypeOK, NEW n \in Node, NEW t \in transfers[n], TransferEnd(n, t)
    PROVE  TypeOK'
<1>1. transfers \in [Node -> SUBSET Transfer] /\ transferTarget \in [Node -> NodeOrNone]
    BY DEF TypeOK
<1>2. transfers' \in [Node -> SUBSET Transfer]
    BY <1>1 DEF TransferEnd
<1>3. transferTarget' \in [Node -> NodeOrNone]
    BY <1>1 DEF TransferEnd, NodeOrNone
<1>. QED
    BY <1>2, <1>3, Zenon DEF TypeOK, TransferEnd, unchangedByTransfer

----------------------------------------------------------------------------
\* A restart through New.
LEMMA RebootType ==
    ASSUME TypeOK, NEW n \in Node, Reboot(n),
           term' \in [Node -> Nat], votedFor' \in [Node -> NodeOrNone],
           msgs' \subseteq Message
    PROVE  TypeOK'
<1>1. spent \in Budget /\ diskSnap[n] \in Snapshot /\ rlog[n] \in Log
    BY DEF TypeOK
<1>2. diskSnap[n].index \in Nat /\ diskSnap[n].term \in Nat /\ diskSnap[n].data \in Seq(Nat)
    BY <1>1 DEF Snapshot
<1>3. spent' \in Budget
    BY <1>1, BudgetType, Zenon DEF Reboot
<1>4. CompactTo(rlog[n], diskSnap[n].index, diskSnap[n].term) \in Log
    BY <1>1, <1>2, CompactToType, Zenon
<1>5. rlog' \in [Node -> Log]
    BY <1>4, Zenon DEF TypeOK, Reboot
<1>6. /\ commitIndex' \in [Node -> Nat] /\ lastApplied' \in [Node -> Nat]
      /\ sm' \in [Node -> Seq(Nat)]
    BY <1>2, Zenon DEF TypeOK, Reboot, ReplayFrom
<1>7. state' \in [Node -> State] /\ leaderID' \in [Node -> NodeOrNone]
    BY Zenon DEF TypeOK, Reboot, State, NodeOrNone
<1>8. /\ campaign' \in [Node -> Campaign] /\ pendingSnapshot' \in [Node -> Snapshot]
      /\ applier' \in [Node -> Applier] /\ read' \in [Node -> Read]
    BY NoCampaignType, IdleApplierType, NoReadType, Zenon DEF TypeOK, Reboot
<1>9. /\ nextIndex' \in [Node -> [Node -> Nat \ {0}]]
      /\ matchIndex' \in [Node -> [Node -> Nat]] /\ noopIndex' \in [Node -> Nat]
    <2>1. [p \in Node |-> 1] \in [Node -> Nat \ {0}] /\ NoMatch \in [Node -> Nat] /\ 0 \in Nat
        BY DEF NoMatch
    <2>. QED
        BY <2>1, Zenon DEF TypeOK, Reboot
<1>10. transferTarget' \in [Node -> NodeOrNone]
    BY Zenon DEF TypeOK, Reboot, NodeOrNone
<1>11. waiters' \in [Node -> SUBSET (Nat \X Nat)] /\ transfers' \in [Node -> SUBSET Transfer]
    BY DEF TypeOK, Reboot
<1>. QED
    BY <1>3, <1>5, <1>6, <1>7, <1>8, <1>9, <1>10, <1>11, Zenon DEF TypeOK, Reboot

LEMMA CrashType ==
    ASSUME TypeOK, NEW n \in Node, Crash(n)
    PROVE  TypeOK'
<1>1. msgs' \subseteq Message
    BY DEF TypeOK, Crash, SurvivingMsgs
<1>. QED
    BY <1>1, RebootType, Zenon DEF TypeOK, Crash

LEMMA CrashInHandlerType ==
    ASSUME TypeOK, NEW m \in msgs, CrashInHandler(m)
    PROVE  TypeOK'
<1>1. m.to \in Node /\ m.term \in Nat
    BY MessageKinds DEF TypeOK
<1>2. msgs' \subseteq Message
    BY DEF TypeOK, CrashInHandler, SurvivingMsgs
<1>. QED
    BY <1>1, <1>2, AdoptTermType, RebootType, Zenon DEF CrashInHandler

----------------------------------------------------------------------------
LEMMA InitType == Init => TypeOK
<1>. SUFFICES ASSUME Init PROVE TypeOK
    OBVIOUS
<1>1. EmptyLog \in Log /\ <<>> \in Seq(Nat)
    BY DEF EmptyLog, Log
<1>2. spent \in Budget
    BY DEF Init, NothingStored, Booted, NothingSpent, Budget
<1>3. [p \in Node |-> 1] \in [Node -> Nat \ {0}] /\ [p \in Node |-> 0] \in [Node -> Nat]
    OBVIOUS
<1>4. /\ term \in [Node -> Nat] /\ commitIndex \in [Node -> Nat] /\ lastApplied \in [Node -> Nat]
      /\ noopIndex \in [Node -> Nat] /\ nextIndex \in [Node -> [Node -> Nat \ {0}]]
      /\ matchIndex \in [Node -> [Node -> Nat]]
    BY <1>3 DEF Init, NothingStored, Booted, NothingSpent
<1>5. /\ votedFor \in [Node -> NodeOrNone] /\ leaderID \in [Node -> NodeOrNone]
      /\ transferTarget \in [Node -> NodeOrNone] /\ state \in [Node -> State]
    BY DEF Init, NothingStored, Booted, NothingSpent, NodeOrNone, State
<1>6. /\ waiters \in [Node -> SUBSET (Nat \X Nat)] /\ transfers \in [Node -> SUBSET Transfer]
      /\ msgs \subseteq Message /\ votes \subseteq Node \X Nat \X Node
      /\ acked \subseteq Nat \X Nat
    BY DEF Init, NothingStored, Booted, NothingSpent
<1>. QED
    BY <1>1, <1>2, <1>4, <1>5, <1>6, NoCampaignType, IdleApplierType, NoReadType, Zenon
    DEF Init, NothingStored, Booted, NothingSpent, TypeOK

LEMMA NodeStepType ==
    ASSUME TypeOK, NEW n \in Node, NodeStep(n)
    PROVE  TypeOK'
<1>. QED
    BY StartPreVoteType, AnswerPreVoteType, PreVoteWonType, ForcedElectionType,
       ElectionWonType, CampaignFailsType, CheckQuorumFailsType, ReplicateType, ProposeType,
       ApplierTakeType, ApplierRestoreType, ApplierFinishType, TakeSnapshotType,
       StoreSnapshotType, CompactLogType, ReadStartType, ReadConfirmedType, ReadServedType,
       ReadFailsType, TransferStartType, TransferSendType, TransferEndType, CrashType, Zenon
    DEF NodeStep, Others

LEMMA DeliverType ==
    ASSUME TypeOK, NEW m \in msgs, Deliver(m)
    PROVE  TypeOK'
<1>. QED
    BY HandleRequestVoteType, HandleNewerTermType, HandleTimeoutNowType,
       HandleAppendEntriesType, HandleAppendReplyType, HandleInstallSnapshotType,
       HandleSnapshotReplyType, ReplyTooLateType, CrashInHandlerType, Zenon
    DEF Deliver

\* Type correctness: in every group, under every configuration and whatever the
\* interleaving of timers, messages, restarts and goroutines, every field keeps a
\* value its code can work with; in particular nextIndex never falls to 0.
THEOREM TypeCorrect == Spec => []TypeOK
<1>1. ASSUME TypeOK, [Next]_vars PROVE TypeOK'
    <2>1. CASE UNCHANGED vars
        BY <1>1, <2>1, Zenon DEF TypeOK, vars
    <2>2. CASE Next
        BY <1>1, <2>2, NodeStepType, DeliverType, Zenon DEF Next
    <2>. QED
        BY <1>1, <2>1, <2>2
<1>. QED
    BY <1>1, InitType, PTL DEF Spec
=============================================================================
