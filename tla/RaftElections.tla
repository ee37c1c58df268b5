---------------------------- MODULE RaftElections ----------------------------
(***************************************************************************)
(* Election safety of Raft for every group and every value of the bounds.  *)
(*                                                                         *)
(* Every step is one of three things to the durable votes (VoteStep):      *)
(* nothing, the adoption of a term, or a vote that may be cast.  From that *)
(* follow VoteIsFinal and the first conjunct of the inductive invariant    *)
(* ElectionInv; the others say who may rely on the votes.                  *)
(***************************************************************************)
EXTENDS RaftTypes

USE DEF Term, Index, durableVars, roleVars, applyVars, progressVars, proposeVars,
        historyVars

----------------------------------------------------------------------------
(* Majorities.                                                              *)

\* A set that holds a majority is one.
LEMMA MajorityMonotonic ==
    ASSUME NEW S \in SUBSET Node, NEW T \in SUBSET Node, S \subseteq T, Majority(S)
    PROVE  Majority(T)
<1>1. IsFiniteSet(T)
    BY NodeAssumption, FS_Subset
<1>2. Cardinality(S) <= Cardinality(T) /\ IsFiniteSet(S)
    BY <1>1, FS_Subset
<1>3. Cardinality(S) \in Nat /\ Cardinality(T) \in Nat /\ Cardinality(Node) \in Nat
    BY <1>1, <1>2, NodeAssumption, FS_CardinalityType
<1>. QED
    BY <1>2, <1>3 DEF Majority

\* Two majorities share a member: why quorum is len(Peers)/2 + 1.
LEMMA MajoritiesMeet ==
    ASSUME NEW S \in SUBSET Node, NEW T \in SUBSET Node, Majority(S), Majority(T)
    PROVE  S \cap T # {}
<1>1. IsFiniteSet(S) /\ IsFiniteSet(T)
    BY NodeAssumption, FS_Subset
<1>2. Cardinality(S) \in Nat /\ Cardinality(T) \in Nat /\ Cardinality(Node) \in Nat
    BY <1>1, NodeAssumption, FS_CardinalityType
<1>3. Cardinality(S) + Cardinality(T) > Cardinality(Node)
    BY <1>2 DEF Majority
<1>. QED
    BY <1>3, NodeAssumption, FS_MajoritiesIntersect

----------------------------------------------------------------------------
(* What a step does to the votes.                                           *)

\* n votes for c in t, as HandleRequestVote and campaign may.
CastVote(n, t, c) ==
    /\ t > term[n] \/ (t = term[n] /\ votedFor[n] \in {NoNode, c})
    /\ term' = [term EXCEPT ![n] = t]
    /\ votedFor' = [votedFor EXCEPT ![n] = c]
    /\ votes' = votes \cup {<<n, t, c>>}

VoteStep ==
    \/ UNCHANGED <<term, votedFor, votes>>
    \/ \E n \in Node, t \in Nat : t >= term[n] /\ AdoptTerm(n, t) /\ UNCHANGED votes
    \/ \E n \in Node, c \in Node, t \in Nat : CastVote(n, t, c)

LEMMA RealElectionVote ==
    ASSUME TypeOK, NEW n \in Node, RealElection(n)
    PROVE  CastVote(n, term[n] + 1, n) /\ term[n] + 1 \in Nat
<1>1. term[n] \in Nat
    BY DEF TypeOK
<1>. QED
    BY <1>1 DEF RealElection, CastVote

LEMMA NodeStepVote ==
    ASSUME TypeOK, NEW n \in Node, NodeStep(n)
    PROVE  VoteStep
<1>1. CASE PreVoteWon(n) \/ ForcedElection(n)
    <2>1. CASE RealElection(n)
        BY <2>1, RealElectionVote, Zenon DEF VoteStep
    <2>2. CASE AbandonCampaign(n)
        BY <2>2, Zenon DEF AbandonCampaign, VoteStep
    <2>. QED
        BY <1>1, <2>1, <2>2, Zenon DEF PreVoteWon, ForcedElection
<1>2. CASE CheckQuorumFails(n)
    <2>1. term[n] \in Nat /\ term[n] >= term[n]
        BY DEF TypeOK
    <2>. QED
        BY <1>2, <2>1, Zenon DEF CheckQuorumFails, BecomeFollower, VoteStep
<1>3. CASE /\ ~PreVoteWon(n) /\ ~ForcedElection(n) /\ ~CheckQuorumFails(n)
    <2>1. UNCHANGED <<term, votedFor, votes>>
        BY <1>3, Zenon
        DEF NodeStep, StartPreVote, AnswerPreVote, ElectionWon, CampaignFails, Replicate,
            Propose, ApplierTake, ApplierRestore, ApplierFinish, TakeSnapshot,
            StoreSnapshot, CompactLog, unchangedByApplier, ReadStart, ReadConfirmed,
            ReadServed, ReadFails, unchangedByReader, TransferStart, TransferSend,
            TransferEnd, unchangedByTransfer, Crash, Reboot
    <2>. QED
        BY <2>1 DEF VoteStep
<1>. QED
    BY <1>1, <1>2, <1>3

LEMMA DeliverVote ==
    ASSUME TypeOK, NEW m \in msgs, Deliver(m)
    PROVE  VoteStep
<1>1. m.to \in Node /\ m.from \in Node /\ m.term \in Nat /\ term[m.to] \in Nat
    BY MessageKinds DEF TypeOK
<1>2. CASE HandleRequestVote(m)
    <2>1. CASE GrantVote(m.to, m)
        <3>1. CastVote(m.to, m.term, m.from)
            BY <1>2, <2>1, Zenon DEF HandleRequestVote, GrantVote, CanVote, CastVote
        <3>. QED
            BY <1>1, <3>1, Zenon DEF VoteStep
    <2>2. CASE ~GrantVote(m.to, m) /\ m.term > term[m.to]
        <3>1. AdoptTerm(m.to, m.term) /\ UNCHANGED votes
            BY <1>2, <2>2, Zenon DEF HandleRequestVote
        <3>2. m.term >= term[m.to]
            BY <1>1, <2>2
        <3>. QED
            BY <1>1, <3>1, <3>2, Zenon DEF VoteStep
    <2>3. CASE ~GrantVote(m.to, m) /\ ~(m.term > term[m.to])
        BY <1>2, <2>3, Zenon DEF HandleRequestVote, VoteStep
    <2>. QED
        BY <2>1, <2>2, <2>3
<1>3. CASE HandleNewerTerm(m) \/ CrashInHandler(m)
    <2>1. CASE m.term > term[m.to] /\ AdoptTerm(m.to, m.term) /\ UNCHANGED votes
        <3>1. m.term >= term[m.to]
            BY <1>1, <2>1
        <3>. QED
            BY <1>1, <2>1, <3>1, Zenon DEF VoteStep
    <2>2. CASE UNCHANGED <<term, votedFor, votes>>
        BY <2>2 DEF VoteStep
    <2>. QED
        BY <1>3, <2>1, <2>2, Zenon
        DEF HandleNewerTerm, BecomeFollower, CrashInHandler, Reboot
<1>4. CASE HandleAppendEntries(m) \/ HandleInstallSnapshot(m)
    <2>1. CASE m.term >= term[m.to] /\ AdoptTerm(m.to, m.term) /\ UNCHANGED votes
        BY <1>1, <2>1, Zenon DEF VoteStep
    <2>2. CASE UNCHANGED <<term, votedFor, votes>>
        BY <2>2 DEF VoteStep
    <2>. QED
        BY <1>4, <2>1, <2>2, Zenon
        DEF HandleAppendEntries, HandleInstallSnapshot, BecomeFollower
<1>5. CASE \/ HandleTimeoutNow(m) \/ HandleAppendReply(m) \/ HandleSnapshotReply(m)
           \/ ReplyTooLate(m)
    BY <1>5, Zenon DEF HandleTimeoutNow, HandleAppendReply, HandleSnapshotReply, ReplyTooLate,
                VoteStep
<1>. QED
    BY <1>2, <1>3, <1>4, <1>5, Zenon DEF Deliver

LEMMA NextVote ==
    ASSUME TypeOK, [Next]_vars
    PROVE  VoteStep
<1>1. CASE UNCHANGED vars
    BY <1>1, Zenon DEF vars, VoteStep
<1>2. CASE Next
    BY <1>2, NodeStepVote, DeliverVote, Zenon DEF Next
<1>. QED
    BY <1>1, <1>2

----------------------------------------------------------------------------
(* Votes stand.                                                             *)

LEMMA VotesStandStep ==
    ASSUME TypeOK, VotesStand, VoteStep
    PROVE  VotesStand'
<1>1. term \in [Node -> Nat] /\ votedFor \in [Node -> NodeOrNone]
    BY DEF TypeOK
<1>2. \A v \in votes : v[1] \in Node /\ v[2] \in Nat /\ v[3] \in Node
    BY Zenon DEF TypeOK
<1>3. CASE UNCHANGED <<term, votedFor, votes>>
    BY <1>3, Zenon DEF VotesStand
<1>4. ASSUME NEW n \in Node, NEW t \in Nat, t >= term[n], AdoptTerm(n, t), UNCHANGED votes
      PROVE  VotesStand'
    <2>1. ASSUME NEW v \in votes
          PROVE  v[2] <= term'[v[1]] /\ (v[2] = term'[v[1]] => votedFor'[v[1]] = v[3])
        BY <1>1, <1>2, <1>4, <2>1 DEF VotesStand, AdoptTerm
    <2>. QED
        BY <1>4, <2>1 DEF VotesStand
<1>5. ASSUME NEW n \in Node, NEW c \in Node, NEW t \in Nat, CastVote(n, t, c)
      PROVE  VotesStand'
    <2>1. /\ term' = [term EXCEPT ![n] = t] /\ votedFor' = [votedFor EXCEPT ![n] = c]
          /\ votes' = votes \cup {<<n, t, c>>}
          /\ t > term[n] \/ (t = term[n] /\ votedFor[n] \in {NoNode, c})
        BY <1>5 DEF CastVote
    <2>2. ASSUME NEW v \in votes, v[1] = n, v[2] = t
          PROVE  v[3] = c
        <3>1. v[2] <= term[n] /\ (v[2] = term[n] => votedFor[n] = v[3])
            BY <2>2 DEF VotesStand
        <3>2. v[3] # NoNode
            BY <1>2, NodeAssumption
        <3>. QED
            BY <1>1, <2>1, <2>2, <3>1, <3>2
    <2>3. ASSUME NEW v \in votes
          PROVE  v[2] <= term'[v[1]] /\ (v[2] = term'[v[1]] => votedFor'[v[1]] = v[3])
        <3>1. v[1] \in Node /\ v[2] \in Nat /\ v[2] <= term[v[1]]
              /\ (v[2] = term[v[1]] => votedFor[v[1]] = v[3])
            BY <1>2, <2>3 DEF VotesStand
        <3>2. CASE v[1] = n
            BY <1>1, <2>1, <2>2, <3>1, <3>2
        <3>3. CASE v[1] # n
            BY <1>1, <2>1, <3>1, <3>3
        <3>. QED
            BY <3>2, <3>3
    <2>4. t <= term'[n] /\ votedFor'[n] = c
        BY <1>1, <2>1
    <2>5. \A v \in votes' : /\ v[2] <= term'[v[1]]
                            /\ v[2] = term'[v[1]] => votedFor'[v[1]] = v[3]
        BY <2>1, <2>3, <2>4
    <2>6. \A v, w \in votes' : v[1] = w[1] /\ v[2] = w[2] => v[3] = w[3]
        BY <2>1, <2>2 DEF VotesStand
    <2>. QED
        BY <2>5, <2>6 DEF VotesStand
<1>. QED
    BY <1>3, <1>4, <1>5, Zenon DEF VoteStep

\* An election, once won, stays won.
LEMMA ElectedStays ==
    ASSUME VoteStep, NEW t, NEW c, Elected(t, c)
    PROVE  Elected(t, c)'
<1>1. votes \subseteq votes'
    BY DEF VoteStep, CastVote
<1>2. Voters(t, c) \in SUBSET Node /\ {v \in Node : <<v, t, c>> \in votes'} \in SUBSET Node
    BY DEF Voters
<1>3. Voters(t, c) \subseteq {v \in Node : <<v, t, c>> \in votes'}
    BY <1>1 DEF Voters
<1>4. Majority({v \in Node : <<v, t, c>> \in votes'})
    BY <1>2, <1>3, MajorityMonotonic, Zenon DEF Elected
<1>. QED
    BY <1>4 DEF Elected, Voters, Majority

\* What persistLocked made durable never goes back, in any group: a term does not
\* decrease and a vote is not changed within its term, restarts included.
THEOREM VotesAreFinal == Spec => VoteIsFinal
<1>. DEFINE Final == \A n \in Node :
          /\ term'[n] >= term[n]
          /\ term'[n] = term[n] /\ votedFor[n] # NoNode => votedFor'[n] = votedFor[n]
<1>1. ASSUME TypeOK, [Next]_vars PROVE Final
    <2>1. term \in [Node -> Nat] /\ votedFor \in [Node -> NodeOrNone]
        BY <1>1 DEF TypeOK
    <2>2. VoteStep
        BY <1>1, NextVote
    <2>3. CASE UNCHANGED <<term, votedFor, votes>>
        BY <2>1, <2>3
    <2>4. ASSUME NEW n \in Node, NEW t \in Nat, t >= term[n], AdoptTerm(n, t) PROVE Final
        BY <2>1, <2>4 DEF AdoptTerm
    <2>5. ASSUME NEW n \in Node, NEW c \in Node, NEW t \in Nat, CastVote(n, t, c) PROVE Final
        BY <2>1, <2>5 DEF CastVote
    <2>. QED
        BY <2>2, <2>3, <2>4, <2>5, Zenon DEF VoteStep
<1>2. TypeOK /\ [Next]_vars => [Final]_vars
    BY <1>1
<1>. QED
    BY <1>2, TypeCorrect, PTL DEF Spec, VoteIsFinal

----------------------------------------------------------------------------
(* Who relies on the votes: tallies, requests of leaders, leaders and hints. *)

LEMMA GrantsKept ==
    ASSUME GrantsAreVotes, VoteStep,
           \A k \in Node : campaign'[k] = campaign[k] \/ campaign'[k].phase # "vote"
    PROVE  GrantsAreVotes'
<1>1. votes \subseteq votes'
    BY DEF VoteStep, CastVote
<1>. QED
    BY <1>1 DEF GrantsAreVotes

\* campaign starts its real election with its own vote.
LEMMA RealElectionGrants ==
    ASSUME TypeOK, GrantsAreVotes, NEW n \in Node, RealElection(n)
    PROVE  GrantsAreVotes'
<1>1. campaign \in [Node -> Campaign]
    BY DEF TypeOK
<1>2. /\ campaign' = [campaign EXCEPT ![n] = Round(n, "vote", term[n] + 1)]
      /\ votes' = votes \cup {<<n, term[n] + 1, n>>}
    BY DEF RealElection
<1>3. /\ Round(n, "vote", term[n] + 1).granted = {n}
      /\ Round(n, "vote", term[n] + 1).term = term[n] + 1
    BY DEF Round
<1>. QED
    BY <1>1, <1>2, <1>3 DEF GrantsAreVotes

LEMMA NodeStepGrants ==
    ASSUME TypeOK, GrantsAreVotes, NEW n \in Node, NodeStep(n)
    PROVE  GrantsAreVotes'
<1>. DEFINE Kept == \A k \in Node : campaign'[k] = campaign[k] \/ campaign'[k].phase # "vote"
<1>1. campaign \in [Node -> Campaign] /\ VoteStep
    BY NodeStepVote, Zenon DEF TypeOK
<1>2. CASE RealElection(n)
    BY <1>2, RealElectionGrants
<1>3. ASSUME NEW c, c.phase # "vote", campaign' = [campaign EXCEPT ![n] = c]
      PROVE  Kept
    BY <1>1, <1>3
<1>4. CASE StartPreVote(n)
    <2>1. Round(n, "pre", term[n] + 1).phase # "vote"
        BY DEF Round
    <2>. QED
        BY <1>1, <1>3, <1>4, <2>1, GrantsKept, Zenon DEF StartPreVote
<1>5. CASE \E p \in Others(n) : AnswerPreVote(n, p)
    <2>1. PICK p \in Others(n) : AnswerPreVote(n, p)
        BY <1>5
    <2>2. Kept
        BY <1>1, <2>1 DEF AnswerPreVote, Campaign
    <2>. QED
        BY <1>1, <2>2, GrantsKept
<1>6. CASE /\ ~RealElection(n)
           /\ \/ PreVoteWon(n) \/ ForcedElection(n) \/ ElectionWon(n)
              \/ CampaignFails(n) \/ Crash(n)
    <2>1. campaign' = [campaign EXCEPT ![n] = NoCampaign]
        BY <1>6, Zenon DEF PreVoteWon, ForcedElection, AbandonCampaign, ElectionWon,
                           CampaignFails, EndCampaign, Crash, Reboot
    <2>2. NoCampaign.phase # "vote"
        BY DEF NoCampaign
    <2>. QED
        BY <1>1, <1>3, <2>1, <2>2, GrantsKept, Zenon
<1>7. CASE UNCHANGED campaign
    BY <1>1, <1>7, GrantsKept
<1>. QED
    BY <1>2, <1>4, <1>5, <1>6, <1>7, Zenon
    DEF NodeStep, CheckQuorumFails, Replicate,
        Propose, ApplierTake, ApplierRestore, ApplierFinish, TakeSnapshot,
        StoreSnapshot, CompactLog, unchangedByApplier, ReadStart, ReadConfirmed,
        ReadServed, ReadFails, unchangedByReader, TransferStart, TransferSend,
        TransferEnd, unchangedByTransfer

LEMMA DeliverGrants ==
    ASSUME TypeOK, GrantsAreVotes, NEW m \in msgs, Deliver(m)
    PROVE  GrantsAreVotes'
<1>1. campaign \in [Node -> Campaign] /\ VoteStep /\ m.to \in Node /\ m.from \in Node
    BY DeliverVote, MessageKinds, Zenon DEF TypeOK
<1>2. CASE UNCHANGED campaign
    BY <1>1, <1>2, GrantsKept
<1>3. CASE HandleRequestVote(m) /\ ~UNCHANGED campaign
    <2>1. /\ campaign' = [campaign EXCEPT ![m.from].granted = @ \cup {m.to}]
          /\ votes' = votes \cup {<<m.to, m.term, m.from>>}
          /\ m.type = "vote" /\ Waiting(m)
        BY <1>3, Zenon DEF HandleRequestVote
    <2>2. campaign[m.from].term = m.term
        BY <2>1 DEF Waiting
    <2>3. ASSUME NEW k \in Node, campaign'[k].phase = "vote", NEW p \in campaign'[k].granted
          PROVE  <<p, campaign'[k].term, k>> \in votes'
        <3>1. /\ campaign'[k].phase = campaign[k].phase /\ campaign'[k].term = campaign[k].term
              /\ p \in campaign[k].granted \/ (p = m.to /\ k = m.from)
            BY <1>1, <2>1, <2>3 DEF Campaign
        <3>2. CASE p \in campaign[k].granted
            <4>1. <<p, campaign[k].term, k>> \in votes
                BY <2>3, <3>1, <3>2 DEF GrantsAreVotes
            <4>. QED
                BY <2>1, <3>1, <4>1
        <3>3. CASE p = m.to /\ k = m.from
            BY <2>1, <2>2, <3>1, <3>3
        <3>. QED
            BY <3>1, <3>2, <3>3
    <2>. QED
        BY <2>3 DEF GrantsAreVotes
<1>4. CASE HandleTimeoutNow(m)
    <2>1. \A k \in Node : campaign'[k] = campaign[k] \/ campaign'[k].phase # "vote"
        BY <1>1, <1>4 DEF HandleTimeoutNow, Campaign
    <2>. QED
        BY <1>1, <2>1, GrantsKept
<1>5. CASE CrashInHandler(m)
    <2>1. campaign' = [campaign EXCEPT ![m.to] = NoCampaign] /\ NoCampaign.phase # "vote"
        BY <1>5 DEF CrashInHandler, Reboot, NoCampaign
    <2>2. \A k \in Node : campaign'[k] = campaign[k] \/ campaign'[k].phase # "vote"
        BY <1>1, <2>1
    <2>. QED
        BY <1>1, <2>2, GrantsKept
<1>. QED
    BY <1>2, <1>3, <1>4, <1>5, Zenon
    DEF Deliver, HandleNewerTerm, HandleAppendEntries, HandleAppendReply,
        HandleInstallSnapshot, HandleSnapshotReply, ReplyTooLate

\* Only an elected node sends what leaders send.
RequestsStep ==
    \A m \in msgs' : m.type \in {"append", "snapshot"} => Elected(m.term, m.from)

LEMMA NodeStepRequests ==
    ASSUME TypeOK, ElectionInv, NEW n \in Node, NodeStep(n)
    PROVE  RequestsStep
<1>1. RequestsFromLeaders
    BY DEF ElectionInv
<1>2. ASSUME NEW S, msgs' \subseteq msgs \cup S,
             \A m \in S : m.type \notin {"append", "snapshot"}
      PROVE  RequestsStep
    BY <1>1, <1>2 DEF RequestsStep, RequestsFromLeaders
<1>3. CASE \E p \in Others(n) : AnswerPreVote(n, p)
    <2>1. PICK p : AnswerPreVote(n, p)
        BY <1>3
    <2>2. msgs' \subseteq msgs \cup NewerTerm(p, n, term[n])
        BY <2>1 DEF AnswerPreVote
    <2>3. \A m \in NewerTerm(p, n, term[n]) : m.type \notin {"append", "snapshot"}
        BY DEF NewerTerm
    <2>. QED
        BY <1>2, <2>2, <2>3
<1>4. CASE RealElection(n)
    <2>. DEFINE S == {[type |-> "vote", from |-> n, to |-> p, term |-> term[n] + 1,
                       lastIndex |-> LastIndex(rlog[n]),
                       lastTerm |-> LastTerm(rlog[n])] : p \in Others(n)}
    <2>1. msgs' \subseteq msgs \cup S
        BY <1>4 DEF RealElection
    <2>2. \A m \in S : m.type \notin {"append", "snapshot"}
        OBVIOUS
    <2>. QED
        BY <1>2, <2>1, <2>2, Zenon
<1>5. CASE msgs' \subseteq msgs
    BY <1>1, <1>5 DEF RequestsStep, RequestsFromLeaders
<1>6. CASE \E p \in Others(n) : Replicate(n, p)
    <2>1. PICK p, wait :
            /\ state[n] = "leader"
            /\ msgs' = msgs \cup {IF nextIndex[n][p] <= rlog[n].snapIndex
                                   THEN SnapshotRequest(n, p, wait)
                                   ELSE AppendRequest(n, p, wait)}
        BY <1>6, Zenon DEF Replicate
    <2>2. Elected(term[n], n)
        BY <2>1 DEF ElectionInv
    <2>3. /\ SnapshotRequest(n, p, wait).term = term[n] /\ SnapshotRequest(n, p, wait).from = n
          /\ AppendRequest(n, p, wait).term = term[n] /\ AppendRequest(n, p, wait).from = n
        BY DEF SnapshotRequest, AppendRequest
    <2>. QED
        BY <1>1, <2>1, <2>2, <2>3 DEF RequestsStep, RequestsFromLeaders
<1>7. CASE ReadStart(n)
    <2>1. PICK unsent : msgs' = StampRequests(n, unsent)
        BY <1>7, Zenon DEF ReadStart
    <2>2. ASSUME NEW m \in msgs, NEW b
          PROVE  LET k == [m EXCEPT !.fresh = b]
                 IN  k.type = m.type /\ k.term = m.term /\ k.from = m.from
        <3>1. m \in Message
            BY DEF TypeOK
        <3>. QED
            BY <3>1 DEF Message, VoteMsg, NewerTermMsg, AppendMsg, AppendReplyMsg, SnapshotMsg,
                        SnapshotReplyMsg, TimeoutNowMsg
    <2>3. ASSUME NEW k \in msgs'
          PROVE  \E m \in msgs : k.type = m.type /\ k.term = m.term /\ k.from = m.from
        <3>1. PICK m \in msgs : k = IF m.type \in {"append", "snapshot"} /\ m.from = n
                                  THEN [m EXCEPT !.fresh = m \in unsent]
                                  ELSE IF m.type \in {"appendReply", "snapshotReply"} /\ m.to = n
                                  THEN [m EXCEPT !.fresh = FALSE]
                                  ELSE m
            BY <2>1, <2>3, Zenon DEF StampRequests
        <3>2. \/ k = [m EXCEPT !.fresh = m \in unsent]
              \/ k = [m EXCEPT !.fresh = FALSE]
              \/ k = m
            BY <3>1, Zenon
        <3>3. k.type = m.type /\ k.term = m.term /\ k.from = m.from
            <4>1. CASE k = [m EXCEPT !.fresh = m \in unsent]
                BY <2>2, <4>1, Zenon
            <4>2. CASE k = [m EXCEPT !.fresh = FALSE]
                BY <2>2, <4>2, Zenon
            <4>. QED
                BY <3>2, <4>1, <4>2, Zenon
        <3>. QED
            BY <3>3
    <2>. QED
        BY <1>1, <2>3 DEF RequestsStep, RequestsFromLeaders
<1>8. CASE \E t \in transfers[n] : TransferSend(n, t)
    <2>1. PICK t : msgs' = msgs \cup {[type |-> "timeoutNow", from |-> n, to |-> t.target,
                                       term |-> t.term]}
        BY <1>8, Zenon DEF TransferSend
    <2>. QED
        BY <1>1, <2>1 DEF RequestsStep, RequestsFromLeaders
<1>9. CASE EndCampaign(n) \/ Crash(n)
    <2>1. msgs' \subseteq msgs
        BY <1>9 DEF EndCampaign, Crash, SurvivingMsgs
    <2>. QED
        BY <1>5, <2>1
<1>10. CASE UNCHANGED msgs
    BY <1>5, <1>10
<1>. QED
    BY <1>3, <1>4, <1>6, <1>7, <1>8, <1>9, <1>10, Zenon
    DEF NodeStep, StartPreVote, PreVoteWon, ForcedElection, AbandonCampaign, ElectionWon,
        CampaignFails, CheckQuorumFails, Propose, ApplierTake, ApplierRestore, ApplierFinish,
        TakeSnapshot, StoreSnapshot, CompactLog, unchangedByApplier, ReadConfirmed,
        ReadServed, ReadFails, TransferStart, TransferEnd

LEMMA DeliverRequests ==
    ASSUME TypeOK, ElectionInv, NEW m \in msgs, Deliver(m)
    PROVE  RequestsStep
<1>1. RequestsFromLeaders
    BY DEF ElectionInv
<1>2. CASE msgs' \subseteq msgs
    BY <1>1, <1>2 DEF RequestsStep, RequestsFromLeaders
<1>3. ASSUME NEW S, msgs' = Respond(m, S),
             \A k \in S : k.type \notin {"append", "snapshot"}
      PROVE  RequestsStep
    <2>1. \A k \in msgs' : k \in msgs \/ k \in S
        BY <1>3, Zenon DEF Respond
    <2>. QED
        BY <1>1, <1>3, <2>1, Zenon DEF RequestsStep, RequestsFromLeaders
<1>4. CASE HandleRequestVote(m)
    <2>1. CASE msgs' = msgs \ {m}
        BY <1>2, <2>1
    <2>. DEFINE answer == IF term[m.to] > m.term THEN NewerTerm(m.to, m.from, m.term) ELSE {}
    <2>2. CASE msgs' = Respond(m, answer)
        <3>1. \A k \in answer : k.type \notin {"append", "snapshot"}
            BY DEF NewerTerm
        <3>. HIDE DEF answer
        <3>. QED
            BY <1>3, <2>2, <3>1
    <2>. QED
        BY <1>4, <2>1, <2>2, Zenon DEF HandleRequestVote
<1>5. CASE HandleAppendEntries(m) \/ HandleInstallSnapshot(m)
    <2>1. PICK out : \/ msgs' = Respond(m, NewerTerm(m.to, m.from, m.term))
                     \/ msgs' = Respond(m, {AppendReply(m, out)})
                     \/ msgs' = Respond(m, {SnapshotReply(m)})
        BY <1>5, Zenon DEF HandleAppendEntries, HandleInstallSnapshot
    <2>2. /\ \A k \in NewerTerm(m.to, m.from, m.term) : k.type \notin {"append", "snapshot"}
          /\ \A k \in {AppendReply(m, out)} : k.type \notin {"append", "snapshot"}
          /\ \A k \in {SnapshotReply(m)} : k.type \notin {"append", "snapshot"}
        BY DEF NewerTerm, AppendReply, SnapshotReply
    <2>. QED
        BY <1>3, <2>1, <2>2, Zenon
<1>6. CASE CrashInHandler(m)
    <2>1. msgs' \subseteq msgs
        BY <1>6 DEF CrashInHandler, SurvivingMsgs
    <2>. QED
        BY <1>2, <2>1
<1>7. CASE msgs' = msgs \ {m}
    BY <1>2, <1>7
<1>. QED
    BY <1>4, <1>5, <1>6, <1>7, Zenon
    DEF Deliver, HandleNewerTerm, HandleTimeoutNow, HandleAppendReply, HandleSnapshotReply,
        ReplyTooLate

\* Only an elected node leads, and only an elected node is hinted at.
RolesStep ==
    \A k \in Node :
        /\ state'[k] = "leader" => Elected(term'[k], k)
        /\ leaderID'[k] # NoNode => Elected(term'[k], leaderID'[k])

\* A node that gives up its role, or keeps it in the same term, is no danger.
LEMMA RolesKept ==
    ASSUME ElectionInv,
           \A k \in Node :
              /\ state'[k] = "leader" => state[k] = "leader" /\ term'[k] = term[k]
              /\ leaderID'[k] # NoNode => leaderID'[k] = leaderID[k] /\ term'[k] = term[k]
    PROVE  RolesStep
<1>. QED
    BY Zenon DEF ElectionInv, HintNamesAWinner, RolesStep

\* becomeFollowerLocked, on behalf of a leader or of nobody.
LEMMA FollowerRoles ==
    ASSUME TypeOK, ElectionInv, NEW n \in Node, NEW t, NEW leader,
           term' = [term EXCEPT ![n] = t],
           state' = [state EXCEPT ![n] = "follower"],
           leaderID' = [leaderID EXCEPT ![n] = leader],
           leader # NoNode => Elected(t, leader)
    PROVE  RolesStep
<1>1. term \in [Node -> Nat] /\ state \in [Node -> State] /\ leaderID \in [Node -> NodeOrNone]
    BY DEF TypeOK
<1>. QED
    BY <1>1 DEF ElectionInv, HintNamesAWinner, RolesStep

LEMMA RealElectionRoles ==
    ASSUME TypeOK, ElectionInv, NEW n \in Node, RealElection(n)
    PROVE  RolesStep
<1>1. term \in [Node -> Nat] /\ state \in [Node -> State] /\ leaderID \in [Node -> NodeOrNone]
    BY DEF TypeOK
<1>2. \A k \in Node :
         /\ state'[k] = "leader" => state[k] = "leader" /\ term'[k] = term[k]
         /\ leaderID'[k] # NoNode => leaderID'[k] = leaderID[k] /\ term'[k] = term[k]
    BY <1>1 DEF RealElection
<1>. QED
    BY <1>2, RolesKept

\* becomeLeaderLocked, in the election that was won.
LEMMA ElectionWonRoles ==
    ASSUME TypeOK, ElectionInv, NEW n \in Node, ElectionWon(n)
    PROVE  RolesStep
<1>1. /\ term \in [Node -> Nat] /\ state \in [Node -> State]
      /\ leaderID \in [Node -> NodeOrNone] /\ campaign[n] \in Campaign
    BY DEF TypeOK
<1>2. CASE StillCandidate(n)
    <2>1. /\ term' = term /\ state' = [state EXCEPT ![n] = "leader"]
          /\ leaderID' = [leaderID EXCEPT ![n] = n]
        BY <1>2, Zenon DEF ElectionWon, BecomeLeader
    <2>2. campaign[n].granted \subseteq Voters(term[n], n)
        BY <1>1, <1>2 DEF StillCandidate, ElectionWon, ElectionInv, GrantsAreVotes, Voters,
                          Campaign
    <2>3. Voters(term[n], n) \in SUBSET Node /\ campaign[n].granted \in SUBSET Node
        BY <1>1 DEF Voters, Campaign
    <2>4. Elected(term[n], n)
        BY <2>2, <2>3, MajorityMonotonic DEF ElectionWon, Elected
    <2>. QED
        BY <1>1, <2>1, <2>4 DEF ElectionInv, HintNamesAWinner, RolesStep
<1>3. CASE ~StillCandidate(n)
    BY <1>3, RolesKept, Zenon DEF ElectionWon
<1>. QED
    BY <1>2, <1>3

LEMMA NodeStepRoles ==
    ASSUME TypeOK, ElectionInv, NEW n \in Node, NodeStep(n)
    PROVE  RolesStep
<1>1. CASE UNCHANGED <<term, state, leaderID>>
    BY <1>1, RolesKept
<1>2. CASE CheckQuorumFails(n) \/ Crash(n)
    <2>1. /\ state' = [state EXCEPT ![n] = "follower"]
          /\ leaderID' = [leaderID EXCEPT ![n] = NoNode]
        BY <1>2, Zenon DEF CheckQuorumFails, BecomeFollower, Demote, Crash, Reboot
    <2>2. term' = [term EXCEPT ![n] = term[n]]
        BY <1>2 DEF CheckQuorumFails, BecomeFollower, AdoptTerm, Crash, TypeOK
    <2>. QED
        BY <2>1, <2>2, FollowerRoles, Zenon
<1>. QED
    BY <1>1, <1>2, RealElectionRoles, ElectionWonRoles, Zenon
    DEF NodeStep, StartPreVote, AnswerPreVote, PreVoteWon, ForcedElection, AbandonCampaign,
        CampaignFails, Replicate, Propose, ApplierTake, ApplierRestore, ApplierFinish,
        TakeSnapshot, StoreSnapshot, CompactLog, unchangedByApplier, ReadStart, ReadConfirmed,
        ReadServed, ReadFails, unchangedByReader, TransferStart, TransferSend,
        TransferEnd, unchangedByTransfer

LEMMA DeliverRoles ==
    ASSUME TypeOK, ElectionInv, NEW m \in msgs, Deliver(m)
    PROVE  RolesStep
<1>1. m.to \in Node /\ m.from \in Node /\ m.term \in Nat
    BY MessageKinds DEF TypeOK
<1>2. CASE UNCHANGED <<term, state, leaderID>>
    BY <1>2, RolesKept
<1>3. CASE HandleRequestVote(m)
    <2>1. CASE m.term > term[m.to]
        <3>1. term' = [term EXCEPT ![m.to] = m.term]
            BY <1>3, <2>1, Zenon DEF HandleRequestVote, AdoptTerm
        <3>2. /\ state' = [state EXCEPT ![m.to] = "follower"]
              /\ leaderID' = [leaderID EXCEPT ![m.to] = NoNode]
            BY <1>3, <2>1, Zenon DEF HandleRequestVote, Demote
        <3>. QED
            BY <1>1, <3>1, <3>2, FollowerRoles, Zenon
    <2>2. CASE ~(m.term > term[m.to])
        <3>1. UNCHANGED <<state, leaderID>>
            BY <1>3, <2>2, Zenon DEF HandleRequestVote
        <3>2. term' = term
            <4>1. CASE GrantVote(m.to, m)
                <5>1. term' = [term EXCEPT ![m.to] = m.term] /\ m.term = term[m.to]
                    BY <1>3, <2>2, <4>1, Zenon DEF HandleRequestVote, GrantVote, CanVote
                <5>. QED
                    BY <5>1 DEF TypeOK
            <4>2. CASE ~GrantVote(m.to, m)
                BY <1>3, <2>2, <4>2, Zenon DEF HandleRequestVote
            <4>. QED
                BY <4>1, <4>2
        <3>. QED
            BY <1>2, <3>1, <3>2
    <2>. QED
        BY <2>1, <2>2
<1>4. CASE HandleAppendEntries(m) \/ HandleInstallSnapshot(m)
    <2>1. m.type \in {"append", "snapshot"}
        BY <1>4 DEF HandleAppendEntries, HandleInstallSnapshot
    <2>2. Elected(m.term, m.from)
        BY <2>1 DEF ElectionInv, RequestsFromLeaders
    <2>3. CASE BecomeFollower(m.to, m.term, m.from)
        <3>1. /\ term' = [term EXCEPT ![m.to] = m.term]
              /\ state' = [state EXCEPT ![m.to] = "follower"]
              /\ leaderID' = [leaderID EXCEPT ![m.to] = m.from]
            BY <2>3, Zenon DEF BecomeFollower, AdoptTerm, Demote
        <3>. QED
            BY <1>1, <2>2, <3>1, FollowerRoles, Zenon
    <2>. QED
        BY <1>2, <1>4, <2>3, Zenon DEF HandleAppendEntries, HandleInstallSnapshot
<1>5. CASE HandleNewerTerm(m) \/ CrashInHandler(m)
    <2>1. CASE /\ AdoptTerm(m.to, m.term)
               /\ state' = [state EXCEPT ![m.to] = "follower"]
               /\ leaderID' = [leaderID EXCEPT ![m.to] = NoNode]
        <3>1. term' = [term EXCEPT ![m.to] = m.term]
            BY <2>1, Zenon DEF AdoptTerm
        <3>. QED
            BY <1>1, <2>1, <3>1, FollowerRoles, Zenon
    <2>. QED
        BY <1>2, <1>5, <2>1, Zenon
        DEF HandleNewerTerm, BecomeFollower, Demote, CrashInHandler, Reboot
<1>. QED
    BY <1>2, <1>3, <1>4, <1>5, Zenon
    DEF Deliver, HandleTimeoutNow, HandleAppendReply, HandleSnapshotReply, ReplyTooLate

----------------------------------------------------------------------------
LEMMA ElectionInvInit == Init => ElectionInv
<1>. SUFFICES ASSUME Init PROVE ElectionInv
    OBVIOUS
<1>1. VotesStand /\ RequestsFromLeaders
    BY DEF Init, NothingStored, Booted, NothingSpent, VotesStand, RequestsFromLeaders
<1>2. GrantsAreVotes
    BY DEF Init, NothingStored, Booted, NothingSpent, NoCampaign, GrantsAreVotes
<1>. QED
    BY <1>1, <1>2 DEF Init, NothingStored, Booted, NothingSpent, ElectionInv, HintNamesAWinner

LEMMA ElectionInvStep ==
    ASSUME TypeOK, ElectionInv, [Next]_vars
    PROVE  ElectionInv'
<1>1. CASE UNCHANGED vars
    <2>1. UNCHANGED <<term, votedFor, state, leaderID, campaign, msgs, votes>>
        BY <1>1, Zenon DEF vars
    <2>. QED
        BY <2>1, Zenon DEF ElectionInv, VotesStand, GrantsAreVotes, RequestsFromLeaders,
                           HintNamesAWinner, Elected, Voters, Majority
<1>2. CASE Next
    <2>1. VoteStep
        BY NextVote
    <2>2. VotesStand'
        BY <2>1, VotesStandStep DEF ElectionInv
    <2>3. GrantsAreVotes'
        BY <1>2, NodeStepGrants, DeliverGrants, Zenon DEF Next, ElectionInv
    <2>4. RequestsStep /\ RolesStep
        BY <1>2, NodeStepRequests, DeliverRequests, NodeStepRoles, DeliverRoles, Zenon DEF Next
    <2>5. RequestsFromLeaders'
        BY <2>1, <2>4, ElectedStays, Zenon DEF RequestsFromLeaders, RequestsStep
    <2>6. /\ \A n \in Node : state'[n] = "leader" => Elected(term[n], n)'
          /\ HintNamesAWinner'
        BY <2>1, <2>4, ElectedStays, Zenon DEF HintNamesAWinner, RolesStep
    <2>. QED
        BY <2>2, <2>3, <2>5, <2>6 DEF ElectionInv
<1>. QED
    BY <1>1, <1>2

\* The votes behind every tally, leader, hint and request stand, in any group.
THEOREM ElectionInvariant == Spec => []ElectionInv
<1>1. TypeOK /\ ElectionInv /\ [Next]_vars => ElectionInv'
    BY ElectionInvStep
<1>. QED
    BY <1>1, ElectionInvInit, TypeCorrect, PTL DEF Spec

\* Two nodes never lead in the same term, at whatever two moments, in any group,
\* through any restarts: campaign and HandleRequestVote elect at most one leader.
THEOREM ElectionsAreSafe == Spec => []ElectionSafety
<1>1. TypeOK /\ ElectionInv => ElectionSafety
    <2>. SUFFICES ASSUME TypeOK, ElectionInv PROVE ElectionSafety
        OBVIOUS
    <2>1. ASSUME NEW t, NEW a \in Node, NEW b \in Node, Elected(t, a), Elected(t, b)
          PROVE  a = b
        <3>1. Voters(t, a) \cap Voters(t, b) # {}
            <4>1. Voters(t, a) \in SUBSET Node /\ Voters(t, b) \in SUBSET Node
                BY DEF Voters
            <4>. QED
                BY <2>1, <4>1, MajoritiesMeet DEF Elected
        <3>2. PICK v : <<v, t, a>> \in votes /\ <<v, t, b>> \in votes
            BY <3>1, Zenon DEF Voters
        <3>. QED
            BY <3>2 DEF ElectionInv, VotesStand
    <2>. QED
        BY <2>1 DEF ElectionInv, ElectionSafety
<1>. QED
    BY <1>1, TypeCorrect, ElectionInvariant, PTL

\* A leader hint always names a node that won the election of its term: what
\* NotLeaderError tells clients was true of that term, in any group.
THEOREM HintsNameWinners == Spec => []HintNamesAWinner
<1>1. ElectionInv => HintNamesAWinner
    BY DEF ElectionInv
<1>. QED
    BY <1>1, ElectionInvariant, PTL
=============================================================================
