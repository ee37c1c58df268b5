-------------------------------- MODULE Raft --------------------------------
(***************************************************************************)
(* One Raft group of EdgeKV (internal/raft): elections with pre-vote,      *)
(* replication, commitment, snapshots, linearizable reads and leadership   *)
(* transfer, over a network that delays, reorders and loses messages, with *)
(* crashes and restarts.                                                   *)
(*                                                                         *)
(* An action is one section of code under Raft.mu (or one call to Storage  *)
(* made without it).  Timers are nondeterministic: a timeout may fire at   *)
(* any moment its code allows.  A node that is down is a node that takes   *)
(* no step, so Crash stands for the crash and the reboot through New.      *)
(***************************************************************************)
EXTENDS RaftReplica, FiniteSets

CONSTANTS
    Node,               \* Config.Peers: the members of the group
    NoNode,             \* "": no vote, no known leader, no transfer target
    MaxAppendEntries,   \* Config.MaxAppendEntries
    SnapshotThreshold   \* Config.SnapshotThreshold; 0 disables snapshots

CONSTANTS               \* bounds of the model, all of them in guards
    MaxRounds,          \* election timeouts, each the start of a pre-vote round
    MaxSends,           \* AppendEntries and InstallSnapshot requests
    MaxIndex,           \* no leader appends beyond this index
    MaxApplied,         \* the applier gets no further than this index
    MaxCrashes,
    MaxTimeouts,        \* RPCs given up before they are handled, check-quorum failures
    MaxReads, MaxTransfers

ASSUME NodeAssumption == IsFiniteSet(Node) /\ Node # {} /\ NoNode \notin Node

ASSUME ConfigAssumption ==
    /\ MaxAppendEntries \in Nat \ {0}
    /\ SnapshotThreshold \in Nat

VARIABLES               \* durable: written to Storage before the lock is released
    term, votedFor,
    rlog,               \* its entries are also the log on disk
    diskSnap            \* the newest snapshot on disk

VARIABLES               \* volatile, every node
    state, leaderID,
    campaign,           \* the election attempt in progress (campaigning)
    commitIndex, lastApplied,
    sm,                 \* the state machine: the commands applied, in order
    pendingSnapshot,    \* handed from HandleInstallSnapshot to the applier
    applier             \* where the applier goroutine is

VARIABLES               \* volatile, meaningful on the leader
    nextIndex, matchIndex, noopIndex, transferTarget,
    waiters             \* <<index, term>> of proposals waiting for their answer

VARIABLES
    read,               \* the read round of runReader and its waitApplied
    transfers,          \* the TransferLeadership calls in progress
    msgs,               \* RPC requests and replies in flight
    spent               \* how much of each budget has been used (model bound)

VARIABLES               \* history: what the properties are about
    votes,              \* every vote ever made durable
    committed,          \* the longest prefix ever covered by a commitIndex
    acked,              \* <<index, term>> of proposals answered with success
    mustSee             \* how much was committed when the current read began

durableVars == <<term, votedFor, rlog, diskSnap>>
roleVars == <<state, leaderID, campaign>>
applyVars == <<lastApplied, sm, pendingSnapshot, applier>>
progressVars == <<nextIndex, matchIndex, noopIndex>>
proposeVars == <<transferTarget, waiters>>
historyVars == <<votes, committed, acked, mustSee>>
vars == <<durableVars, roleVars, commitIndex, applyVars, progressVars,
          proposeVars, read, transfers, msgs, spent, historyVars>>

----------------------------------------------------------------------------
Others(n) == Node \ {n}

\* r.quorum = len(Peers)/2 + 1
Majority(S) == Cardinality(S) >= Cardinality(Node) \div 2 + 1

NoCampaign == [phase |-> "idle", term |-> 0, lastIndex |-> 0, lastTerm |-> 0,
               granted |-> {}]
IdleApplier == [pc |-> "idle", entries |-> <<>>, last |-> 0, snap |-> NoSnapshot]
NoRead == [phase |-> "idle", term |-> 0, index |-> 0, acks |-> {}]

\* Every entry n holds, the ones folded into its snapshot included.
History(n) == HistoryOf(diskSnap[n], rlog[n])

\* The caller of m is still blocked in the RPC: its context is not cancelled.  A
\* vote round cancels it when it ends, a replicator when its leadership ends.
Waiting(m) ==
    IF m.type = "vote"
    THEN campaign[m.from].phase = "vote" /\ campaign[m.from].term = m.term
    ELSE m.wait /\ state[m.from] = "leader" /\ term[m.from] = m.term

\* Handling m takes it off the network; its answer leaves only if awaited.
Respond(m, replies) == (msgs \ {m}) \cup (IF Waiting(m) THEN replies ELSE {})

\* An answer from a peer in a newer term.  All callers treat it alike, so it is
\* one kind of message; term is the peer's, reqTerm that of the request.
NewerTerm(p, n, reqTerm) ==
    {[type |-> "newerTerm", from |-> p, to |-> n, term |-> term[p], reqTerm |-> reqTerm]}

\* No member has stored anything yet.
NothingStored ==
    /\ term = [n \in Node |-> 0]
    /\ votedFor = [n \in Node |-> NoNode]
    /\ rlog = [n \in Node |-> EmptyLog]
    /\ diskSnap = [n \in Node |-> NoSnapshot]
    /\ votes = {}
    /\ committed = <<>>

\* Every member has just been started by New, with no snapshot on its disk.
Booted ==
    /\ state = [n \in Node |-> "follower"]
    /\ leaderID = [n \in Node |-> NoNode]
    /\ campaign = [n \in Node |-> NoCampaign]
    /\ commitIndex = [n \in Node |-> 0]
    /\ lastApplied = [n \in Node |-> 0]
    /\ sm = [n \in Node |-> <<>>]
    /\ pendingSnapshot = [n \in Node |-> NoSnapshot]
    /\ applier = [n \in Node |-> IdleApplier]
    /\ nextIndex = [n \in Node |-> [p \in Node |-> 1]]
    /\ matchIndex = [n \in Node |-> [p \in Node |-> 0]]
    /\ noopIndex = [n \in Node |-> 0]
    /\ transferTarget = [n \in Node |-> NoNode]
    /\ waiters = [n \in Node |-> {}]
    /\ read = [n \in Node |-> NoRead]
    /\ transfers = [n \in Node |-> {}]
    /\ msgs = {}
    /\ acked = {}
    /\ mustSee = [n \in Node |-> 0]

NothingSpent == [rounds |-> 0, sends |-> 0, crashes |-> 0, timeouts |-> 0,
                 reads |-> 0, transfers |-> 0]

Init == NothingStored /\ Booted /\ spent = NothingSpent

----------------------------------------------------------------------------
(* Roles: becomeFollowerLocked, becomeLeaderLocked, advanceCommitLocked.    *)

\* Mutant: stepping down leaves the proposals waiting.
DemoteKeepsWaiters(n, leader) ==
    /\ state' = [state EXCEPT ![n] = "follower"]
    /\ leaderID' = [leaderID EXCEPT ![n] = leader]
    /\ transferTarget' = [transferTarget EXCEPT ![n] = NoNode]
    /\ UNCHANGED waiters

\* Mutant: the leader of the old term stays the hint in the new one.
DemoteKeepsHint(n, leader) ==
    /\ state' = [state EXCEPT ![n] = "follower"]
    /\ leaderID' = [leaderID EXCEPT ![n] = IF leader = NoNode THEN @ ELSE leader]
    /\ transferTarget' = [transferTarget EXCEPT ![n] = NoNode]
    /\ waiters' = [waiters EXCEPT ![n] = {}]

\* A leader that steps down fails its waiters and drops its transfer target.
Demote(n, leader) ==
    /\ state' = [state EXCEPT ![n] = "follower"]
    /\ leaderID' = [leaderID EXCEPT ![n] = leader]
    /\ IF state[n] = "leader"
       THEN /\ transferTarget' = [transferTarget EXCEPT ![n] = NoNode]
            /\ waiters' = [waiters EXCEPT ![n] = {}]
       ELSE UNCHANGED proposeVars

\* Mutant: the vote is cleared even when the term is the same.
AdoptTermAlwaysClears(n, t) ==
    /\ term' = [term EXCEPT ![n] = t]
    /\ votedFor' = [votedFor EXCEPT ![n] = NoNode]

\* A new term clears the vote; both are durable before anything else happens.
AdoptTerm(n, t) ==
    /\ term' = [term EXCEPT ![n] = t]
    /\ votedFor' = [votedFor EXCEPT ![n] = IF t > term[n] THEN NoNode ELSE @]

BecomeFollower(n, t, leader) == AdoptTerm(n, t) /\ Demote(n, leader)

\* What each member is known to hold, the leader's own log first.
Held(n, l, match) == [p \in Node |-> IF p = n THEN LastIndex(l) ELSE match[p]]

\* Mutant: the position in the sorted matches is one too high.
IsQuorumIndexOffByOne(held, c) ==
    /\ Cardinality({p \in Node : held[p] >= c}) >= Cardinality(Node) \div 2
    /\ Cardinality({p \in Node : held[p] > c}) < Cardinality(Node) \div 2

\* c is the value at position len - quorum of the sorted matches: a majority
\* holds it and no majority holds more.
IsQuorumIndex(held, c) ==
    /\ Majority({p \in Node : held[p] >= c})
    /\ ~Majority({p \in Node : held[p] > c})

\* Mutant: an entry of an older term is committed by counting replicas.
MayCommitAnyTerm(n, l, c) == c > commitIndex[n]

\* Only an entry of the leader's own term is committed by counting replicas.
MayCommit(n, l, c) == c > commitIndex[n] /\ TermAt(l, c) = term[n]

NewCommitIndex(n, l, match) ==
    LET held == Held(n, l, match)
        next == {c \in {held[p] : p \in Node} : IsQuorumIndex(held, c) /\ MayCommit(n, l, c)}
    IN  IF next = {} THEN commitIndex[n] ELSE CHOOSE c \in next : TRUE

\* commitIndex moves to c on a node whose full history is h.
CommitTo(n, c, h) ==
    /\ commitIndex' = [commitIndex EXCEPT ![n] = c]
    /\ committed' = IF c > Len(committed) THEN SubSeq(h, 1, c) ELSE committed

\* The leader adds one entry of its term to its log and makes it durable.
LeaderAppend(n, match) ==
    LET l == AppendTo(rlog[n], <<term[n]>>)
    IN  /\ LastIndex(rlog[n]) < MaxIndex
        /\ rlog' = [rlog EXCEPT ![n] = l]
        /\ CommitTo(n, NewCommitIndex(n, l, match), HistoryOf(diskSnap[n], l))

NoMatch == [p \in Node |-> 0]

BecomeLeader(n) ==
    LET next == LastIndex(rlog[n]) + 1
    IN  /\ state' = [state EXCEPT ![n] = "leader"]
        /\ leaderID' = [leaderID EXCEPT ![n] = n]
        /\ transferTarget' = [transferTarget EXCEPT ![n] = NoNode]
        /\ nextIndex' = [nextIndex EXCEPT ![n] = [p \in Node |-> next]]
        /\ matchIndex' = [matchIndex EXCEPT ![n] = NoMatch]
        /\ noopIndex' = [noopIndex EXCEPT ![n] = next]
        /\ LeaderAppend(n, NoMatch)

----------------------------------------------------------------------------
(* Elections: campaign, collectVotes, HandleRequestVote, HandleTimeoutNow.  *)

\* logUpToDateLocked
LogUpToDate(n, lastIndex, lastTerm) ==
    \/ lastTerm > LastTerm(rlog[n])
    \/ lastTerm = LastTerm(rlog[n]) /\ lastIndex >= LastIndex(rlog[n])

\* voteRequestLocked and the start of collectVotes: n votes for itself and asks.
Round(n, phase, t) ==
    [phase |-> phase, term |-> t, lastIndex |-> LastIndex(rlog[n]),
     lastTerm |-> LastTerm(rlog[n]), granted |-> {n}]

\* collectVotes returned and cancelled its context.  Requests not handled yet are
\* dropped, or are late and will be handled with nobody waiting.
EndCampaign(n) ==
    LET pending == {m \in msgs : m.type = "vote" /\ m.from = n /\ m.term = campaign[n].term}
    IN  /\ campaign' = [campaign EXCEPT ![n] = NoCampaign]
        /\ \E late \in SUBSET {m.to : m \in pending} :
              /\ spent.timeouts + Cardinality(late) <= MaxTimeouts
              /\ spent' = [spent EXCEPT !.timeouts = @ + Cardinality(late)]
              /\ msgs' = msgs \ {m \in pending : m.to \notin late}

\* The election timer of tick fires and campaign(false) starts its pre-vote.
StartPreVote(n) ==
    /\ state[n] # "leader"
    /\ campaign[n].phase = "idle"
    /\ spent.rounds < MaxRounds
    /\ spent' = [spent EXCEPT !.rounds = @ + 1]
    /\ campaign' = [campaign EXCEPT ![n] = Round(n, "pre", term[n] + 1)]
    /\ UNCHANGED <<durableVars, state, leaderID, commitIndex, applyVars, progressVars,
                   proposeVars, read, transfers, msgs, historyVars>>

\* handlePreVoteLocked; whether a leader was heard of within ElectionTimeoutMin
\* is left open.
WouldVote(p, c) ==
    /\ c.term > term[p]
    /\ state[p] # "leader"
    /\ LogUpToDate(p, c.lastIndex, c.lastTerm)

\* p answers the pre-vote of n.  The handler changes nothing at p and a grant is
\* only looked at in PreVoteWon, so request, handler and tally are one step; an
\* answer in a newer term may come in late.
AnswerPreVote(n, p) ==
    /\ campaign[n].phase = "pre"
    /\ ~Majority(campaign[n].granted)
    /\ \/ /\ p \notin campaign[n].granted
          /\ WouldVote(p, campaign[n])
          /\ campaign' = [campaign EXCEPT ![n].granted = @ \cup {p}]
          /\ UNCHANGED msgs
       \/ /\ term[p] > term[n]
          /\ msgs' = msgs \cup NewerTerm(p, n, term[n])
          /\ UNCHANGED campaign
    /\ UNCHANGED <<durableVars, state, leaderID, commitIndex, applyVars, progressVars,
                   proposeVars, read, transfers, spent, historyVars>>

\* The real election of campaign: new term and own vote durable, then ask.
RealElection(n) ==
    LET t == term[n] + 1
    IN  /\ term' = [term EXCEPT ![n] = t]
        /\ votedFor' = [votedFor EXCEPT ![n] = n]
        /\ votes' = votes \cup {<<n, t, n>>}
        /\ state' = [state EXCEPT ![n] = "candidate"]
        /\ leaderID' = [leaderID EXCEPT ![n] = NoNode]
        /\ campaign' = [campaign EXCEPT ![n] = Round(n, "vote", t)]
        /\ msgs' = msgs \cup {[type |-> "vote", from |-> n, to |-> p, term |-> t,
                               lastIndex |-> LastIndex(rlog[n]),
                               lastTerm |-> LastTerm(rlog[n])] : p \in Others(n)}

AbandonCampaign(n) ==
    /\ campaign' = [campaign EXCEPT ![n] = NoCampaign]
    /\ UNCHANGED <<term, votedFor, state, leaderID, msgs, votes>>

\* A majority would vote for n, but the world may have moved while n was asking.
StillWanted(n) == state[n] # "leader" /\ term[n] + 1 = campaign[n].term

PreVoteWon(n) ==
    /\ campaign[n].phase = "pre"
    /\ Majority(campaign[n].granted)
    /\ IF StillWanted(n) THEN RealElection(n) ELSE AbandonCampaign(n)
    /\ UNCHANGED <<rlog, diskSnap, commitIndex, applyVars, progressVars,
                   proposeVars, read, transfers, spent, committed, acked, mustSee>>

\* campaign(true), spawned by HandleTimeoutNow, gets the lock.
ForcedElection(n) ==
    /\ campaign[n].phase = "forced"
    /\ IF state[n] = "leader" THEN AbandonCampaign(n) ELSE RealElection(n)
    /\ UNCHANGED <<rlog, diskSnap, commitIndex, applyVars, progressVars,
                   proposeVars, read, transfers, spent, committed, acked, mustSee>>

\* Mutant: a majority of grants is enough, whatever happened meanwhile.
StillCandidateUnchecked(n) == TRUE

\* A majority voted: n leads only if this is still the election it won.
StillCandidate(n) == state[n] = "candidate" /\ term[n] = campaign[n].term

ElectionWon(n) ==
    /\ campaign[n].phase = "vote"
    /\ Majority(campaign[n].granted)
    /\ EndCampaign(n)
    /\ IF StillCandidate(n)
       THEN BecomeLeader(n)
       ELSE UNCHANGED <<state, leaderID, transferTarget, progressVars, rlog,
                        commitIndex, committed>>
    /\ UNCHANGED <<term, votedFor, diskSnap, applyVars, waiters, read, transfers,
                   votes, acked, mustSee>>

\* The round times out or a majority is out of reach.
CampaignFails(n) ==
    /\ campaign[n].phase \in {"pre", "vote"}
    /\ EndCampaign(n)
    /\ UNCHANGED <<durableVars, state, leaderID, commitIndex, applyVars, progressVars,
                   proposeVars, read, transfers, historyVars>>

\* Mutant: an earlier vote in the same term is not looked at.
CanVoteAgain(n, m) == m.term >= term[n]

\* One vote per term, first come first served.
CanVote(n, m) ==
    \/ m.term > term[n]
    \/ m.term = term[n] /\ votedFor[n] \in {NoNode, m.from}

GrantVote(n, m) == CanVote(n, m) /\ LogUpToDate(n, m.lastIndex, m.lastTerm)

\* The vote is durable before the answer leaves.  A grant is only looked at in
\* ElectionWon, which may come late or never, so it is tallied at once.
HandleRequestVote(m) ==
    LET n == m.to
    IN  /\ m.type = "vote"
        /\ IF m.term > term[n] THEN Demote(n, NoNode)
           ELSE UNCHANGED <<state, leaderID, proposeVars>>
        /\ \/ /\ GrantVote(n, m)
              /\ term' = [term EXCEPT ![n] = m.term]
              /\ votedFor' = [votedFor EXCEPT ![n] = m.from]
              /\ votes' = votes \cup {<<n, m.term, m.from>>}
              /\ msgs' = msgs \ {m}
              /\ campaign' = IF Waiting(m)
                             THEN [campaign EXCEPT ![m.from].granted = @ \cup {n}]
                             ELSE campaign
           \/ /\ ~GrantVote(n, m)
              /\ IF m.term > term[n] THEN AdoptTerm(n, m.term)
                 ELSE UNCHANGED <<term, votedFor>>
              /\ msgs' = Respond(m, IF term[n] > m.term
                                    THEN NewerTerm(n, m.from, m.term) ELSE {})
              /\ UNCHANGED <<campaign, votes>>
        /\ UNCHANGED <<rlog, diskSnap, commitIndex, applyVars,
                       progressVars, read, transfers, spent, committed, acked, mustSee>>

\* collectVotes, replicateOnce or sendSnapshot has an answer in a newer term.
HandleNewerTerm(m) ==
    LET n == m.to
    IN  /\ m.type = "newerTerm"
        /\ msgs' = msgs \ {m}
        /\ \/ m.term > term[n] /\ BecomeFollower(n, m.term, NoNode)
           \/ /\ m.term <= term[n]
              /\ UNCHANGED <<term, votedFor, state, leaderID, proposeVars>>
        /\ UNCHANGED <<rlog, diskSnap, campaign, commitIndex, applyVars, progressVars,
                       read, transfers, spent, historyVars>>

\* HandleTimeoutNow only marks the node as campaigning; the election itself
\* starts later, in ForcedElection.
HandleTimeoutNow(m) ==
    LET n == m.to
    IN  /\ m.type = "timeoutNow"
        /\ msgs' = msgs \ {m}
        /\ campaign' =
             IF m.term = term[n] /\ state[n] = "follower" /\ campaign[n].phase = "idle"
             THEN [campaign EXCEPT ![n].phase = "forced"] ELSE campaign
        /\ UNCHANGED <<durableVars, state, leaderID, commitIndex, applyVars,
                       progressVars, proposeVars, read, transfers, spent, votes,
                       committed, acked, mustSee>>

\* Check-quorum in tick: a leader without recent answers from a majority steps
\* down in its own term.  A group of one always has its majority.
CheckQuorumFails(n) ==
    /\ state[n] = "leader"
    /\ ~Majority({n})
    /\ spent.timeouts < MaxTimeouts
    /\ spent' = [spent EXCEPT !.timeouts = @ + 1]
    /\ BecomeFollower(n, term[n], NoNode)
    /\ UNCHANGED <<rlog, diskSnap, campaign, commitIndex, applyVars, progressVars,
                   read, transfers, msgs, historyVars>>

----------------------------------------------------------------------------
(* Replication: runReplicator, replicateOnce, HandleAppendEntries.          *)

\* The replicator of (n, p) is blocked in an RPC of the current term.
Busy(n, p) ==
    \E m \in msgs :
        \/ /\ m.type \in {"append", "snapshot"}
           /\ m.from = n /\ m.to = p /\ m.term = term[n] /\ m.wait
        \/ /\ m.type \in {"appendReply", "snapshotReply"}
           /\ m.to = n /\ m.from = p /\ m.term = term[n]
        \/ /\ m.type = "newerTerm"
           /\ m.to = n /\ m.from = p /\ m.reqTerm = term[n]

\* wait is FALSE when the RPC will time out first: the request may still be
\* handled, its answer is lost.  fresh: sent after the current read began.
AppendRequest(n, p, wait) ==
    LET prev == nextIndex[n][p] - 1
        last == Min({LastIndex(rlog[n]), prev + MaxAppendEntries})
    IN  [type |-> "append", from |-> n, to |-> p, term |-> term[n],
         prev |-> prev, prevTerm |-> TermAt(rlog[n], prev),
         entries |-> Slice(rlog[n], prev + 1, last),
         commit |-> commitIndex[n],
         fresh |-> read[n].phase = "confirm", wait |-> wait]

\* sendSnapshot ships the newest snapshot on disk.
SnapshotRequest(n, p, wait) ==
    [type |-> "snapshot", from |-> n, to |-> p, term |-> term[n],
     snap |-> diskSnap[n],
     fresh |-> read[n].phase = "confirm", wait |-> wait]

\* replicateOnce up to the RPC: entries the follower needs and that were
\* compacted away are replaced by the snapshot.
Replicate(n, p) ==
    /\ state[n] = "leader"
    /\ ~Busy(n, p)
    /\ spent.sends < MaxSends
    /\ \E wait \in BOOLEAN :
         /\ ~wait => spent.timeouts < MaxTimeouts
         /\ spent' = [spent EXCEPT !.sends = @ + 1, !.timeouts = IF wait THEN @ ELSE @ + 1]
         /\ msgs' = msgs \cup {IF nextIndex[n][p] <= rlog[n].snapIndex
                               THEN SnapshotRequest(n, p, wait)
                               ELSE AppendRequest(n, p, wait)}
    /\ UNCHANGED <<durableVars, roleVars, commitIndex, applyVars, progressVars,
                   proposeVars, read, transfers, historyVars>>

\* Mutant: everything up to the follower's last index is taken as matched.
MatchWholeLog(m) == Max({m.prev + Len(m.entries), LastIndex(rlog[m.to])})

\* What a success says the follower holds.
MatchOf(m) == m.prev + Len(m.entries)

AppendReply(m, outcome) ==
    [type |-> "appendReply", from |-> m.to, to |-> m.from, term |-> m.term,
     success |-> outcome.success, index |-> outcome.index, cterm |-> outcome.term,
     match |-> MatchOf(m), fresh |-> m.fresh]

HandleAppendEntries(m) ==
    LET n == m.to
        out == AppendOutcome(rlog[n], m)
    IN  /\ m.type = "append"
        /\ \/ /\ m.term < term[n]
              /\ msgs' = Respond(m, NewerTerm(n, m.from, m.term))
              /\ UNCHANGED <<term, votedFor, state, leaderID, proposeVars, rlog,
                             commitIndex, committed>>
           \/ /\ m.term >= term[n]
              /\ BecomeFollower(n, m.term, m.from)
              /\ rlog' = [rlog EXCEPT ![n] = out.log]
              /\ CommitTo(n, Max({commitIndex[n], out.commit}),
                          HistoryOf(diskSnap[n], out.log))
              /\ msgs' = Respond(m, {AppendReply(m, out)})
        /\ UNCHANGED <<diskSnap, campaign, applyVars, progressVars, read, transfers,
                       spent, votes, acked, mustSee>>

\* recordAckLocked, as far as the read in progress can tell acks apart.
RecordAck(n, m) ==
    read' = IF m.fresh /\ read[n].phase = "confirm"
            THEN [read EXCEPT ![n].acks = @ \cup {m.from}] ELSE read

\* The peer is known to hold the leader's log up to match.
Matched(n, p, match) ==
    LET ms == [matchIndex[n] EXCEPT ![p] = match]
    IN  /\ matchIndex' = [matchIndex EXCEPT ![n] = ms]
        /\ nextIndex' = [nextIndex EXCEPT ![n][p] = match + 1]
        /\ CommitTo(n, NewCommitIndex(n, rlog[n], ms), History(n))

\* The leadership the RPC was sent for still stands.
CurrentReply(m) == state[m.to] = "leader" /\ term[m.to] = m.term

\* A reply that outlived the leadership it was for says nothing.
ReplyTooLate(m) ==
    /\ m.type \in {"appendReply", "snapshotReply"}
    /\ ~CurrentReply(m)
    /\ msgs' = msgs \ {m}
    /\ UNCHANGED <<durableVars, roleVars, commitIndex, applyVars, progressVars,
                   proposeVars, read, transfers, spent, historyVars>>

HandleAppendReply(m) ==
    LET n == m.to
        p == m.from
    IN  /\ m.type = "appendReply"
        /\ CurrentReply(m)
        /\ msgs' = msgs \ {m}
        /\ RecordAck(n, m)
        /\ \/ m.success /\ m.match > matchIndex[n][p] /\ Matched(n, p, m.match)
           \/ /\ m.success /\ m.match <= matchIndex[n][p]
              /\ UNCHANGED <<nextIndex, matchIndex, commitIndex, committed>>
           \/ /\ ~m.success
              /\ nextIndex' = [nextIndex EXCEPT ![n][p] =
                                  BackOff(rlog[n], m.index, m.cterm)]
              /\ UNCHANGED <<matchIndex, commitIndex, committed>>
        /\ UNCHANGED <<durableVars, roleVars, applyVars, noopIndex, proposeVars,
                       transfers, spent, votes, acked, mustSee>>

HandleSnapshotReply(m) ==
    LET n == m.to
        p == m.from
    IN  /\ m.type = "snapshotReply"
        /\ CurrentReply(m)
        /\ msgs' = msgs \ {m}
        /\ RecordAck(n, m)
        /\ IF m.match > matchIndex[n][p] THEN Matched(n, p, m.match)
           ELSE /\ nextIndex' = [nextIndex EXCEPT ![n][p] = matchIndex[n][p] + 1]
                /\ UNCHANGED <<matchIndex, commitIndex, committed>>
        /\ UNCHANGED <<durableVars, roleVars, applyVars, noopIndex, proposeVars,
                       transfers, spent, votes, acked, mustSee>>

SnapshotReply(m) ==
    [type |-> "snapshotReply", from |-> m.to, to |-> m.from, term |-> m.term,
     match |-> m.snap.index, fresh |-> m.fresh]

\* Storage.SaveSnapshot ignores a snapshot that is not newer than its own.
SaveSnapshot(n, snap) ==
    diskSnap' = IF snap.index > diskSnap[n].index
                THEN [diskSnap EXCEPT ![n] = snap] ELSE diskSnap

InstallSnapshot(n, snap) ==
    /\ SaveSnapshot(n, snap)
    /\ rlog' = [rlog EXCEPT ![n] =
                   IF KeepSuffix(@, snap) THEN CompactTo(@, snap.index, snap.term)
                   ELSE Reset(snap.index, snap.term)]
    /\ CommitTo(n, snap.index, snap.data)
    /\ pendingSnapshot' = [pendingSnapshot EXCEPT ![n] = snap]

\* Nothing is gained from a snapshot of what is already committed.
Useful(n, snap) == snap.index > commitIndex[n]

HandleInstallSnapshot(m) ==
    LET n == m.to
        ignored == UNCHANGED <<rlog, diskSnap, commitIndex, committed, pendingSnapshot>>
    IN  /\ m.type = "snapshot"
        /\ \/ /\ m.term < term[n]
              /\ msgs' = Respond(m, NewerTerm(n, m.from, m.term))
              /\ ignored
              /\ UNCHANGED <<term, votedFor, state, leaderID, proposeVars>>
           \/ /\ m.term >= term[n]
              /\ BecomeFollower(n, m.term, m.from)
              /\ msgs' = Respond(m, {SnapshotReply(m)})
              /\ \/ ~Useful(n, m.snap) /\ ignored
                 \/ Useful(n, m.snap) /\ InstallSnapshot(n, m.snap)
        /\ UNCHANGED <<campaign, lastApplied, sm, applier, progressVars, read,
                       transfers, spent, votes, acked, mustSee>>

----------------------------------------------------------------------------
(* Writes: Propose and appendProposals.                                     *)

\* A batch of proposals is that many consecutive steps.  A node that is not
\* the leader, or is handing its leadership over, refuses and changes nothing.
Propose(n) ==
    /\ state[n] = "leader"
    /\ transferTarget[n] = NoNode
    /\ LeaderAppend(n, matchIndex[n])
    /\ waiters' = [waiters EXCEPT ![n] = @ \cup {<<LastIndex(rlog[n]) + 1, term[n]>>}]
    /\ UNCHANGED <<term, votedFor, diskSnap, roleVars, applyVars, progressVars,
                   transferTarget, read, transfers, msgs, spent, votes, acked, mustSee>>

----------------------------------------------------------------------------
(* The applier goroutine: runApplier and takeSnapshot.                      *)

unchangedByApplier == <<term, votedFor, roleVars, commitIndex, progressVars,
                        transferTarget, read, transfers, msgs, spent, votes, committed,
                        mustSee>>

\* Mutant: a pending snapshot waits until the entries are applied.
EntriesFirst(n) == pendingSnapshot[n] # NoSnapshot /\ lastApplied[n] >= commitIndex[n]

\* A snapshot from the leader goes before entries.
SnapshotFirst(n) == pendingSnapshot[n] # NoSnapshot

\* Top of the loop, under the lock.  An index out of range would be a panic, the
\* end of this process (SlicesInRange: it never is).
ApplierTake(n) ==
    /\ applier[n].pc = "idle"
    /\ \/ /\ SnapshotFirst(n)
          /\ applier' = [applier EXCEPT ![n] =
                            [IdleApplier EXCEPT !.pc = "restore",
                                                !.snap = pendingSnapshot[n]]]
          /\ pendingSnapshot' = [pendingSnapshot EXCEPT ![n] = NoSnapshot]
       \/ /\ ~SnapshotFirst(n)
          /\ lastApplied[n] < commitIndex[n]
          /\ commitIndex[n] <= MaxApplied
          /\ SliceInRange(rlog[n], lastApplied[n] + 1, commitIndex[n])
          /\ applier' = [applier EXCEPT ![n] =
                            [IdleApplier EXCEPT
                                !.pc = "apply",
                                !.entries = Slice(rlog[n], lastApplied[n] + 1,
                                                  commitIndex[n]),
                                !.last = commitIndex[n]]]
          /\ UNCHANGED pendingSnapshot
    /\ UNCHANGED <<unchangedByApplier, rlog, diskSnap, lastApplied, sm, waiters, acked>>

\* StateMachine.Restore ran outside the lock.
ApplierRestore(n) ==
    /\ applier[n].pc = "restore"
    /\ sm' = [sm EXCEPT ![n] = applier[n].snap.data]
    /\ lastApplied' = [lastApplied EXCEPT ![n] = Max({@, applier[n].snap.index})]
    /\ applier' = [applier EXCEPT ![n] = IdleApplier]
    /\ UNCHANGED <<unchangedByApplier, rlog, diskSnap, pendingSnapshot, waiters, acked>>

\* The proposals waiting for an index the applier has just applied ...
Answered(n) ==
    LET a == applier[n]
    IN  {w \in waiters[n] : w[1] \in (a.last - Len(a.entries) + 1)..a.last}

\* Mutant: every waiting proposal is told of success.
AnsweredAll(n) == waiters[n]

\* ... and those of them whose own entry it was.
AnsweredOK(n) ==
    LET a == applier[n]
    IN  {w \in Answered(n) : w[2] = a.entries[w[1] - (a.last - Len(a.entries))]}

NeedSnapshot(n, last) ==
    /\ SnapshotThreshold > 0
    /\ last > rlog[n].snapIndex
    /\ last - rlog[n].snapIndex >= SnapshotThreshold

\* The entries were applied outside the lock; now the waiters are answered.
ApplierFinish(n) ==
    LET a == applier[n]
        applied == Max({lastApplied[n], a.last})
    IN  /\ a.pc = "apply"
        /\ sm' = [sm EXCEPT ![n] = @ \o a.entries]
        /\ lastApplied' = [lastApplied EXCEPT ![n] = applied]
        /\ waiters' = [waiters EXCEPT ![n] = @ \ Answered(n)]
        /\ acked' = acked \cup AnsweredOK(n)
        /\ applier' = [applier EXCEPT ![n] =
                          IF NeedSnapshot(n, applied)
                          THEN [IdleApplier EXCEPT !.pc = "take", !.last = a.last]
                          ELSE IdleApplier]
        /\ UNCHANGED <<unchangedByApplier, rlog, diskSnap, pendingSnapshot>>

\* takeSnapshot serialises the state machine and looks its term up; a snapshot
\* from the leader may have overtaken it.
TakeSnapshot(n) ==
    LET i == applier[n].last
    IN  /\ applier[n].pc = "take"
        /\ applier' = [applier EXCEPT ![n] =
                          IF HasTerm(rlog[n], i)
                          THEN [IdleApplier EXCEPT
                                  !.pc = "save",
                                  !.snap = [index |-> i, term |-> TermAt(rlog[n], i),
                                            data |-> sm[n]]]
                          ELSE IdleApplier]
        /\ UNCHANGED <<unchangedByApplier, rlog, diskSnap, lastApplied, sm,
                       pendingSnapshot, waiters, acked>>

\* Mutant: the log is compacted although the snapshot was not saved.
CompactAnyway(n) == [applier[n] EXCEPT !.pc = "compact"]

AfterSaveError(n) == IdleApplier

\* Storage.SaveSnapshot without the Raft lock; it may fail, and then nothing is
\* compacted.
StoreSnapshot(n) ==
    /\ applier[n].pc = "save"
    /\ \/ /\ SaveSnapshot(n, applier[n].snap)
          /\ applier' = [applier EXCEPT ![n].pc = "compact"]
       \/ /\ applier' = [applier EXCEPT ![n] = AfterSaveError(n)]
          /\ UNCHANGED diskSnap
    /\ UNCHANGED <<unchangedByApplier, rlog, lastApplied, sm, pendingSnapshot,
                   waiters, acked>>

CompactLog(n) ==
    LET snap == applier[n].snap
    IN  /\ applier[n].pc = "compact"
        /\ rlog' = [rlog EXCEPT ![n] = CompactTo(@, snap.index, snap.term)]
        /\ applier' = [applier EXCEPT ![n] = IdleApplier]
        /\ UNCHANGED <<unchangedByApplier, diskSnap, lastApplied, sm, pendingSnapshot,
                       waiters, acked>>

----------------------------------------------------------------------------
(* Linearizable reads: ReadIndex, runReader, confirmLeadership.             *)

unchangedByReader == <<durableVars, roleVars, commitIndex, applyVars, progressVars,
                       proposeVars, transfers, votes, committed, acked>>

\* Leader, and the no-op of its term is committed.
ReadReady(n) == state[n] = "leader" /\ commitIndex[n] >= noopIndex[n]

\* Mutant: the answer to any RPC counts, whenever it was sent.
StampNothing(n, unsent) ==
    {IF m.type \in {"append", "snapshot", "appendReply", "snapshotReply"}
     THEN [m EXCEPT !.fresh = TRUE] ELSE m : m \in msgs}

\* The round begins.  RPCs already answered were sent before it; one still in
\* flight may have been built but not yet sent, because replicateOnce takes its
\* send time after it released the lock.
StampRequests(n, unsent) ==
    {IF m.type \in {"append", "snapshot"} /\ m.from = n
     THEN [m EXCEPT !.fresh = m \in unsent]
     ELSE IF m.type \in {"appendReply", "snapshotReply"} /\ m.to = n
     THEN [m EXCEPT !.fresh = FALSE]
     ELSE m : m \in msgs}

ReadStart(n) ==
    /\ read[n].phase = "idle"
    /\ ReadReady(n)
    /\ spent.reads < MaxReads
    /\ spent' = [spent EXCEPT !.reads = @ + 1]
    /\ read' = [read EXCEPT ![n] = [phase |-> "confirm", term |-> term[n],
                                    index |-> commitIndex[n], acks |-> {}]]
    /\ mustSee' = [mustSee EXCEPT ![n] = Len(committed)]
    /\ \E unsent \in SUBSET {m \in msgs : /\ m.type \in {"append", "snapshot"}
                                          /\ m.from = n /\ m.wait} :
          msgs' = StampRequests(n, unsent)
    /\ UNCHANGED unchangedByReader

\* A majority answered an RPC sent after the read began, in the same term.
ReadConfirmed(n) ==
    /\ read[n].phase = "confirm"
    /\ state[n] = "leader" /\ term[n] = read[n].term
    /\ Majority(read[n].acks \cup {n})
    /\ read' = [read EXCEPT ![n].phase = "wait", ![n].acks = {}]
    /\ UNCHANGED <<unchangedByReader, msgs, spent, mustSee>>

\* waitApplied returns and the caller reads the local state machine.
ReadServed(n) ==
    /\ read[n].phase = "wait"
    /\ lastApplied[n] >= read[n].index
    /\ read' = [read EXCEPT ![n] = NoRead]
    /\ UNCHANGED <<unchangedByReader, msgs, spent, mustSee>>

\* Leadership lost, deadline, or the caller's context expired.
ReadFails(n) ==
    /\ read[n].phase # "idle"
    /\ read' = [read EXCEPT ![n] = NoRead]
    /\ UNCHANGED <<unchangedByReader, msgs, spent, mustSee>>

----------------------------------------------------------------------------
(* Leadership transfer: TransferLeadership.                                 *)

unchangedByTransfer == <<durableVars, roleVars, commitIndex, applyVars, progressVars,
                         waiters, read, historyVars>>

TransferStart(n, p) ==
    /\ state[n] = "leader"
    /\ transferTarget[n] = NoNode
    /\ spent.transfers < MaxTransfers
    /\ spent' = [spent EXCEPT !.transfers = @ + 1]
    /\ transferTarget' = [transferTarget EXCEPT ![n] = p]
    /\ transfers' = [transfers EXCEPT ![n] = @ \cup
                        {[term |-> term[n], target |-> p, sent |-> FALSE]}]
    /\ UNCHANGED <<unchangedByTransfer, msgs>>

\* The target holds every entry: tell it to campaign at once.
TransferSend(n, t) ==
    /\ ~t.sent
    /\ state[n] = "leader" /\ term[n] = t.term
    /\ matchIndex[n][t.target] = LastIndex(rlog[n])
    /\ transfers' = [transfers EXCEPT ![n] = (@ \ {t}) \cup {[t EXCEPT !.sent = TRUE]}]
    /\ msgs' = msgs \cup {[type |-> "timeoutNow", from |-> n, to |-> t.target,
                           term |-> t.term]}
    /\ UNCHANGED <<unchangedByTransfer, transferTarget, spent>>

\* Mutant: an old call reopens the node whatever leadership it was for.
TransferEndAnyTerm(n, t) ==
    /\ transfers' = [transfers EXCEPT ![n] = @ \ {t}]
    /\ transferTarget' = IF state[n] = "leader"
                         THEN [transferTarget EXCEPT ![n] = NoNode]
                         ELSE transferTarget
    /\ UNCHANGED <<unchangedByTransfer, msgs, spent>>

\* The call returns: success, failure or deadline.  Its deferred function
\* reopens the node for writes only if the same leadership still stands.
TransferEnd(n, t) ==
    /\ transfers' = [transfers EXCEPT ![n] = @ \ {t}]
    /\ transferTarget' = IF state[n] = "leader" /\ term[n] = t.term
                         THEN [transferTarget EXCEPT ![n] = NoNode]
                         ELSE transferTarget
    /\ UNCHANGED <<unchangedByTransfer, msgs, spent>>

----------------------------------------------------------------------------
(* Crash and restart: New reloads what Storage holds.                       *)

\* Answers addressed to the crashed process are gone.
SurvivingMsgs(n, M) ==
    {m \in M : ~(m.to = n /\ m.type \in {"newerTerm", "appendReply", "snapshotReply"})}

\* Mutant: the state machine is restored but replay starts from the beginning.
ReplayFromZero(n) == 0

\* Everything inside the snapshot was applied, nothing beyond it is known to be.
ReplayFrom(n) == diskSnap[n].index

Reboot(n) ==
    /\ spent.crashes < MaxCrashes
    /\ spent' = [spent EXCEPT !.crashes = @ + 1]
    /\ rlog' = [rlog EXCEPT ![n] = CompactTo(@, diskSnap[n].index, diskSnap[n].term)]
    /\ sm' = [sm EXCEPT ![n] = diskSnap[n].data]
    /\ commitIndex' = [commitIndex EXCEPT ![n] = diskSnap[n].index]
    /\ lastApplied' = [lastApplied EXCEPT ![n] = ReplayFrom(n)]
    /\ state' = [state EXCEPT ![n] = "follower"]
    /\ leaderID' = [leaderID EXCEPT ![n] = NoNode]
    /\ campaign' = [campaign EXCEPT ![n] = NoCampaign]
    /\ pendingSnapshot' = [pendingSnapshot EXCEPT ![n] = NoSnapshot]
    /\ applier' = [applier EXCEPT ![n] = IdleApplier]
    /\ nextIndex' = [nextIndex EXCEPT ![n] = [p \in Node |-> 1]]
    /\ matchIndex' = [matchIndex EXCEPT ![n] = NoMatch]
    /\ noopIndex' = [noopIndex EXCEPT ![n] = 0]
    /\ transferTarget' = [transferTarget EXCEPT ![n] = NoNode]
    /\ waiters' = [waiters EXCEPT ![n] = {}]
    /\ read' = [read EXCEPT ![n] = NoRead]
    /\ transfers' = [transfers EXCEPT ![n] = {}]
    /\ UNCHANGED <<diskSnap, historyVars>>

Crash(n) ==
    /\ Reboot(n)
    /\ msgs' = SurvivingMsgs(n, msgs)
    /\ UNCHANGED <<term, votedFor>>

\* A handler persists the newer term before it goes on to vote or to append,
\* and the node crashes in between.
CrashInHandler(m) ==
    /\ m.type \in {"vote", "append", "snapshot"}
    /\ m.term > term[m.to]
    /\ AdoptTerm(m.to, m.term)
    /\ Reboot(m.to)
    /\ msgs' = SurvivingMsgs(m.to, msgs \ {m})

----------------------------------------------------------------------------
Deliver(m) ==
    \/ HandleRequestVote(m)
    \/ HandleNewerTerm(m)
    \/ HandleTimeoutNow(m)
    \/ HandleAppendEntries(m)
    \/ HandleAppendReply(m)
    \/ HandleInstallSnapshot(m)
    \/ HandleSnapshotReply(m)
    \/ ReplyTooLate(m)
    \/ CrashInHandler(m)

NodeStep(n) ==
    \/ StartPreVote(n)
    \/ \E p \in Others(n) : AnswerPreVote(n, p)
    \/ PreVoteWon(n)
    \/ ForcedElection(n)
    \/ ElectionWon(n)
    \/ CampaignFails(n)
    \/ CheckQuorumFails(n)
    \/ \E p \in Others(n) : Replicate(n, p)
    \/ Propose(n)
    \/ ApplierTake(n)
    \/ ApplierRestore(n)
    \/ ApplierFinish(n)
    \/ TakeSnapshot(n)
    \/ StoreSnapshot(n)
    \/ CompactLog(n)
    \/ ReadStart(n)
    \/ ReadConfirmed(n)
    \/ ReadServed(n)
    \/ ReadFails(n)
    \/ \E p \in Others(n) : TransferStart(n, p)
    \/ \E t \in transfers[n] : TransferSend(n, t) \/ TransferEnd(n, t)
    \/ Crash(n)

Next == (\E n \in Node : NodeStep(n)) \/ (\E m \in msgs : Deliver(m))

Spec == Init /\ [][Next]_vars

----------------------------------------------------------------------------
Term == Nat
Index == Nat
NodeOrNone == Node \cup {NoNode}
State == {"follower", "candidate", "leader"}

Campaign == [phase : {"idle", "pre", "forced", "vote"}, term : Term,
             lastIndex : Index, lastTerm : Term, granted : SUBSET Node]
Applier == [pc : {"idle", "restore", "apply", "take", "save", "compact"},
            entries : Seq(Term), last : Index, snap : Snapshot]
Read == [phase : {"idle", "confirm", "wait"}, term : Term, index : Index,
         acks : SUBSET Node]
Transfer == [term : Term, target : Node, sent : BOOLEAN]
Budget == [rounds : Nat, sends : Nat, crashes : Nat, timeouts : Nat, reads : Nat,
           transfers : Nat]

VoteMsg ==
    [type : {"vote"}, from : Node, to : Node, term : Term,
     lastIndex : Index, lastTerm : Term]
NewerTermMsg ==
    [type : {"newerTerm"}, from : Node, to : Node, term : Term, reqTerm : Term]
AppendMsg ==
    [type : {"append"}, from : Node, to : Node, term : Term, prev : Index,
     prevTerm : Term, entries : Seq(Term), commit : Index,
     fresh : BOOLEAN, wait : BOOLEAN]
AppendReplyMsg ==
    [type : {"appendReply"}, from : Node, to : Node, term : Term,
     success : BOOLEAN, index : Index, cterm : Term, match : Index, fresh : BOOLEAN]
SnapshotMsg ==
    [type : {"snapshot"}, from : Node, to : Node, term : Term, snap : Snapshot,
     fresh : BOOLEAN, wait : BOOLEAN]
SnapshotReplyMsg ==
    [type : {"snapshotReply"}, from : Node, to : Node, term : Term,
     match : Index, fresh : BOOLEAN]
TimeoutNowMsg ==
    [type : {"timeoutNow"}, from : Node, to : Node, term : Term]

Message == VoteMsg \cup NewerTermMsg \cup AppendMsg \cup AppendReplyMsg \cup SnapshotMsg
             \cup SnapshotReplyMsg \cup TimeoutNowMsg

\* The type invariant: every field holds a value its Go type and its code allow;
\* nextIndex never falls to 0, which replicateOnce relies on (next - 1).
TypeOK ==
    /\ term \in [Node -> Term]
    /\ votedFor \in [Node -> NodeOrNone]
    /\ rlog \in [Node -> Log]
    /\ diskSnap \in [Node -> Snapshot]
    /\ state \in [Node -> State]
    /\ leaderID \in [Node -> NodeOrNone]
    /\ campaign \in [Node -> Campaign]
    /\ commitIndex \in [Node -> Index]
    /\ lastApplied \in [Node -> Index]
    /\ sm \in [Node -> Seq(Term)]
    /\ pendingSnapshot \in [Node -> Snapshot]
    /\ applier \in [Node -> Applier]
    /\ nextIndex \in [Node -> [Node -> Index \ {0}]]
    /\ matchIndex \in [Node -> [Node -> Index]]
    /\ noopIndex \in [Node -> Index]
    /\ transferTarget \in [Node -> NodeOrNone]
    /\ waiters \in [Node -> SUBSET (Index \X Term)]
    /\ read \in [Node -> Read]
    /\ transfers \in [Node -> SUBSET Transfer]
    /\ msgs \subseteq Message
    /\ spent \in Budget
    /\ votes \subseteq Node \X Term \X Node
    /\ acked \subseteq Index \X Term

----------------------------------------------------------------------------
(* Elections                                                                *)

Voters(t, c) == {v \in Node : <<v, t, c>> \in votes}

\* c can lead term t: a majority made its vote for c in t durable.
Elected(t, c) == Majority(Voters(t, c))

\* Two leaders never share a term, at any two moments: whoever leads was voted
\* in by a majority (becomeLeaderLocked runs only in the election it won), and
\* HandleRequestVote and campaign never spend a vote twice, restarts included.
ElectionSafety ==
    /\ \A n \in Node : state[n] = "leader" => Elected(term[n], n)
    /\ \A t \in {v[2] : v \in votes} : \A a, b \in Node :
          Elected(t, a) /\ Elected(t, b) => a = b

\* A leader hint (leaderID, given to clients in NotLeaderError) names a node
\* that won the election of the term the hint was learnt in.
HintNamesAWinner ==
    \A n \in Node : leaderID[n] # NoNode => Elected(term[n], leaderID[n])

\* Every vote ever given stands on disk until its term is over, and nobody voted
\* for two candidates of a term.
VotesStand ==
    /\ \A v \in votes : /\ v[2] <= term[v[1]]
                        /\ v[2] = term[v[1]] => votedFor[v[1]] = v[3]
    /\ \A v, w \in votes : v[1] = w[1] /\ v[2] = w[2] => v[3] = w[3]

\* A candidate counts only votes that stand (collectVotes tallies in one round).
GrantsAreVotes ==
    \A n \in Node : campaign[n].phase = "vote" =>
        \A p \in campaign[n].granted : <<p, campaign[n].term, n>> \in votes

\* Who sends entries or snapshots in a term was elected in it.
RequestsFromLeaders ==
    \A m \in msgs : m.type \in {"append", "snapshot"} => Elected(m.term, m.from)

\* Why elections are safe, as an inductive invariant: the votes behind every
\* tally, every leader, every hint and every request of a leader still stand,
\* whatever campaign, HandleRequestVote and restarts did since.
ElectionInv ==
    /\ VotesStand
    /\ GrantsAreVotes
    /\ RequestsFromLeaders
    /\ \A n \in Node : state[n] = "leader" => Elected(term[n], n)
    /\ HintNamesAWinner

\* What persistLocked made durable never goes back, crashes included: terms do
\* not decrease and a vote is not changed within its term.
VoteIsFinal ==
    [][\A n \in Node :
          /\ term'[n] >= term[n]
          /\ term'[n] = term[n] /\ votedFor[n] # NoNode => votedFor'[n] = votedFor[n]]_vars
=============================================================================
