------------------------------- MODULE MCRaft -------------------------------
(* Raft on small groups.  An instance may start in several ways: each start *)
(* is a reachable state, with a part of the budgets spent.                  *)
EXTENDS RaftRefinement, TLC

\* Nodes are interchangeable: nothing in the code orders or compares them.
NodeSymmetry == Permutations(Node)

----------------------------------------------------------------------------
(* Replication, also in a group with a past.                                *)

LogOf(terms) == AppendTo(EmptyLog, terms)

\* Two leaderships ended without a commitment, then the whole group restarted:
\* a led term 1 with the votes of a and c, appended two entries and replicated
\* the first one to b; b led term 2 with the votes of b and c and appended one; a
\* heard of that term from c. Now b lacks what a holds of term 1, a lacks term 2,
\* and either may be elected by c.
AfterTwoLeaders ==
    \E a, b, c \in Node :
        /\ Cardinality({a, b, c}) = 3
        /\ term = [n \in Node |-> 2]
        /\ votedFor = (a :> NoNode @@ b :> b @@ c :> b)
        /\ rlog = (a :> LogOf(<<1, 1>>) @@ b :> LogOf(<<1, 2>>) @@ c :> EmptyLog)
        /\ diskSnap = [n \in Node |-> NoSnapshot]
        /\ votes = {<<a, 1, a>>, <<c, 1, a>>, <<b, 2, b>>, <<c, 2, b>>}
        /\ committed = <<>>

ReplicationInit ==
    /\ Booted
    /\ \/ NothingStored /\ spent = [NothingSpent EXCEPT !.sends = 1]
       \/ AfterTwoLeaders /\ spent = [NothingSpent EXCEPT !.rounds = 1]

ReplicationSpec == ReplicationInit /\ [][Next]_vars

----------------------------------------------------------------------------
(* Budgets that trade one kind of step for another.                         *)

\* Two elections and a crash with few requests; or one election and requests
\* enough to send a snapshot to a follower whose applier is at work.
ApplyInit ==
    /\ NothingStored /\ Booted
    /\ \/ spent = [NothingSpent EXCEPT !.sends = 2]
       \/ spent = [NothingSpent EXCEPT !.rounds = 1, !.crashes = 1]

ApplySpec == ApplyInit /\ [][Next]_vars

\* A read, whose leader a transfer may depose; or a node that leads twice and
\* begins a transfer each time, which takes elections and no requests.
ReadInit ==
    /\ NothingStored /\ Booted
    /\ \/ spent = [NothingSpent EXCEPT !.rounds = 1, !.timeouts = 1, !.transfers = 1]
       \/ spent = [NothingSpent EXCEPT !.sends = 3, !.reads = 1]

ReadSpec == ReadInit /\ [][Next]_vars
=============================================================================
