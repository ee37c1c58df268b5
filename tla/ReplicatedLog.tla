---------------------------- MODULE ReplicatedLog ----------------------------
(***************************************************************************)
(* What a Raft group promises to the state machines and the clients above  *)
(* it (internal/raft: StateMachine, Propose): one sequence of commands     *)
(* that only grows, state machines that move along it, and answers that    *)
(* are never taken back.  No nodes that lead, no messages, no terms.       *)
(***************************************************************************)
EXTENDS Integers, Sequences, SequencesExt

CONSTANTS Node, Command

VARIABLES
    committed,  \* the commands every state machine executes, in order
    sm,         \* sm[n]: the commands the state machine of n has executed
    acked       \* <<index, command>> of the proposals answered with success

vars == <<committed, sm, acked>>

Init ==
    /\ committed = <<>>
    /\ sm = [n \in Node |-> <<>>]
    /\ acked = {}

Commit ==
    /\ IsPrefix(committed, committed')
    /\ committed' \in Seq(Command)
    /\ UNCHANGED <<sm, acked>>

\* A state machine catches up, command by command or by a snapshot; only the
\* proposals it has just executed are answered.
Apply(n) ==
    /\ IsPrefix(sm[n], sm'[n]) /\ IsPrefix(sm'[n], committed)
    /\ sm' = [sm EXCEPT ![n] = sm'[n]]
    /\ acked \subseteq acked'
    /\ \A w \in acked' \ acked :
          w[1] \in (Len(sm[n]) + 1)..Len(sm'[n]) /\ w = <<w[1], committed[w[1]]>>
    /\ UNCHANGED committed

\* A restart resumes from an earlier point of the same sequence.
Restart(n) ==
    /\ IsPrefix(sm'[n], sm[n])
    /\ sm' = [sm EXCEPT ![n] = sm'[n]]
    /\ UNCHANGED <<committed, acked>>

Next == Commit \/ \E n \in Node : Apply(n) \/ Restart(n)

Spec == Init /\ [][Next]_vars

\* Every state machine is at some point of the one sequence, and an answered
\* proposal is the command at its index, now and from then on.
Agreement ==
    /\ \A n \in Node : IsPrefix(sm[n], committed)
    /\ \A w \in acked : w[1] \in DOMAIN committed /\ committed[w[1]] = w[2]
=============================================================================
