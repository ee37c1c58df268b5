--------------------------- MODULE RaftRefinement ---------------------------
(***************************************************************************)
(* A Raft group implements the replicated log: the history of what was     *)
(* committed, the state machines and the answers given to clients are the  *)
(* variables of the abstract specification, under the same names.          *)
(***************************************************************************)
EXTENDS RaftSafety

\* The group implements one replicated sequence of commands: commitments are
\* never revised, state machines move along them, answers are never taken back.
Abstract == INSTANCE ReplicatedLog WITH Command <- Nat
ImplementsReplicatedLog == Abstract!Spec
=============================================================================
