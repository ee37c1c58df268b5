----------------------------- MODULE MCKVStore -----------------------------
(* Model-checking instance of KVStore.                                      *)
EXTENDS KVStore, TLC

\* Replicas, keys and request IDs are interchangeable.
Symmetry == Permutations(Replica) \cup Permutations(Key) \cup Permutations(RequestId)
=============================================================================
