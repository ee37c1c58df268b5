----------------------------- MODULE MCGateway -----------------------------
(***************************************************************************)
(* The instance of Gateway that TLC checks: the library's write is a CAS   *)
(* that fits once the plain client's unconditional write is in.            *)
(***************************************************************************)
EXTENDS Gateway

MCExpected == [c \in Write |-> IF c \in Call THEN 1 ELSE Any]
=============================================================================
