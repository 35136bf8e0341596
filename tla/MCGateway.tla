------------------------------ MODULE MCGateway ------------------------------
(***************************************************************************)
(* The instance of Gateway that TLC checks.                                *)
(***************************************************************************)
EXTENDS Gateway, TLC

Symmetry == Permutations(Requests)
=============================================================================
