------------------------------ MODULE MCAccess ------------------------------
(***************************************************************************)
(* Access for TLC: requests are interchangeable.                           *)
(***************************************************************************)
EXTENDS Access, TLC

Symmetry == Permutations(Requests)
=============================================================================
