------------------------------- MODULE MCDag -------------------------------
(***************************************************************************)
(* Dag for TLC: three names, one of them in two spellings, and a spelling  *)
(* that is all white space.                                                *)
(***************************************************************************)
EXTENDS Dag, TLC

CONSTANTS a, b, c, a_padded, spaces

MCStrip == (a :> a) @@ (b :> b) @@ (c :> c) @@ (a_padded :> a) @@ (spaces :> Blank)
=============================================================================
