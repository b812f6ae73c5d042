----------------------------- MODULE MCPairing ------------------------------
(***************************************************************************)
(* Pairing for TLC.  Handlers are interchangeable.                         *)
(***************************************************************************)
EXTENDS Pairing, TLC

Symmetry == Permutations(Handler)
=============================================================================
