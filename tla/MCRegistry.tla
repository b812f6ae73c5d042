----------------------------- MODULE MCRegistry -----------------------------
(***************************************************************************)
(* Registry for TLC.  Handlers are interchangeable.                        *)
(***************************************************************************)
EXTENDS Registry, TLC

HandlerSymmetry == Permutations(Handler)
=============================================================================
