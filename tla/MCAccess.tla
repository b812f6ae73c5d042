------------------------------ MODULE MCAccess ------------------------------
(***************************************************************************)
(* Access, and with it Admission, for TLC: two devices compete for the     *)
(* nicknames and tokens, and one of them uses the share.                   *)
(***************************************************************************)
EXTENDS Access, TLC

CONSTANTS a, b, x, y
\* A nickname and everyone in the access list; an identity is left to the proof.
MCTok == {x, "all"}
TokenSymmetry == Permutations(Token)
=============================================================================
