----------------------------- MODULE MCSession ------------------------------
(***************************************************************************)
(* AgentSession for TLC.                                                   *)
(***************************************************************************)
EXTENDS AgentSession, TLC
=============================================================================
