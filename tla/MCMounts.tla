----------------------------- MODULE MCMounts -------------------------------
(***************************************************************************)
(* AgentMounts for TLC.                                                    *)
(***************************************************************************)
EXTENDS AgentMounts, TLC
=============================================================================
