------------------------------- MODULE MCHub --------------------------------
(***************************************************************************)
(* HubProcess for TLC.                                                     *)
(***************************************************************************)
EXTENDS HubProcess, TLC
=============================================================================
