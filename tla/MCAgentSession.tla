---------------------------- MODULE MCAgentSession ----------------------------
(***************************************************************************)
(* Every entry weighs one.                                                 *)
(***************************************************************************)
EXTENDS AgentSession

MCWeight(e) == 1
=============================================================================
