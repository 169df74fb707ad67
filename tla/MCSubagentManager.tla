-------------------------- MODULE MCSubagentManager --------------------------
(***************************************************************************)
(* Bounds for checking SubagentManager.  Three prompts to one subagent let *)
(* it be prompted while its last run ends, and once more while the run it  *)
(* was then given goes on.                                                 *)
(***************************************************************************)
EXTENDS SubagentManager

OneSubagent == 1
ThreePrompts == 3
MCMaxReplies == 1
MCMaxActive == 1
=============================================================================
