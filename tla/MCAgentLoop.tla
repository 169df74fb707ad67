----------------------------- MODULE MCAgentLoop -----------------------------
(***************************************************************************)
(* The transcripts AgentLoop is started from: none yet, one that waits for *)
(* an answer after a tool result, and one the model has answered.          *)
(***************************************************************************)
EXTENDS AgentLoop

Asked == <<User("prompt", 0)>>
MCHistories ==
  {<<>>,
   Asked \o <<Assistant("complete", 1), ToolResult(1)>>,
   Asked \o <<Assistant("complete", 0)>>}
=============================================================================
