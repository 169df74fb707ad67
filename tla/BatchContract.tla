---------------------------- MODULE BatchContract ----------------------------
(***************************************************************************)
(* What execute_tool_batch of crates/rozsa-core/src/agent_loop.rs promises *)
(* to run_loop: the caller hands over NumCalls tool calls and, whatever    *)
(* the tools, the hooks and the cancellation do in between, gets back one  *)
(* result per call of a prefix of the batch, in source order.  The prefix  *)
(* is proper only if the run has been cancelled, and only a batch that     *)
(* answered something may ask the loop to stop.                            *)
(*                                                                         *)
(* The module is the abstract specification that ToolBatch refines, and    *)
(* AgentLoop takes a batch to be its one step, by the same Answers.        *)
(***************************************************************************)
EXTENDS Naturals, Sequences, BatchAnswers

CONSTANT NumCalls    \* how many tool calls the assistant message carries

VARIABLES phase,     \* "running" until the batch returns or its task panics
          signalled, \* the run's CancellationToken
          answered,  \* the calls of the returned results, in the order returned
          stops      \* ToolBatchResult.terminate

contractVars == <<phase, signalled, answered, stops>>

ContractInit ==
  /\ phase = "running"
  /\ signalled \in BOOLEAN
  /\ answered = <<>>
  /\ stops = FALSE

Signal ==
  /\ signalled' = TRUE
  /\ UNCHANGED <<phase, answered, stops>>

ReturnBatch ==
  /\ phase = "running"
  /\ phase' = "returned"
  /\ answered' \in Answers(NumCalls, signalled)
  /\ stops' \in BOOLEAN
  /\ stops' => answered' # <<>>
  /\ UNCHANGED signalled

\* A tool awaited inline takes the whole run down when it panics.
LoseBatch ==
  /\ phase = "running"
  /\ phase' = "crashed"
  /\ UNCHANGED <<signalled, answered, stops>>

ContractNext == Signal \/ ReturnBatch \/ LoseBatch

ContractSpec == ContractInit /\ [][ContractNext]_contractVars
=============================================================================
