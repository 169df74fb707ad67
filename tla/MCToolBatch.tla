----------------------------- MODULE MCToolBatch -----------------------------
(***************************************************************************)
(* Bounds for checking ToolBatch: three calls, so that a call can be       *)
(* cancelled with finished and unstarted neighbours on both sides, and two *)
(* permits, so that one spawned task has to wait for another.              *)
(***************************************************************************)
EXTENDS ToolBatch

MCNumCalls == 3
MCPermits == 2
=============================================================================
