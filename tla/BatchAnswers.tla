----------------------------- MODULE BatchAnswers -----------------------------
(***************************************************************************)
(* The sequences of calls a batch of n tool calls may answer: all of them  *)
(* in source order, or, if the run has been cancelled, the first few.      *)
(***************************************************************************)
EXTENDS Naturals

Answers(n, isCancelled) ==
  {[c \in 1..k |-> c] : k \in IF isCancelled THEN 0..n ELSE {n}}
=============================================================================
