--------------------------------- MODULE Stores ---------------------------------
(***************************************************************************)
(* What the program keeps outside of the sessions, together: auth.json,    *)
(* the model configuration with its private environment, and the settings  *)
(* of a user and of a project.  They share no state.                       *)
(***************************************************************************)
EXTENDS Credentials, ModelConfig, Settings

(***************************************************************************)
(* A writer keeps what is not its own: a write of one provider's credential *)
(* the other providers', unless it was behind; the private environment the *)
(* values that are there; and what was learned of one effort the others.   *)
(***************************************************************************)
WritersKeepTheRest ==
  /\ OnlyStaleWritersLose
  /\ ValuesAreOnlyAdded
  /\ LearningKeepsTheRest
=============================================================================
