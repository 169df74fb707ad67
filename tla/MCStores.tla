------------------------------ MODULE MCStores ------------------------------
(***************************************************************************)
(* What the program keeps outside the sessions: auth.json, the model       *)
(* configuration with its private environment, and the settings of a user  *)
(* and of a project.  They share no state, so that one of them moves and   *)
(* the others stay as they were.  Tokens and keys are interchangeable: the *)
(* first ones are given to the first places.                               *)
(***************************************************************************)
EXTENDS Stores, TLC
CONSTANTS x, y, codex, claude

VARIABLE store \* the one that moves

MCCallers == {x, y}
MCSymmetry == Permutations(MCCallers)
MCProviders == {codex, claude}
MCStandard == [e \in Efforts |-> IF e = "low" THEN <<"low", "light">> ELSE <<"high">>]
MCMaps == {Unset, [Unset EXCEPT !["low"] = Word("light")], [Unset EXCEPT !["high"] = Word("low")]}
MCProjects ==
  {NoLayer, [NoLayer EXCEPT !.plain = {"new"}, !.tool = {FALSE}, !.allow = {{"mine"}}],
   [NoLayer EXCEPT !.tool = {TRUE}, !.flow = {"new"}]}

MCInit ==
  /\ store \in {"credentials", "models", "settings"}
  /\ CredInit /\ ConfigInit /\ SettingsInit
  /\ store # "credentials" => authFile = "missing"
  /\ auth[codex] # None => auth[codex].access = 1
  /\ auth[claude] # None => auth[claude].access = 2
  /\ keys[Home] = "k1"
  /\ store # "models" => efforts = Unset /\ accepts = {}
  /\ store # "settings" => files["project"] = NoLayer
MCNext ==
  \/ store = "credentials" /\ CredNext /\ UNCHANGED <<configVars, settingsVars, store>>
  \/ store = "models" /\ ConfigNext /\ UNCHANGED <<credVars, settingsVars, store>>
  \/ store = "settings" /\ SettingsNext /\ UNCHANGED <<credVars, configVars, store>>
MCSpec == MCInit /\ [][MCNext]_<<credVars, configVars, settingsVars, store>>
=============================================================================
