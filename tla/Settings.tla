-------------------------------- MODULE Settings --------------------------------
(***************************************************************************)
(* The settings of the two layers, global and project, and the commands    *)
(* that write them: SettingsManager (crates/rozsa-app/src/settings), the   *)
(* GUI's commands (crates/rozsa-gui/src/commands.rs) and the trust that    *)
(* the permission controller records.                                      *)
(*                                                                         *)
(* Two settings stand for those that live in the runtime settings and are  *)
(* saved as a whole ("plain", and "flow" for dev-flow's, which only the    *)
(* global file may give); "tool" for the capability overrides, "allow" for *)
(* the permission rules, "extra" for what this version does not know.      *)
(* A file gives a setting a set of at most one value.  A read of a file, a *)
(* write and a change of what is in memory are steps; none waits for       *)
(* another command's.                                                      *)
(***************************************************************************)
EXTENDS Absent, Integers, FiniteSets

CONSTANTS
  Commands,     \* what may be under way at a time
  Values,       \* values of a plain setting
  Default,      \* the one without a file
  Rules,        \* permission rules
  DefaultRules,
  Projects,     \* what the project's file may begin with
  MaxCommands   \* bound on commands and restarts

AtMostOne(S) == {{}} \cup {{x} : x \in S}
Layers == [plain : AtMostOne(Values), flow : AtMostOne(Values), tool : AtMostOne(BOOLEAN),
           allow : AtMostOne(SUBSET Rules), extra : BOOLEAN]

ASSUME SettingsAssumption ==
  /\ Default \in Values /\ DefaultRules \subseteq Rules /\ MaxCommands \in Nat
  /\ None \notin Values /\ Projects \subseteq {layer \in Layers : layer.extra}

VARIABLES
  files,      \* the layer of each scope
  runtime,    \* runtime_settings
  controller, \* the rules by which the permission controller allows
  commands,
  ran,        \* commands and restarts so far
  picked,     \* history: what the user chose, setting by setting
  unsettled,  \* history: a trust since the rules were last read
  raced       \* history: a command wrote over what another had changed meanwhile

settingsVars == <<files, runtime, controller, commands, ran, picked, unsettled, raced>>

Scopes == {"global", "project"}
NoLayer == [plain |-> {}, flow |-> {}, tool |-> {}, allow |-> {}, extra |-> TRUE]

(***************************************************************************)
(* load and merge_settings: the project's value, or the global one, or the *)
(* default; a list of rules replaces the one below it.                     *)
(***************************************************************************)
First(over, under, default) ==
  CHOOSE x \in over \cup under \cup {default} :
    /\ over # {} => x \in over
    /\ over = {} /\ under # {} => x \in under
    /\ over = {} /\ under = {} => x = default

Merged(layers) ==
  LET global == layers["global"]
      project == layers["project"]
  IN [plain |-> First(project.plain, global.plain, Default),
      flow |-> First({}, global.flow, Default),
      tool |-> First(project.tool, global.tool, TRUE),
      allow |-> First(project.allow, global.allow, DefaultRules)]

Ready ==
  [step |-> "idle", kind |-> None, scope |-> "global", value |-> NoLayer, copy |-> NoLayer,
   saved |-> Merged([s \in Scopes |-> NoLayer])]

SettingsInit ==
  /\ \E project \in Projects :
       files = [s \in Scopes |-> IF s = "global" THEN NoLayer ELSE project]
  /\ runtime = Merged(files) /\ controller = runtime.allow
  /\ commands = [c \in Commands |-> Ready] /\ ran = 0
  /\ picked = [plain |-> {}, flow |-> {}, tool |-> [s \in Scopes |-> files[s].tool],
               rules |-> [s \in Scopes |-> files[s].allow], trusted |-> {}]
  /\ unsettled = FALSE /\ raced = FALSE

Idling(c) == commands[c].step = "idle"
Starts(c, command) ==
  /\ Idling(c) /\ ran < MaxCommands /\ ran' = ran + 1
  /\ commands' = [commands EXCEPT ![c] = command]
Goes(c, step) ==
  commands' = [commands EXCEPT ![c] = IF step = "idle" THEN Ready ELSE [@ EXCEPT !.step = step]]
-----------------------------------------------------------------------------
\* switch_model and the other commands that choose a value: the runtime
\* settings change first, and are then saved.
Choose(c, key, v) ==
  /\ Starts(c, [Ready EXCEPT !.step = "serialize", !.kind = "choose"])
  /\ runtime' = [runtime EXCEPT ![key] = v]
  /\ picked' = [picked EXCEPT ![key] = {v}]
  /\ UNCHANGED <<files, controller, unsettled, raced>>

UpdateSetting(c) == \E v \in Values : Choose(c, "plain", v)

\* set_dev_flow_enabled, _sidebar_status, _dashboard_button, _executable_path.
SetDevFlow(c) == \E v \in Values : Choose(c, "flow", v)

\* persist_settings takes a copy of the runtime settings under their lock.
Serialize(c) ==
  /\ commands[c].step = "serialize"
  /\ commands' = [commands EXCEPT ![c].step = "read", ![c].saved = runtime]
  /\ UNCHANGED <<files, runtime, controller, ran, picked, unsettled, raced>>

\* update_capability_setting.
SetTool(c, scope, value) ==
  /\ Starts(c, [Ready EXCEPT !.step = "read", !.kind = "tool", !.scope = scope,
                             !.value = [NoLayer EXCEPT !.tool = value]])
  /\ UNCHANGED <<files, runtime, controller, picked, unsettled, raced>>

\* update_permission_rules and update_permission_rule_set.
SetRules(c, scope, value) ==
  /\ Starts(c, [Ready EXCEPT !.step = "read", !.kind = "rules", !.scope = scope,
                             !.value = [NoLayer EXCEPT !.allow = value]])
  /\ UNCHANGED <<files, runtime, controller, picked, unsettled, raced>>

TrustScope == "project"

\* record_project_approval.
Trust(c, rule) ==
  /\ Starts(c, [Ready EXCEPT !.step = "read", !.kind = "trust", !.scope = TrustScope,
                             !.value = [NoLayer EXCEPT !.allow = {{rule}}]])
  /\ controller' = controller \cup {rule}
  /\ UNCHANGED <<files, runtime, picked, unsettled, raced>>

\* read_json_object_or_empty.
Reads(c) ==
  /\ commands[c].step = "read"
  /\ commands' = [commands EXCEPT ![c].step = "write", ![c].copy = files[commands[c].scope]]
  /\ UNCHANGED <<files, runtime, controller, ran, picked, unsettled, raced>>

\* Faulty variant: the capability overrides are not left out.
WithTools(copy, saved) ==
  [copy EXCEPT !.plain = {saved.plain}, !.flow = {saved.flow}, !.allow = {saved.allow},
               !.tool = {saved.tool}]

\* persist_settings: every key of the runtime settings, but for the
\* capability overrides, over what the file holds.
Saved(copy, saved) ==
  [copy EXCEPT !.plain = {saved.plain}, !.flow = {saved.flow}, !.allow = {saved.allow}]

Override(value) == value

\* The layer that a command writes.
NewLayer(command) ==
  LET copy == command.copy
  IN CASE command.kind = "choose" -> Saved(copy, command.saved)
       [] command.kind = "tool" -> [copy EXCEPT !.tool = Override(command.value.tool)]
       [] command.kind = "rules" -> [copy EXCEPT !.allow = command.value.allow]
       [] OTHER -> [copy EXCEPT !.allow = {UNION (@ \cup command.value.allow)}]

\* The write undoes another command's work, or the other has undone its own.
Races(command) ==
  \/ files[command.scope] # command.copy
  \/ command.kind = "choose" /\ command.saved # runtime
  \/ command.kind = "trust" /\ ~(UNION command.value.allow \subseteq controller)

ChosenBy(command) ==
  CASE command.kind = "tool" -> [picked EXCEPT !.tool[command.scope] = command.value.tool]
    [] command.kind = "rules" ->
         [picked EXCEPT !.rules[command.scope] = command.value.allow,
                        !.trusted = IF command.scope = "project" THEN {} ELSE @]
    [] command.kind = "trust" -> [picked EXCEPT !.trusted = @ \cup UNION command.value.allow]
    [] OTHER -> picked

WritesLayer(c) ==
  LET command == commands[c]
  IN /\ command.step = "write"
     /\ files' = [files EXCEPT ![command.scope] = NewLayer(command)]
     /\ raced' = (raced \/ Races(command)) /\ picked' = ChosenBy(command)
     /\ unsettled' = (unsettled \/ command.kind = "trust")
     /\ Goes(c, IF command.kind = "rules" THEN "apply" ELSE "idle")
     /\ UNCHANGED <<runtime, controller, ran>>

Applied(rules) == rules

\* reload and apply_resolved_permissions.
Applies(c) ==
  /\ commands[c].step = "apply"
  /\ controller' = Applied(Merged(files).allow) /\ unsettled' = FALSE
  /\ runtime' = [runtime EXCEPT !.allow = Merged(files).allow]
  /\ Goes(c, "idle")
  /\ UNCHANGED <<files, ran, picked, raced>>

RestartsApp ==
  /\ ran < MaxCommands /\ ran' = ran + 1
  /\ \A c \in Commands : Idling(c)
  /\ runtime' = Merged(files) /\ controller' = Merged(files).allow /\ unsettled' = FALSE
  /\ UNCHANGED <<files, commands, picked, raced>>

SettingsStep(c) ==
  \/ UpdateSetting(c) \/ SetDevFlow(c)
  \/ \E scope \in Scopes :
       \/ \E value \in AtMostOne(BOOLEAN) : SetTool(c, scope, value)
       \/ \E value \in AtMostOne(SUBSET Rules) : SetRules(c, scope, value)
  \/ \E rule \in Rules : Trust(c, rule)
  \/ Serialize(c) \/ Reads(c) \/ WritesLayer(c) \/ Applies(c)

SettingsNext == (\E c \in Commands : SettingsStep(c)) \/ RestartsApp

SettingsSpec == SettingsInit /\ [][SettingsNext]_settingsVars
-----------------------------------------------------------------------------
\* A layer gives a setting at most one value, and the runtime settings give every setting one
\* (SettingsManager).
SettingsTypeOK ==
  /\ files \in [Scopes -> Layers]
  /\ runtime \in [plain : Values, flow : Values, tool : BOOLEAN, allow : SUBSET Rules]
  /\ controller \subseteq Rules
  /\ \A c \in Commands :
       /\ commands[c].step \in {"idle", "serialize", "read", "write", "apply"}
       /\ commands[c].kind \in {None, "choose", "tool", "rules", "trust"}
       /\ commands[c].scope \in Scopes /\ {commands[c].copy, commands[c].value} \subseteq Layers
  /\ ran \in 0..MaxCommands /\ {unsettled, raced} \subseteq BOOLEAN

Quiet == ~raced /\ \A c \in Commands : Idling(c)

\* Every choice is on file once its command is done, whatever commands came
\* after it: a plain setting in the global layer, where the project has none,
\* dev-flow's there in any case, a capability in the layer it was made for
\* ("excluding them here prevents project values from leaking into the global
\* layer", persist_settings).
ChosenIsKept ==
  Quiet =>
    /\ \A key \in {"plain", "flow"} :
         picked[key] # {} /\ (key = "plain" => files["project"].plain = {}) =>
           files["global"][key] = picked[key]
    /\ \A s \in Scopes : files[s].tool = picked.tool[s]

\* "Preserving every unrelated settings key in the file"
\* (set_capability_override), and so do the other writers.
UnknownKeysSurvive == \A s \in Scopes : files[s].extra

\* A rule that the user has trusted is allowed after a restart, until the
\* user sets the project's rules.
TrustIsKept == Quiet => picked.trusted \subseteq Merged(files).allow

\* The controller allows what the files say: all of it, and no more than
\* that since the rules were last read, but for a trust.
ControllerFollowsTheFiles ==
  Quiet => /\ Merged(files).allow \subseteq controller
           /\ unsettled \/ controller = Merged(files).allow

(***************************************************************************)
(* Between the commands of the GUI, where none raced with another, the     *)
(* settings are what was chosen: on file, merged, and in the permission    *)
(* controller of the session at work, with the keys this version does not  *)
(* know left alone.                                                        *)
(***************************************************************************)
SettingsInvariant ==
  /\ SettingsTypeOK
  /\ ChosenIsKept
  /\ UnknownKeysSurvive
  /\ TrustIsKept
  /\ ControllerFollowsTheFiles

\* "Global permission rules are manual-only" (add_project_permission_allow),
\* they "can only be edited manually" (docs/gui/UI_USAGE_GUIDELINES.md): the
\* global file has no rule but the defaults and what the user put there.
GlobalRulesAreManual ==
  Quiet => \A S \in files["global"].allow :
             S \subseteq DefaultRules \cup UNION picked.rules["global"]
=============================================================================
