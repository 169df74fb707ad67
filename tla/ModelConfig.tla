------------------------------ MODULE ModelConfig ------------------------------
(***************************************************************************)
(* The model configuration files and what the program itself writes into   *)
(* them (crates/rozsa-app/src/model_registry/mod.rs): a literal API key is *)
(* moved to the private environment file (credentials.rs), and the wording *)
(* of a thinking effort that a provider took or refused is kept            *)
(* (model_stream_with_thinking_effort_fallback, agent_session.rs).         *)
(*                                                                         *)
(* A file configures one provider; Home's has the model that is asked.     *)
(* The files are written to a temporary one that is renamed over them; the *)
(* steps of a thread are what other threads, and a crash, can come         *)
(* between.  The user edits no file while the program rewrites it.         *)
(***************************************************************************)
EXTENDS Absent, Integers, Selection

CONSTANTS
  Threads,
  Files,       \* the configuration files of the global directory
  Home,        \* the one with the model
  Keys,        \* API keys
  Efforts,     \* thinking efforts above Off
  Wordings,    \* what a provider may be sent for one
  Standard,    \* the wordings the program tries, by effort
  Alternates,  \* the efforts whose other wordings are tried after a configured one
  Configured,  \* the maps that a file may begin with
  Acceptances, \* the sets of wordings that a provider may take
  MaxEvents    \* bound on edits by hand, failures and crashes together

\* A map says nothing of an effort, disables it or gives its wording.
Free == [is |-> "free", word |-> None]
Disabled == [is |-> "disabled", word |-> None]
Word(w) == [is |-> "word", word |-> w]

\* No file begins with an effort disabled by hand: what is disabled later was by the program.
ASSUME ConfigAssumption ==
  /\ Home \in Files /\ None \notin Keys \cup Wordings \cup Files /\ MaxEvents \in Nat
  /\ Standard \in [Efforts -> Seq(Wordings) \ {<<>>}] /\ Alternates \subseteq Efforts
  /\ UNION Acceptances \subseteq Wordings
  /\ Configured \subseteq [Efforts -> {Free} \cup {Word(w) : w \in Wordings}]

VARIABLES
  keys,     \* the API key in each file: a literal, or None for a reference
  efforts,  \* the model's thinking effort map in Home's file
  env,      \* the private environment file: whole, and its values by file
  envTemp,  \* its temporary file
  threads,
  known,    \* the map as the process loaded it
  learned,  \* what it has learned since
  accepts,  \* the provider: the wordings it takes
  events,
  chosen    \* history: the key that the user put last into each file

configVars == <<keys, efforts, env, envTemp, threads, known, learned, accepts, events, chosen>>

Unset == [e \in Efforts |-> Free]

Resting ==
  [step |-> "idle", file |-> Home, key |-> None, map |-> Unset, effort |-> None,
   tries |-> <<>>, learn |-> Free, values |-> [f \in Files |-> None]]

ConfigInit ==
  /\ \E key \in Keys : keys = [f \in Files |-> key]
  /\ efforts \in Configured /\ known = efforts /\ learned = Unset
  /\ env = [whole |-> TRUE, values |-> [f \in Files |-> None]] /\ envTemp = env
  /\ threads = [t \in Threads |-> Resting]
  /\ accepts \in Acceptances /\ events = 0 /\ chosen = keys

Event == events < MaxEvents /\ events' = events + 1
Turns(t, thread) == threads' = [threads EXCEPT ![t] = thread]
Rests(t) == Turns(t, Resting)
At(t, step) == threads[t].step = step
NobodyAt(steps) == \A t \in Threads : threads[t].step \notin steps
-----------------------------------------------------------------------------
(***************************************************************************)
(* apply_models_config_file and migrate_plaintext_api_keys: the file is    *)
(* read, its literal key goes into the environment file, under the         *)
(* process's mutex, and the file is written back with a reference.         *)
(***************************************************************************)
Load(t, f) ==
  /\ threads[t].step \in {"idle", "load"} /\ keys[f] # None
  /\ Turns(t, [threads[t] EXCEPT !.step = "env", !.file = f, !.key = keys[f], !.map = efforts])
  /\ UNCHANGED <<keys, efforts, env, envTemp, known, learned, accepts, events, chosen>>

MutexFree == NobodyAt({"empty", "fill", "replace"})

IsThere(value, key) == value = key

\* ensure_private_env_value_at: another value is an error, and the file then
\* stays as it is; a file that cannot be parsed is one too.
EnvReads(t) ==
  LET thread == threads[t]
      value == env.values[thread.file]
  IN /\ At(t, "env") /\ MutexFree
     /\ CASE ~env.whole -> Rests(t)
          [] env.whole /\ IsThere(value, thread.key) -> Turns(t, [thread EXCEPT !.step = "lock"])
          [] env.whole /\ ~IsThere(value, thread.key) /\ value # None -> Rests(t)
          [] OTHER ->
               Turns(t, [thread EXCEPT !.step = "empty",
                           !.values = [env.values EXCEPT ![thread.file] = thread.key]])
     /\ UNCHANGED <<keys, efforts, env, envTemp, known, learned, accepts, events, chosen>>

\* Faulty variant: the file itself is emptied and written.
InPlace(content) == env' = content /\ envTemp' = content

ToTemporary(content) == envTemp' = content /\ UNCHANGED env

\* write_private_env_atomically.
EnvWrites(t) ==
  LET thread == threads[t]
  IN /\ \/ /\ At(t, "empty")
           /\ ToTemporary([whole |-> FALSE, values |-> env.values])
           /\ Turns(t, [thread EXCEPT !.step = "fill"])
        \/ /\ At(t, "fill")
           /\ ToTemporary([whole |-> TRUE, values |-> thread.values])
           /\ Turns(t, [thread EXCEPT !.step = "replace"])
        \/ /\ At(t, "replace")
           /\ env' = envTemp /\ UNCHANGED envTemp
           /\ Turns(t, [thread EXCEPT !.step = "lock"])
     /\ UNCHANGED <<keys, efforts, known, learned, accepts, events, chosen>>

ConfigLockFree == NobodyAt({"write", "store"})

\* write_models_config_atomically: the lock is taken after the file was read,
\* and the whole document goes back.  A load for a learned effort goes on.
WritesBack(t) ==
  LET thread == threads[t]
  IN /\ \/ /\ At(t, "lock") /\ ConfigLockFree
           /\ Turns(t, [thread EXCEPT !.step = "write"]) /\ UNCHANGED <<keys, efforts>>
        \/ /\ At(t, "write")
           /\ keys' = [keys EXCEPT ![thread.file] = None]
           /\ efforts' = IF thread.file = Home THEN thread.map ELSE efforts
           /\ Turns(t, IF thread.effort = None THEN Resting
                       ELSE [thread EXCEPT !.step = "load", !.key = None])
     /\ UNCHANGED <<env, envTemp, known, learned, accepts, events, chosen>>
-----------------------------------------------------------------------------
\* thinking_effort_attempt_values.
Attempts(map, e) ==
  CASE map[e] = Disabled -> <<>>
    [] map[e] = Free -> Standard[e]
    [] OTHER ->
         IF e \in Alternates
           THEN <<map[e].word>> \o Kept(Standard[e], Wordings \ {map[e].word})
           ELSE <<map[e].word>>

Effective == [e \in Efforts |-> IF learned[e] # Free THEN learned[e] ELSE known[e]]

\* A request with an effort; one that is disabled fails at once.
Ask(t, e) ==
  /\ At(t, "idle") /\ Attempts(Effective, e) # <<>>
  /\ Turns(t, [Resting EXCEPT !.step = "ask", !.effort = e, !.tries = Attempts(Effective, e)])
  /\ UNCHANGED <<keys, efforts, env, envTemp, known, learned, accepts, events, chosen>>

\* remember_thinking_effort, and then the load that persist_thinking_effort starts with.
Learns(t, what) ==
  /\ learned' = [learned EXCEPT ![threads[t].effort] = what]
  /\ Turns(t, [threads[t] EXCEPT !.step = "load", !.tries = <<>>, !.learn = what])

Accepted(t) ==
  /\ At(t, "ask") /\ Head(threads[t].tries) \in accepts
  /\ Learns(t, Word(Head(threads[t].tries)))
  /\ UNCHANGED <<keys, efforts, env, envTemp, known, accepts, events, chosen>>

\* Faulty variant: any error is taken for a refusal of the effort.
AnyError(refused) == TRUE

\* is_explicit_unsupported_thinking_effort, and nothing of an answer came before.
SaysUnsupported(refused) == refused

MoreToTry(tries) == Len(tries) > 1

\* The attempt ends in an error; the next wording is tried after a refusal,
\* and the last refusal disables the effort.
Failed(t) ==
  LET thread == threads[t]
  IN /\ At(t, "ask")
     /\ \E refused \in BOOLEAN :
          /\ IF refused THEN Head(thread.tries) \notin accepts /\ UNCHANGED events ELSE Event
          /\ IF ~SaysUnsupported(refused) THEN Rests(t) /\ UNCHANGED learned
             ELSE IF MoreToTry(thread.tries)
                    THEN Turns(t, [thread EXCEPT !.tries = Tail(@)]) /\ UNCHANGED learned
                    ELSE Learns(t, Disabled)
     /\ UNCHANGED <<keys, efforts, env, envTemp, known, accepts, chosen>>

AsOnFile(t) == efforts

\* persist_thinking_effort: under the lock, the file is read again.
Stores(t) ==
  LET thread == threads[t]
  IN /\ \/ /\ At(t, "load") /\ \A f \in Files : keys[f] = None
           /\ ConfigLockFree
           /\ Turns(t, [thread EXCEPT !.step = "store", !.map = AsOnFile(t)])
           /\ UNCHANGED efforts
        \/ /\ At(t, "store")
           /\ efforts' = [thread.map EXCEPT ![thread.effort] = thread.learn]
           /\ Rests(t)
     /\ UNCHANGED <<keys, env, envTemp, known, learned, accepts, events, chosen>>
-----------------------------------------------------------------------------
\* The user puts a literal key into a file that no thread has in its hands.
Edit(f) ==
  /\ Event
  /\ \A t \in Threads : threads[t].step \in {"idle", "ask"} \/ threads[t].file # f
  /\ \E key \in Keys : keys' = [keys EXCEPT ![f] = key] /\ chosen' = [chosen EXCEPT ![f] = key]
  /\ UNCHANGED <<efforts, env, envTemp, threads, known, learned, accepts>>

Restart ==
  /\ Event
  /\ threads' = [t \in Threads |-> Resting] /\ known' = efforts /\ learned' = Unset
  /\ UNCHANGED <<keys, efforts, env, envTemp, accepts, chosen>>

ConfigStep(t) ==
  \/ \E f \in Files : Load(t, f)
  \/ EnvReads(t) \/ EnvWrites(t) \/ WritesBack(t)
  \/ \E e \in Efforts : Ask(t, e)
  \/ Accepted(t) \/ Failed(t) \/ Stores(t)

ConfigNext == (\E t \in Threads : ConfigStep(t)) \/ (\E f \in Files : Edit(f)) \/ Restart

ConfigSpec == ConfigInit /\ [][ConfigNext]_configVars
-----------------------------------------------------------------------------
Map == [Efforts -> {Free, Disabled} \cup {Word(w) : w \in Wordings}]

\* Files, keys and maps have their types; a stream that asks the model has a wording left to try
\* (model_stream_with_thinking_effort_fallback).
ConfigTypeOK ==
  /\ keys \in [Files -> Keys \cup {None}] /\ chosen \in [Files -> Keys]
  /\ {efforts, known, learned} \subseteq Map
  /\ {env, envTemp} \subseteq [whole : BOOLEAN, values : [Files -> Keys \cup {None}]]
  /\ \A t \in Threads :
       /\ threads[t].step \in {"idle", "load", "env", "empty", "fill", "replace", "lock", "write",
                               "ask", "store"}
       /\ threads[t].file \in Files /\ threads[t].map \in Map /\ threads[t].effort \in Efforts \cup {None}
       /\ (At(t, "ask") => threads[t].tries # <<>>)
  /\ accepts \in Acceptances /\ events \in 0..MaxEvents

\* A file without a literal key leads to the key that the user put there last:
\* the reference is written after the value, and a value that is there is
\* never taken for another (ensure_private_env_value_at).
KeyIsTheUsers ==
  \A f \in Files : keys[f] = None => env.whole /\ env.values[f] = chosen[f]

\* "Existing values are never overwritten silently" (ensure_private_env_value):
\* whatever runs at the same time or stops halfway, a value stays readable.
ValuesAreOnlyAdded ==
  [][\A f \in Files : env.values[f] # None => env'.whole /\ env'.values[f] = env.values[f]]_configVars

\* Storing what was learned of one effort keeps what is on file of the others.
LearningKeepsTheRest ==
  [][\A t \in Threads : At(t, "store") /\ threads'[t].step # "store" /\ efforts' # efforts =>
       \A e \in Efforts \ {threads[t].effort} : efforts'[e] = efforts[e]]_configVars

\* Only a refusal disables an effort, and only of everything the program could
\* try: "this deliberately excludes authentication, quota, transport, model,
\* and context failures" (is_explicit_unsupported_thinking_effort).
OnlyRefusedIsDisabled ==
  \A e \in Efforts : Disabled \in {efforts[e], learned[e]} =>
    /\ accepts # Wordings
    /\ e \in Alternates => \A i \in DOMAIN Standard[e] : Standard[e][i] \notin accepts

(***************************************************************************)
(* The key a request is made with is the user's own, and an effort is      *)
(* marked as unsupported only when the provider refused that effort.       *)
(***************************************************************************)
ConfigInvariant ==
  /\ ConfigTypeOK
  /\ KeyIsTheUsers
  /\ OnlyRefusedIsDisabled

=============================================================================
