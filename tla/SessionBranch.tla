---------------------------- MODULE SessionBranch ----------------------------
(***************************************************************************)
(* The active branch of a session file, root first, as                     *)
(* SessionManager::entries() returns it: which of its messages the agent   *)
(* is given (context_messages, crates/rozsa-app/src/session/manager.rs),   *)
(* and where CompactionEngine cuts it (crates/rozsa-app/src/compaction/    *)
(* mod.rs).  Positions are numbered from 1; the id of an entry is its      *)
(* position.                                                               *)
(*                                                                         *)
(* An entry is a record whose field kind is that of a message, an          *)
(* assistant message with tool calls being a "call" and one without an     *)
(* "answer", or "compaction", which also has the position keep of its      *)
(* first kept entry, or "other" for metadata.                              *)
(***************************************************************************)
EXTENDS Integers, Sequences, FiniteSetsExt, Functions, Selection

CONSTANTS
  Weight(_),  \* estimate_entry_tokens
  Threshold,  \* CompactionTrigger.threshold_tokens
  Target      \* CompactionTrigger.target_tokens

ASSUME TriggerAssumption == Threshold \in Nat /\ Target \in Nat

MessageKinds == {"user", "answer", "call", "result"}
IsMessage(e) == e.kind \in MessageKinds
Messages(es) == Kept(es, {e \in Range(es) : IsMessage(e)})

From(es, i) == SubSeq(es, i, Len(es))

(***************************************************************************)
(* The agent is given the messages from the first entry kept by the latest *)
(* compaction on, or all of them.                                          *)
(***************************************************************************)
Compactions(es)  == {i \in 1..Len(es) : es[i].kind = "compaction"}

ContextStart(es) ==
  IF Compactions(es) = {} THEN 1 ELSE es[Max(Compactions(es))].keep
ContextMessages(es) == Messages(From(es, ContextStart(es)))

-----------------------------------------------------------------------------
(***************************************************************************)
(* Where to cut.  The raw cut keeps the shortest tail that weighs at least *)
(* KeepTokens; it does not exist when the whole branch is too light.       *)
(***************************************************************************)
WeightOf(es, positions) ==
  MapThenSumSet(LAMBDA i : Weight(es[i]), positions)
TailWeight(es, i) == WeightOf(es, i..Len(es))

KeepTokens == Min({Target, IF Threshold = 0 THEN 0 ELSE Threshold - 1})

HeavyTails(es) == {i \in 1..Len(es) : TailWeight(es, i) >= KeepTokens}

\* adjust_to_safe_boundary pulls the cut back from such a place.
IsKind(es, i, kind) == i \in 1..Len(es) /\ es[i].kind = kind

InExchange(es, i) ==
  \/ IsKind(es, i, "result")
  \/ IsKind(es, i, "call") /\ IsKind(es, i + 1, "result")

\* Faulty variant: the cut stays where the weights put it.
RawCut(es, cut) == cut

SafeCut(es, cut) == Max({i \in 1..cut : i = 1 \/ ~InExchange(es, i)})

\* used is the prompt size the provider reported last.
OverThreshold(es, used) ==
  used >= Threshold \/ WeightOf(es, 1..Len(es)) >= Threshold

\* prepare_with_context, 0 for None.
Plan(es, used) ==
  LET heavy == HeavyTails(es)
      cut   == SafeCut(es, Max(heavy))
  IN IF OverThreshold(es, used) /\ heavy # {} /\ cut > 1 THEN cut ELSE 0
=============================================================================
