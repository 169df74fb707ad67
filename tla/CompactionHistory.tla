-------------------------- MODULE CompactionHistory --------------------------
(***************************************************************************)
(* One session branch as it grows and is compacted, again and again.       *)
(* Conversation arrives as persist_new_messages writes it: the assistant   *)
(* message with tool calls and all its results under one lock.  A          *)
(* compaction (AgentSession::compact_inner, crates/rozsa-app/src/          *)
(* agent_session.rs) plans a cut and appends an entry; nothing is removed. *)
(***************************************************************************)
EXTENDS SessionBranch

CONSTANTS
  MaxEntries,  \* bound: length of the branch
  MaxResults,  \* bound: tool calls in one assistant message
  Weights      \* bound: the weights a message or a summary may have

Entry == [kind : MessageKinds \cup {"other"}, weight : Weights \cup {0}]
         \cup [kind : {"compaction"}, weight : Weights, keep : 1..MaxEntries]

\* estimate_entry_tokens gives every entry a usize.
ASSUME HistoryAssumption ==
  /\ MaxEntries \in Nat /\ MaxResults \in Nat \ {0}
  /\ \A e \in Entry : Weight(e) \in Nat

VARIABLES
  entries,  \* SessionManager::entries()
  planned   \* what the last step did about a plan: "cut", or "refused" over the
            \* threshold

vars == <<entries, planned>>

Append1(es, kind, w) == Append(es, [kind |-> kind, weight |-> w])

Init == entries = <<>> /\ planned = "none"

Room(n) == Len(entries) + n <= MaxEntries

Say ==
  /\ Room(1)
  /\ \E kind \in {"user", "answer"}, w \in Weights :
       entries' = Append1(entries, kind, w)
  /\ planned' = "none"

\* append_session_info, append_thinking_effort_change and the like.
Note ==
  /\ Room(1)
  /\ entries' = Append1(entries, "other", 0)
  /\ planned' = "none"

UseTools ==
  \E n \in 1..MaxResults, w \in Weights, r \in Weights :
    /\ Room(n + 1)
    /\ entries' = Append1(entries, "call", w)
                    \o [i \in 1..n |-> [kind |-> "result", weight |-> r]]
    /\ planned' = "none"

\* Faulty variant: the plan is made for what the agent still has, and its
\* index used for the whole branch.
CutOfContext(es, used) == Plan(From(es, ContextStart(es)), used)

CutFor(es, used) == Plan(es, used)

\* used comes from an assistant message.
Compact(used) ==
  /\ Room(1)
  /\ used > 0 => \E i \in 1..Len(entries) : entries[i].kind \in {"answer", "call"}
  /\ LET cut == CutFor(entries, used) IN
       IF cut = 0
       THEN /\ planned' = IF OverThreshold(entries, used) THEN "refused" ELSE "none"
            /\ UNCHANGED entries
       ELSE /\ planned' = "cut"
            /\ \E w \in Weights :
                 entries' = Append(entries, [kind |-> "compaction",
                                             weight |-> w, keep |-> cut])

Next == Say \/ Note \/ UseTools \/ \E used \in {0, Threshold} : Compact(used)

Spec == Init /\ [][Next]_vars

-----------------------------------------------------------------------------
\* The branch holds entries that persist_new_messages or a compaction wrote.
TypeOK ==
  /\ entries \in Seq(Entry)
  /\ planned \in {"none", "cut", "refused"}

\* However often the branch is cut, the agent is given a tool result only
\* behind the assistant message that called for it, or behind another result
\* of that message ("a ToolResult message MUST follow the Assistant message
\* that issued the corresponding ToolCall").
ResultsFollowTheirCall ==
  LET context == ContextMessages(entries)
  IN \A i \in 1..Len(context) :
       context[i].kind = "result" =>
         i > 1 /\ context[i - 1].kind \in {"call", "result"}

(***************************************************************************)
(* However often a branch is compacted, its context never begins with, or  *)
(* holds, a tool result whose call was cut away.                           *)
(***************************************************************************)
BranchInvariant ==
  /\ TypeOK
  /\ ResultsFollowTheirCall

\* What one compaction took from the agent no later one gives back, although
\* each plans on the whole branch and not on what the agent still has.
CompactionOnlyForgets ==
  [][ContextStart(entries') >= ContextStart(entries)]_vars

\* The tail that is kept weighs what the configuration wants kept, and what it
\* weighs beyond that is one entry and the tool exchanges right before it.
KeptTailFits ==
  [][planned' = "cut" =>
       LET cut == ContextStart(entries') IN
         /\ TailWeight(entries, cut) >= KeepTokens
         /\ \E raw \in cut..Len(entries) :
              /\ TailWeight(entries, raw + 1) < KeepTokens \/ raw = Len(entries)
              /\ \A i \in cut + 1..raw : entries[i].kind \in {"call", "result"}]_vars

(***************************************************************************)
(* A compaction only moves the cut forward, keeps at least the tokens it   *)
(* is told to, and goes back behind them no further than to the call of a  *)
(* result.                                                                 *)
(***************************************************************************)
CutsAreRight ==
  /\ CompactionOnlyForgets
  /\ KeptTailFits

=============================================================================
