----------------------------- MODULE AgentSession -----------------------------
(***************************************************************************)
(* AgentSession of crates/rozsa-app/src/agent_session.rs: the one object a *)
(* GUI tab or the CLI shares between its callers.  Each call of prompt or  *)
(* continue_session is a task that claims the running slot, runs the agent *)
(* loop, writes what it reported to the session file and to memory, and    *)
(* may compact; compact, abort, steer and follow_up come from elsewhere at *)
(* any moment, writes fail, and the process may die.                       *)
(*                                                                         *)
(* The loop is what AgentLoop makes of it: it drains the queues, adds      *)
(* assistant messages and complete tool exchanges, and reports, in one     *)
(* AgentEnd, everything it added.  The file is the branch of               *)
(* SessionBranch: this session is its only writer here.                    *)
(***************************************************************************)
EXTENDS SessionBranch, SequencesExt

CONSTANTS
  Tasks,       \* calls of prompt and continue_session
  Caller,      \* whoever calls compact
  None,        \* no token
  MaxTurns,    \* bound: assistant messages, of all loops together
  MaxCalls     \* bound: calls of steer, follow_up, abort and compact, and ends of
               \* the process, together

Queues == {"steering", "followUp"}

ASSUME SessionAssumption ==
  /\ Caller \notin Tasks /\ None \notin Tasks
  /\ (Tasks \cup {Caller}) \cap Queues = {}
  /\ MaxTurns \in Nat /\ MaxCalls \in Nat

Calls  == {"prompt", "continue"}
Compactors == Tasks \cup {Caller}

(***************************************************************************)
(* A message carries who it is by, a number, and, for an assistant         *)
(* message, the prompt size its provider reported, taken to be the number  *)
(* of messages in the prompt.  A custom message (the summary of a          *)
(* compaction) is dropped by convert_to_llm.                               *)
(***************************************************************************)
Msg(kind, by, n, used) == [kind |-> kind, by |-> by, n |-> n, used |-> used]
Prompt(t)    == Msg("user", t, 0, 0)
Summary      == Msg("custom", Caller, 0, 0)

\* Faulty variant: the entry before the cut is named as the first one kept.
CompactionBefore(cut) == [kind |-> "compaction", keep |-> cut - 1]

Compaction(cut) == [kind |-> "compaction", keep |-> cut]

VARIABLES
  isRunning,    \* is_running
  token,        \* cancel_token: the task it was made by, or None
  cancelled,    \* the tasks whose token is cancelled
  memory,       \* messages
  entries,      \* session_manager: the branch in the file
  queue,        \* steering_queue and follow_up_queue
  kind,         \* which of the two calls a task is
  pc,           \* where a task stands
  context,      \* the messages handed to a task's loop
  new,          \* what a task's loop added, or reported once it has ended
  isCompacting, \* is_compacting
  stage,        \* where a compaction stands
  snapshot,     \* the branch and the cut a compaction works with
  calls,        \* calls of that kind so far
  overlapped    \* a compaction by Caller went along with a task

vars == <<isRunning, token, cancelled, memory, entries, queue, kind, pc,
          context, new, isCompacting, stage, snapshot, calls, overlapped>>

slot == <<isRunning, token, cancelled>>
task == <<kind, pc, context, new>>
compaction == <<isCompacting, stage, snapshot>>
history == <<memory, entries>>

Working(t) == pc[t] \in {"claimed", "armed", "building", "configuring",
                         "looping", "drained", "persisted", "compacting"}
Compacting(c) == stage[c] # "off"

Count == calls < MaxCalls /\ calls' = calls + 1

Init ==
  /\ isRunning = FALSE /\ token = None /\ cancelled = {}
  /\ memory = <<>> /\ entries = <<>>
  /\ queue = [q \in Queues |-> <<>>]
  /\ kind = [t \in Tasks |-> "prompt"]
  /\ pc = [t \in Tasks |-> "ready"]
  /\ context = [t \in Tasks |-> <<>>] /\ new = [t \in Tasks |-> <<>>]
  /\ isCompacting = FALSE
  /\ stage = [c \in Compactors |-> "off"]
  /\ snapshot = [c \in Compactors |-> [entries |-> <<>>, cut |-> 0]]
  /\ calls = 0
  /\ overlapped = FALSE

GoTo(t, where) == pc' = [pc EXCEPT ![t] = where]

-----------------------------------------------------------------------------
(***************************************************************************)
(* prompt_with_prefix_blocks and continue_session.                         *)
(***************************************************************************)

\* Faulty variant: the token is made before the slot is claimed.
ClaimOverwritingToken(t) ==
  /\ pc[t] = "ready"
  /\ token' = t
  /\ IF isRunning
     THEN GoTo(t, "refused") /\ UNCHANGED <<isRunning, kind, overlapped>>
     ELSE /\ isRunning' = TRUE
          /\ \E k \in Calls : kind' = [kind EXCEPT ![t] = k]
          /\ GoTo(t, "claimed")
          /\ overlapped' = (overlapped \/ Compacting(Caller))
  /\ UNCHANGED <<cancelled, context, new, history, queue, compaction, calls>>

Claim(t) ==
  /\ pc[t] = "ready"
  /\ IF isRunning
     THEN GoTo(t, "refused") /\ UNCHANGED <<isRunning, kind, overlapped>>
     ELSE /\ isRunning' = TRUE
          /\ \E k \in Calls : kind' = [kind EXCEPT ![t] = k]
          /\ GoTo(t, "claimed")
          /\ overlapped' = (overlapped \/ Compacting(Caller))
  /\ UNCHANGED <<token, cancelled, context, new, history, queue, compaction,
                 calls>>

\* Between the claim and the token there is an await.
InstallToken(t) ==
  /\ pc[t] = "claimed"
  /\ token' = t
  /\ GoTo(t, IF kind[t] = "prompt" THEN "armed" ELSE "building")
  /\ UNCHANGED <<isRunning, cancelled, kind, context, new, history, queue,
                 compaction, calls, overlapped>>

AppendPrompt(t) ==
  /\ pc[t] = "armed"
  /\ entries' = Append(entries, Prompt(t))
  /\ GoTo(t, "building")
  /\ UNCHANGED <<slot, kind, context, new, memory, queue,
                 compaction, calls, overlapped>>

\* The ? of append_message leaves without giving the slot back.
AppendPromptFails(t) ==
  /\ pc[t] = "armed"
  /\ GoTo(t, "unwritten")
  /\ UNCHANGED <<slot, kind, context, new, history, queue,
                 compaction, calls, overlapped>>

BuildContext(t) ==
  /\ pc[t] = "building"
  /\ context' = [context EXCEPT ![t] = memory]
  /\ GoTo(t, "configuring")
  /\ UNCHANGED <<slot, kind, new, history, queue, compaction,
                 calls, overlapped>>

Release(t) ==
  /\ token' = None /\ isRunning' = FALSE
  /\ cancelled' = cancelled \ {t}

ConfigFails(t) ==
  /\ pc[t] = "configuring"
  /\ Release(t)
  /\ context' = [context EXCEPT ![t] = <<>>]
  /\ GoTo(t, "failed")
  /\ UNCHANGED <<kind, new, history, queue, compaction,
                 calls, overlapped>>

StartLoop(t) ==
  /\ pc[t] = "configuring"
  /\ new' = [new EXCEPT ![t] = IF kind[t] = "prompt" THEN <<Prompt(t)>> ELSE <<>>]
  /\ GoTo(t, "looping")
  /\ UNCHANGED <<slot, kind, context, history, queue, compaction,
                 calls, overlapped>>

-----------------------------------------------------------------------------
(***************************************************************************)
(* The agent loop, between agent_loop(...) and the end of                  *)
(* drain_and_broadcast.                                                    *)
(***************************************************************************)
IsAssistant(m) == m.kind \in {"answer", "call"}
PromptSize(t)  == Len(Messages(context[t])) + Len(new[t])

LoopAdds(t, ms) == new' = [new EXCEPT ![t] = @ \o ms]

Turns == FoldSet(LAMBDA t, n : n + Len(SelectSeq(new[t], IsAssistant)), 0, Tasks)

\* What a cancelled loop still adds is taken to come before the cancel.
CanGoOn(t) ==
  /\ pc[t] = "looping" /\ t \notin cancelled
  /\ kind[t] = "continue" =>
       context[t] # <<>> /\ ~IsAssistant(context[t][Len(context[t])])

\* After an answer there is nothing to say until something new is heard.
CanSpeak(t) ==
  /\ CanGoOn(t)
  /\ Turns < MaxTurns
  /\ new[t] # <<>> => new[t][Len(new[t])].kind # "answer"

LoopAnswers(t) ==
  /\ CanSpeak(t)
  /\ LoopAdds(t, <<Msg("answer", t, Len(new[t]) + 1, PromptSize(t))>>)
  /\ UNCHANGED <<slot, kind, pc, context, history, queue,
                 compaction, calls, overlapped>>

LoopUsesTool(t) ==
  /\ CanSpeak(t)
  /\ LET n == Len(new[t]) + 1
     IN LoopAdds(t, <<Msg("call", t, n, PromptSize(t)), Msg("result", t, n, 0)>>)
  /\ UNCHANGED <<slot, kind, pc, context, history, queue,
                 compaction, calls, overlapped>>

\* mem::take of a queue.
LoopHears(t, q) ==
  /\ CanGoOn(t)
  /\ queue[q] # <<>>
  /\ LoopAdds(t, queue[q])
  /\ queue' = [queue EXCEPT ![q] = <<>>]
  /\ UNCHANGED <<slot, kind, pc, context, history, compaction,
                 calls, overlapped>>

LoopEnds(t) ==
  /\ pc[t] = "looping"
  /\ context' = [context EXCEPT ![t] = <<>>]
  /\ GoTo(t, "drained")
  /\ UNCHANGED <<slot, kind, new, history, queue,
                 compaction, calls, overlapped>>

\* The task of the loop panics: the stream closes without an AgentEnd.
LoopDies(t) ==
  /\ pc[t] = "looping"
  /\ context' = [context EXCEPT ![t] = <<>>]
  /\ new' = [new EXCEPT ![t] = <<>>]
  /\ GoTo(t, "drained")
  /\ UNCHANGED <<slot, kind, history, queue, compaction,
                 calls, overlapped>>

-----------------------------------------------------------------------------
(***************************************************************************)
(* persist_new_messages, which holds both locks to its end.  Every message *)
(* goes to memory and then, unless it is a user's, to the file.            *)
(***************************************************************************)

ShouldPersist(m) == m.kind # "user"

ToPersist(ms) == Kept(ms, {m \in Range(ms) : ShouldPersist(m)})

Persist(t) ==
  /\ pc[t] = "drained"
  /\ memory' = memory \o new[t]
  /\ entries' = entries \o ToPersist(new[t])
  /\ GoTo(t, "persisted")
  /\ UNCHANGED <<slot, kind, context, new, queue, compaction,
                 calls, overlapped>>

\* The message whose write fails is in memory already.
PersistFails(t) ==
  /\ pc[t] = "drained"
  /\ \E n \in 1..Len(new[t]) :
       /\ ShouldPersist(new[t][n])
       /\ memory' = memory \o SubSeq(new[t], 1, n)
       /\ entries' = entries \o ToPersist(SubSeq(new[t], 1, n - 1))
  /\ Release(t)
  /\ GoTo(t, "partly")
  /\ UNCHANGED <<kind, context, new, queue, compaction, calls, overlapped>>

\* latest_context_tokens.
LatestUsed(ms) ==
  LET said == Kept(ms, {m \in Range(ms) : IsAssistant(m)})
  IN IF said = <<>> THEN 0 ELSE said[Len(said)].used

\* Compaction is disabled in the settings, or the prompt is small enough.
EndWithoutCompaction(t) ==
  /\ pc[t] = "persisted"
  /\ Release(t)
  /\ GoTo(t, "ended")
  /\ UNCHANGED <<kind, context, new, history, queue, compaction,
                 calls, overlapped>>

AutoCompact(t) ==
  /\ pc[t] = "persisted"
  /\ LatestUsed(memory) >= Threshold
  /\ GoTo(t, "compacting")
  /\ isCompacting' = TRUE
  /\ stage' = [stage EXCEPT ![t] = "started"]
  /\ UNCHANGED <<slot, kind, context, new, history, queue,
                 snapshot, calls, overlapped>>

-----------------------------------------------------------------------------
(***************************************************************************)
(* compact and compact_inner, by a task or by Caller.                      *)
(***************************************************************************)
Compact ==
  /\ ~Compacting(Caller)
  /\ Count
  /\ isCompacting' = TRUE
  /\ stage' = [stage EXCEPT ![Caller] = "started"]
  /\ overlapped' = (overlapped \/ isRunning)
  /\ UNCHANGED <<slot, task, history, queue, snapshot>>

NoQueue == [q \in Queues |-> <<>>]

\* abort.  The lock of the token is never held for longer than one assignment.
AbortLoop ==
  /\ queue' = NoQueue
  /\ cancelled' = cancelled \cup ({token} \ {None})

\* It aborts whatever runs, and sleeps a while.
AbortRunning(c) ==
  /\ stage[c] = "started" /\ isRunning
  /\ AbortLoop
  /\ stage' = [stage EXCEPT ![c] = "sleeping"]
  /\ UNCHANGED <<isRunning, token, task, history, isCompacting, snapshot,
                 calls, overlapped>>

MayPlan(c) ==
  \/ stage[c] = "started" /\ ~isRunning
  \/ stage[c] = "sleeping"

TakeSnapshot(c) ==
  /\ MayPlan(c)
  /\ LET cut == Plan(entries, LatestUsed(memory)) IN
       /\ cut # 0
       /\ snapshot' = [snapshot EXCEPT ![c] = [entries |-> entries, cut |-> cut]]
  /\ stage' = [stage EXCEPT ![c] = "summarising"]
  /\ UNCHANGED <<slot, task, history, queue, isCompacting,
                 calls, overlapped>>

AppendCompaction(c) ==
  /\ stage[c] = "summarising"
  /\ entries' = Append(entries, Compaction(snapshot[c].cut))
  /\ stage' = [stage EXCEPT ![c] = "rebuilding"]
  /\ UNCHANGED <<slot, task, memory, queue, isCompacting, snapshot,
                 calls, overlapped>>

\* The return from compact ends a task that called it.
Return(c, how) ==
  /\ isCompacting' = FALSE
  /\ stage' = [stage EXCEPT ![c] = "off"]
  /\ snapshot' = [snapshot EXCEPT ![c] = [entries |-> <<>>, cut |-> 0]]
  /\ IF c = Caller
     THEN UNCHANGED <<slot, task>>
     ELSE Release(c) /\ GoTo(c, how) /\ UNCHANGED <<kind, context, new>>

\* Nothing to compact, no credentials, an empty summary, or a failed write.
CompactionFails(c) ==
  /\ \/ MayPlan(c) /\ Plan(entries, LatestUsed(memory)) = 0
     \/ stage[c] = "summarising"
  /\ Return(c, "failed")
  /\ UNCHANGED <<history, queue, calls, overlapped>>

\* Faulty variant: memory keeps as many messages as the cut left entries.
RebuildByCount(c) ==
  /\ stage[c] = "rebuilding"
  /\ memory' = <<Summary>> \o From(memory, snapshot[c].cut)
  /\ Return(c, "ended")
  /\ UNCHANGED <<entries, queue, calls, overlapped>>

Rebuild(c) ==
  /\ stage[c] = "rebuilding"
  /\ memory' = <<Summary>> \o
                 Messages(From(snapshot[c].entries, snapshot[c].cut))
  /\ Return(c, "ended")
  /\ UNCHANGED <<entries, queue, calls, overlapped>>

-----------------------------------------------------------------------------
(***************************************************************************)
(* steer, follow_up and abort; the end of the process.                     *)
(***************************************************************************)
Queue(q) ==
  /\ Count
  /\ queue' = [queue EXCEPT ![q] = Append(@, Msg("user", q, calls, 0))]
  /\ UNCHANGED <<slot, task, history, compaction, overlapped>>

Abort ==
  /\ Count
  /\ AbortLoop
  /\ UNCHANGED <<isRunning, token, task, history, compaction, overlapped>>

\* What of a persist that was going on has reached the file.
HalfWritten ==
  (UNION {Prefixes(ToPersist(new[t])) : t \in {u \in Tasks : pc[u] = "drained"}})
  \cup {<<>>}

\* The process dies and the session is opened again: AgentSession::new.
Restart ==
  /\ Count
  /\ context' = [t \in Tasks |-> <<>>]
  /\ \E written \in HalfWritten :
       /\ entries' = entries \o written
       /\ memory' = ContextMessages(entries \o written)
  /\ isRunning' = FALSE /\ token' = None /\ cancelled' = {}
  /\ queue' = NoQueue
  /\ pc' = [t \in Tasks |-> IF pc[t] = "ready" THEN "ready" ELSE "gone"]
  /\ isCompacting' = FALSE
  /\ stage' = [c \in Compactors |-> "off"]
  /\ snapshot' = [c \in Compactors |-> [entries |-> <<>>, cut |-> 0]]
  /\ overlapped' = FALSE
  /\ UNCHANGED <<kind, new>>

-----------------------------------------------------------------------------
LoopRuns(t) ==
  LoopAnswers(t) \/ LoopUsesTool(t) \/ \E q \in Queues : LoopHears(t, q)

TaskStep(t) ==
  \/ InstallToken(t) \/ AppendPrompt(t) \/ AppendPromptFails(t)
  \/ BuildContext(t) \/ ConfigFails(t) \/ StartLoop(t)
  \/ Persist(t) \/ PersistFails(t) \/ EndWithoutCompaction(t) \/ AutoCompact(t)

CompactionStep(c) ==
  \/ AbortRunning(c) \/ TakeSnapshot(c) \/ AppendCompaction(c)
  \/ CompactionFails(c) \/ Rebuild(c)

Next ==
  \/ \E t \in Tasks : \/ Claim(t) \/ TaskStep(t)
                      \/ LoopRuns(t) \/ LoopEnds(t) \/ LoopDies(t)
  \/ Compact
  \/ \E c \in Compactors : CompactionStep(c)
  \/ \E q \in Queues : Queue(q)
  \/ Abort
  \/ Restart

Spec == Init /\ [][Next]_vars

-----------------------------------------------------------------------------
Kinds == MessageKinds \cup {"custom"}
Message == [kind : Kinds, by : Compactors \cup Queues, n : Nat, used : Nat]
Entry == Message \cup [kind : {"compaction"}, keep : Nat \ {0}]

\* Memory, file, queues, tasks and compactions have their types.
TypeOK ==
  /\ isRunning \in BOOLEAN /\ isCompacting \in BOOLEAN
  /\ token \in Tasks \cup {None} /\ cancelled \subseteq Tasks
  /\ memory \in Seq(Message) /\ entries \in Seq(Entry)
  /\ queue \in [Queues -> Seq(Message)]
  /\ kind \in [Tasks -> Calls]
  /\ \A t \in Tasks :
       Working(t) \/ pc[t] \in {"ready", "refused", "unwritten", "partly",
                                "failed", "ended", "gone"}
  /\ context \in [Tasks -> Seq(Message)] /\ new \in [Tasks -> Seq(Message)]
  /\ stage \in [Compactors -> {"off", "started", "sleeping", "summarising",
                               "rebuilding"}]
  /\ \A c \in Compactors : snapshot[c].entries \in Seq(Entry)
  /\ overlapped \in BOOLEAN

\* From the claim to the last return of its auto-compaction one task works
\* at a time, and the token an abort would find is that of its own loop: a
\* refused call, the end of an earlier task or a compaction never puts another
\* in its place.
OneRunAndItsToken ==
  \A t \in Tasks :
    /\ \A u \in Tasks : Working(t) /\ Working(u) => t = u
    /\ Working(t) /\ pc[t] # "claimed" => token = t /\ isRunning

\* What a task wrote is in the file in the order its loop reported it, once,
\* its prompt first and from before the loop started; all of it when the task
\* got past its persist, a prefix when a write failed or the process died.
OnFile(t) == Kept(entries, {e \in Range(entries) : e.kind # "compaction" /\ e.by = t})
Expected(t) ==
  (IF kind[t] = "prompt" THEN <<Prompt(t)>> ELSE <<>>) \o ToPersist(new[t])
RunsAreOnFile ==
  \A t \in Tasks :
    LET written == OnFile(t) IN
      /\ IsPrefix(written, Expected(t))
      /\ pc[t] \in {"looping", "drained"} /\ kind[t] = "prompt" =>
           written = <<Prompt(t)>>
      /\ pc[t] \in {"persisted", "compacting", "ended"} =>
           written = Expected(t)

\* Whatever was cut, half written, lost or rebuilt, a tool result follows the
\* assistant message that called for it: in memory, in the prompt of a loop,
\* and in what a restart would read back.
Ordered(ms) ==
  \A i \in 1..Len(ms) :
    ms[i].kind = "result" =>
      i > 1 /\ ms[i - 1].kind = "call" /\ ms[i - 1].by = ms[i].by
            /\ ms[i - 1].n = ms[i].n
ResultsFollowTheirCall ==
  /\ Ordered(Messages(memory))
  /\ Ordered(ContextMessages(entries))
  /\ \A t \in Tasks : Ordered(Messages(context[t]) \o new[t])

\* When nothing runs, memory and the branch in the file tell the model the same
\* conversation, through auto-compactions, compactions between runs and
\* restarts.  What never goes to one of the two is left aside: queued messages,
\* and the prompts of loops that never reported; so are a compaction that
\* went along with a run, and a persist whose write failed.
Quiet ==
  /\ \A t \in Tasks : ~Working(t)
  /\ \A c \in Compactors : ~Compacting(c)
Told(m) ==
  /\ IsMessage(m) /\ m.by \notin Queues
  /\ m.kind = "user" => new[m.by] # <<>>
ToldOf(ms) == Kept(ms, {m \in Range(ms) : Told(m)})
MemoryIsTheBranch ==
  Quiet /\ ~overlapped /\ (\A t \in Tasks : pc[t] # "partly") =>
    ToldOf(memory) = ToldOf(ContextMessages(entries))

\* A task gives the slot back on every way out, from whatever it came to while
\* others aborted and compacted, but for the one that could not write its
\* prompt: the session never turns prompts down on behalf of nobody.
SlotIsHeldByATask ==
  isRunning <=> \E t \in Tasks : Working(t) \/ pc[t] = "unwritten"

(***************************************************************************)
(* One run at a time, and abort() reaches it: the slot, the token and the  *)
(* task that will give both back belong to each other.                     *)
(***************************************************************************)
SessionInvariant ==
  /\ TypeOK
  /\ OneRunAndItsToken
  /\ SlotIsHeldByATask

\* "Persist new messages from agent events into the session file and internal
\* history": where no write failed, what the loops put into memory is in the
\* file.
ReportedMessagesArePersisted ==
  (\A t \in Tasks : pc[t] # "partly") =>
    \A i \in 1..Len(memory) :
      IsMessage(memory[i]) => \E j \in 1..Len(entries) : entries[j] = memory[i]

(***************************************************************************)
(* What a restart finds and a provider accepts: the completed runs are in  *)
(* the file, and in what is resumed from it or held in memory every result *)
(* follows its call.                                                       *)
(***************************************************************************)
HistoryInvariant ==
  /\ RunsAreOnFile
  /\ ResultsFollowTheirCall

=============================================================================
