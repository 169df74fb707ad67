------------------------------ MODULE ToolBatch ------------------------------
(***************************************************************************)
(* execute_tool_batch of crates/rozsa-core/src/agent_loop.rs: one batch of *)
(* tool calls, run one after the other (execute_sequential) or each in a   *)
(* spawned tokio task (execute_parallel), with the pre_tool_use and        *)
(* post_tool_use hooks, the semaphore that bounds concurrency, panics, and *)
(* a CancellationToken another thread may cancel between any two steps.    *)
(*                                                                         *)
(* A call is its position in the assistant message.  A step of the loop is *)
(* the code between two points where it reads something another task or    *)
(* thread writes: the token, a hook's answer, a task's completion.         *)
(***************************************************************************)
EXTENDS Integers, Sequences, FiniteSets

CONSTANTS
  NumCalls,     \* tool calls in the assistant message
  Permits,      \* tokio::sync::Semaphore::new(10)
  PostHookSet   \* BOOLEAN: config.post_tool_use is Some

ASSUME BatchAssumption ==
  /\ NumCalls \in Nat
  /\ Permits \in Nat \ {0}
  /\ PostHookSet \in BOOLEAN

Calls == 1..NumCalls

(***************************************************************************)
(* How the tool a call names is registered: not at all, or with an         *)
(* execution_mode() that is Sequential or not.                             *)
(***************************************************************************)
ToolKinds == {"missing", "sequential", "parallel"}

(***************************************************************************)
(* A FinalizedToolCall: the call, how it came to its end, and the two      *)
(* flags the loop and the model look at.                                   *)
(***************************************************************************)
Ways == {"missing", "blocked", "cancelled", "panicked", "executed"}
Finalized == [call : Calls, way : Ways, isError : BOOLEAN, terminate : BOOLEAN]

(***************************************************************************)
(* A PreparedEntry: Immediate with the way its call ended, or Pending on a *)
(* JoinHandle.                                                             *)
(***************************************************************************)
Immediate == {"missing", "blocked", "cancelled"}
PreparedEntry == [call : Calls, way : Immediate \cup {"pending"}]

MakeErrorFinalized(c, w) ==
  [call |-> c, way |-> w, isError |-> TRUE, terminate |-> FALSE]

(***************************************************************************)
(* What a tool's future returns: Ok with or without terminate, or Err.     *)
(***************************************************************************)
ToolReturns == {"ok", "okTerminate", "err"}

Executed(c, r) ==
  [call |-> c, way |-> "executed",
   isError |-> r = "err", terminate |-> r = "okTerminate"]

(***************************************************************************)
(* apply_post_tool_use: each field of the override is optional, a hook     *)
(* that panics or returns None leaves the outcome as it was.               *)
(***************************************************************************)
ApplyPostToolUse(f) ==
  IF PostHookSet
    THEN [call : {f.call}, way : {f.way}, isError : BOOLEAN, terminate : BOOLEAN]
    ELSE {f}

\* Faulty variant: vacuously true of a batch nothing of which ran.
AllTerminate(fs) == \A k \in 1..Len(fs) : fs[k].terminate

\* should_terminate_batch
ShouldTerminateBatch(fs) ==
  fs # <<>> /\ \A k \in 1..Len(fs) : fs[k].terminate

TaskStates == {"none", "queued", "running", "panicked",
               "abortingQueued", "abortingRunning", "dropped"} \cup ToolReturns
Active     == {"queued", "running"}
Aborting   == {"abortingQueued", "abortingRunning"}

VARIABLES
  kind,       \* the tool each call names
  mode,       \* "sequential" or "parallel": the executor chosen
  pc,         \* where the loop's task stands
  cur,        \* the call the source-order `for call in tool_calls` is at
  cancelled,  \* the CancellationToken
  task,       \* the tool future of each call
  entries,    \* Vec<PreparedEntry>: an Immediate outcome or a Pending handle
  finalized,  \* Vec<FinalizedToolCall>
  started,    \* calls whose ToolExecutionStart was emitted
  ends,       \* how many ToolExecutionEnd events each call has had
  late        \* calls with a ToolExecutionUpdate after their ToolExecutionEnd

vars == <<kind, mode, pc, cur, cancelled, task, entries, finalized,
          started, ends, late>>

loopVars == <<kind, mode, pc, cur, entries, finalized, started, ends>>

\* Faulty variant: the tools are not asked.
ConfiguredExecutor(configured) == configured

\* execute_tool_batch: the configured mode, unless a tool insists on Sequential.
Executor(configured) ==
  IF \E c \in Calls : kind[c] = "sequential" THEN "sequential" ELSE configured

Init ==
  /\ kind \in [Calls -> ToolKinds]
  /\ \E configured \in {"sequential", "parallel"} : mode = Executor(configured)
  /\ pc = "next"
  /\ cur = 1
  /\ cancelled \in BOOLEAN
  /\ task = [c \in Calls |-> "none"]
  /\ entries = <<>>
  /\ finalized = <<>>
  /\ started = {}
  /\ ends = [c \in Calls |-> 0]
  /\ late = {}

-----------------------------------------------------------------------------
(* Both executors: the head of `for call in tool_calls`, up to the hook.   *)

PushEntry(c, w) == entries' = Append(entries, [call |-> c, way |-> w])

EmitEnd(c) == ends' = [ends EXCEPT ![c] = @ + 1]

(***************************************************************************)
(* A call that ends without its tool having run.  The sequential executor  *)
(* pushes the result at once, the parallel one an Immediate entry.         *)
(***************************************************************************)
EndWithoutRunning(c, w) ==
  /\ EmitEnd(c)
  /\ IF mode = "sequential"
       THEN /\ finalized' = Append(finalized, MakeErrorFinalized(c, w))
            /\ UNCHANGED entries
       ELSE PushEntry(c, w) /\ UNCHANGED finalized

\* Not cancelled: ToolExecutionStart, and the tool is looked up by name.
StartCall ==
  /\ pc = "next" /\ cur <= NumCalls /\ ~cancelled
  /\ started' = started \cup {cur}
  /\ IF kind[cur] = "missing"
       THEN /\ EndWithoutRunning(cur, "missing")
            /\ cur' = cur + 1
            /\ UNCHANGED pc
       ELSE /\ pc' = "hook"
            /\ UNCHANGED <<cur, entries, finalized, ends>>
  /\ UNCHANGED <<kind, mode, cancelled, task, late>>

\* The batch is through, or `if is_cancelled(signal) { break; }`.
LeaveCalls ==
  /\ pc = "next" /\ (cur > NumCalls \/ cancelled)
  /\ pc' = IF mode = "sequential" THEN "returned" ELSE "await"
  /\ UNCHANGED <<kind, mode, cur, cancelled, task, entries, finalized,
                 started, ends, late>>

\* biased select on the pre_tool_use future: the token wins.  The sequential
\* executor goes on to the next call, the parallel one breaks.
HookCancelled ==
  /\ pc = "hook" /\ cancelled
  /\ EndWithoutRunning(cur, "cancelled")
  /\ IF mode = "sequential"
       THEN pc' = "next" /\ cur' = cur + 1
       ELSE pc' = "await" /\ UNCHANGED cur
  /\ UNCHANGED <<kind, mode, cancelled, task, started, late>>

HookBlocks ==
  /\ pc = "hook" /\ ~cancelled
  /\ EndWithoutRunning(cur, "blocked")
  /\ pc' = "next"
  /\ cur' = cur + 1
  /\ UNCHANGED <<kind, mode, cancelled, task, started, late>>

\* The sequential executor polls the tool itself; the parallel one spawns a
\* task that first waits for a permit.
HookAllows ==
  /\ pc = "hook" /\ ~cancelled
  /\ IF mode = "sequential"
       THEN /\ task' = [task EXCEPT ![cur] = "running"]
            /\ pc' = "exec"
            /\ UNCHANGED <<cur, entries>>
       ELSE /\ task' = [task EXCEPT ![cur] = "queued"]
            /\ PushEntry(cur, "pending")
            /\ pc' = "next"
            /\ cur' = cur + 1
  /\ UNCHANGED <<kind, mode, cancelled, finalized, started, ends, late>>

-----------------------------------------------------------------------------
(* execute_single_tool, once the hook let the call through.                *)

FinishSequential(f) ==
  /\ finalized' = Append(finalized, f)
  /\ EmitEnd(cur)
  /\ pc' = "next"
  /\ cur' = cur + 1
  /\ UNCHANGED <<kind, mode, cancelled, entries, started, late>>

\* The token wins the biased select and the tool's future is dropped.
ExecCancelled ==
  /\ pc = "exec" /\ cancelled
  /\ task' = [task EXCEPT ![cur] = "dropped"]
  /\ FinishSequential(MakeErrorFinalized(cur, "cancelled"))

ExecReturns ==
  /\ pc = "exec" /\ ~cancelled
  /\ \E r \in ToolReturns :
       /\ task' = [task EXCEPT ![cur] = r]
       /\ \E f \in ApplyPostToolUse(Executed(cur, r)) : FinishSequential(f)

\* Nothing catches the panic of a tool the loop polls itself: it unwinds the
\* task of run_loop and the event stream closes without an AgentEnd.
ExecPanics ==
  /\ pc = "exec" /\ ~cancelled
  /\ task' = [task EXCEPT ![cur] = "panicked"]
  /\ pc' = "crashed"
  /\ UNCHANGED <<kind, mode, cur, cancelled, entries, finalized, started,
                 ends, late>>

-----------------------------------------------------------------------------
(* execute_parallel, once every entry is prepared: the entries are awaited *)
(* in source order.                                                        *)

Awaited == entries[Len(finalized) + 1]

AwaitImmediate ==
  /\ pc = "await" /\ ~cancelled /\ Len(finalized) < Len(entries)
  /\ Awaited.way # "pending"
  /\ finalized' = Append(finalized, MakeErrorFinalized(Awaited.call, Awaited.way))
  /\ UNCHANGED <<kind, mode, pc, cur, cancelled, task, entries, started, ends,
                 late>>

\* The JoinHandle is ready: the result goes through the post hook, a panic
\* becomes an error result that does not.
AwaitJoined ==
  /\ pc = "await" /\ ~cancelled /\ Len(finalized) < Len(entries)
  /\ Awaited.way = "pending"
  /\ LET c == Awaited.call IN
       /\ \/ /\ task[c] \in ToolReturns
             /\ \E f \in ApplyPostToolUse(Executed(c, task[c])) :
                  finalized' = Append(finalized, f)
          \/ /\ task[c] = "panicked"
             /\ finalized' = Append(finalized, MakeErrorFinalized(c, "panicked"))
       /\ EmitEnd(c)
  /\ UNCHANGED <<kind, mode, pc, cur, cancelled, task, entries, started, late>>

(***************************************************************************)
(* The token is cancelled before an entry or while one is awaited: this    *)
(* entry and the rest are drained without waiting.  Immediate outcomes are *)
(* kept; a Pending handle is aborted and its call is reported cancelled,   *)
(* even if its task had already finished.                                  *)
(***************************************************************************)
Drained(k) ==
  MakeErrorFinalized(entries[k].call,
    IF entries[k].way = "pending" THEN "cancelled" ELSE entries[k].way)

\* Faulty variant: the entry at which the token was noticed is forgotten.
RemainingButOne == {k \in 1..Len(entries) : k > Len(finalized) + 1}

Remaining == {k \in 1..Len(entries) : k > Len(finalized)}
AbortedNow == {c \in Calls : \E k \in Remaining :
                                entries[k].call = c /\ entries[k].way = "pending"}

\* JoinHandle::abort only reaches a task at its next await point.
Abort(s) ==
  CASE s = "queued"  -> "abortingQueued"
    [] s = "running" -> "abortingRunning"
    [] OTHER         -> s

\* Faulty variant: the handles are dropped, which detaches the tasks.
DropHandles == task

AbortHandles == [c \in Calls |-> IF c \in AbortedNow THEN Abort(task[c]) ELSE task[c]]

DrainCancelled ==
  /\ pc = "await" /\ cancelled /\ Len(finalized) < Len(entries)
  /\ finalized' = [k \in 1..Len(entries) |->
                     IF k <= Len(finalized) THEN finalized[k] ELSE Drained(k)]
  /\ ends' = [c \in Calls |-> IF c \in AbortedNow THEN ends[c] + 1 ELSE ends[c]]
  /\ task' = AbortHandles
  /\ UNCHANGED <<kind, mode, pc, cur, cancelled, entries, started, late>>

ReturnResults ==
  /\ pc = "await" /\ Len(finalized) = Len(entries)
  /\ pc' = "returned"
  /\ UNCHANGED <<kind, mode, cur, cancelled, task, entries, finalized, started,
                 ends, late>>

-----------------------------------------------------------------------------
(* The spawned tasks, and whoever holds a clone of the token.              *)

\* Faulty variant: a panic keeps the permit.
HoldsPermitAfterPanic(c) ==
  mode = "parallel" /\ task[c] \in {"running", "abortingRunning", "panicked"}

HoldsPermit(c) ==
  mode = "parallel" /\ task[c] \in {"running", "abortingRunning"}
FreePermits == Permits - Cardinality({c \in Calls : HoldsPermit(c)})

SetTask(c, s) ==
  /\ task' = [task EXCEPT ![c] = s]
  /\ UNCHANGED <<loopVars, cancelled, late>>

\* Also a task whose abort has not reached it yet.
TaskStarts(c) ==
  /\ mode = "parallel" /\ FreePermits > 0
  /\ \/ task[c] = "queued" /\ SetTask(c, "running")
     \/ task[c] = "abortingQueued" /\ SetTask(c, "abortingRunning")

TaskReturns(c) ==
  /\ mode = "parallel" /\ task[c] = "running"
  /\ \E r \in ToolReturns : SetTask(c, r)

TaskPanics(c) ==
  /\ mode = "parallel" /\ task[c] = "running"
  /\ SetTask(c, "panicked")

TaskDropped(c) ==
  /\ task[c] \in Aborting
  /\ SetTask(c, "dropped")

\* on_update: a ToolExecutionUpdate from inside execute().
TaskUpdates(c) ==
  /\ task[c] \in {"running", "abortingRunning"}
  /\ late' = IF ends[c] > 0 THEN late \cup {c} ELSE late
  /\ UNCHANGED <<loopVars, cancelled, task>>

Cancel ==
  /\ cancelled' = TRUE
  /\ UNCHANGED <<loopVars, task, late>>

-----------------------------------------------------------------------------
Sequentially == ExecCancelled \/ ExecReturns \/ ExecPanics
InParallel == AwaitImmediate \/ AwaitJoined \/ DrainCancelled \/ ReturnResults
Loop == \/ StartCall \/ LeaveCalls \/ HookCancelled \/ HookBlocks \/ HookAllows
        \/ Sequentially \/ InParallel
Task(c) == TaskStarts(c) \/ TaskReturns(c) \/ TaskPanics(c) \/ TaskDropped(c)
           \/ TaskUpdates(c)

\* A batch that has returned and whose tasks are gone stays as it is.
Finished ==
  /\ pc \in {"returned", "crashed"}
  /\ UNCHANGED vars

Next == Loop \/ (\E c \in Calls : Task(c)) \/ Cancel \/ Finished

Spec == Init /\ [][Next]_vars

(***************************************************************************)
(* The runtime polls the loop's task when a future it awaits is ready.  It *)
(* says nothing of the hook (an approval a user may never give), of the    *)
(* tools (one may never return), or of anybody cancelling.                 *)
(***************************************************************************)
PolledWhenReady == StartCall \/ LeaveCalls \/ HookCancelled \/ ExecCancelled
                   \/ InParallel

FairSpec == Spec /\ WF_vars(PolledWhenReady)

-----------------------------------------------------------------------------
\* The locals of the executors and the states of the tasks have their types.
TypeOK ==
  /\ kind \in [Calls -> ToolKinds]
  /\ mode \in {"sequential", "parallel"}
  /\ pc \in {"next", "hook", "exec", "await", "returned", "crashed"}
  /\ cur \in 1..(NumCalls + 1)
  /\ cancelled \in BOOLEAN
  /\ task \in [Calls -> TaskStates]
  /\ entries \in Seq(PreparedEntry)
  /\ finalized \in Seq(Finalized)
  /\ started \subseteq Calls
  /\ ends \in [Calls -> Nat]
  /\ late \subseteq Calls

(***************************************************************************)
(* When the batch returns, what the model and the listeners of the event   *)
(* stream were told agrees: the results answer the first calls of the      *)
(* message in source order, each exactly once; exactly the answered calls  *)
(* had a ToolExecutionStart, each followed by exactly one                  *)
(* ToolExecutionEnd; and only a cancelled batch leaves calls unanswered.   *)
(* The two executors, the hook's break and the drain after a cancellation  *)
(* all have to keep it.                                                    *)
(***************************************************************************)
StartsEndsAndResultsAgree ==
  pc = "returned" =>
    /\ \A k \in 1..Len(finalized) : finalized[k].call = k
    /\ started = 1..Len(finalized)
    /\ \A c \in Calls : ends[c] = IF c \in started THEN 1 ELSE 0
    /\ Len(finalized) = NumCalls \/ cancelled

(***************************************************************************)
(* Once run_loop has the results, no tool of the batch is still at work    *)
(* unasked: every spawned task was joined, or told to abort.  A task       *)
(* forgotten by one of the three ways out of the executors would go on     *)
(* editing files behind the next model turn.                               *)
(***************************************************************************)
NoToolOutlivesItsBatch ==
  pc \in {"returned", "crashed"} => \A c \in Calls : task[c] \notin Active

(***************************************************************************)
(* A tool registered as Sequential ("one tool call at a time",             *)
(* docs/core/README.md) never runs beside another tool of its batch.       *)
(***************************************************************************)
SequentialToolRunsAlone ==
  \A c, d \in Calls :
    (c # d /\ kind[c] = "sequential" /\ task[c] \in Active)
      => task[d] \notin Active \cup Aborting

(***************************************************************************)
(* A listener sees a ToolExecutionUpdate after a call's ToolExecutionEnd   *)
(* only for a parallel call the cancellation overtook.                     *)
(***************************************************************************)
LateUpdatesOnlyAfterAbort ==
  \A c \in late : cancelled /\ mode = "parallel" /\ task[c] \notin Active

(***************************************************************************)
(* What run_loop may rely on once it has the results: nothing of the batch *)
(* still runs, and an update that comes after its call's end event is from *)
(* a parallel call that a cancellation aborted.                            *)
(***************************************************************************)
ToolsEndInTime ==
  /\ TypeOK
  /\ NoToolOutlivesItsBatch
  /\ LateUpdatesOnlyAfterAbort

(***************************************************************************)
(* Cancelling ends the batch, although neither the permission hook nor the *)
(* tools ever answer again.                                                *)
(***************************************************************************)
CancelEndsBatch == cancelled ~> pc \in {"returned", "crashed"}

(***************************************************************************)
(* Uncancelled, a batch comes back too, however many calls wait for how    *)
(* few permits, and whatever panics, if a user answers the hook, the tools *)
(* return, and the runtime serves the tasks that wait for a permit.        *)
(***************************************************************************)
Cooperation ==
  /\ WF_vars(HookBlocks \/ HookAllows)
  /\ WF_vars(ExecReturns \/ ExecPanics)
  /\ \A c \in Calls : /\ WF_vars(TaskStarts(c))
                      /\ WF_vars(TaskReturns(c) \/ TaskPanics(c))
                      /\ WF_vars(TaskDropped(c))
EveryBatchEnds == Cooperation => <>(pc \in {"returned", "crashed"})

(***************************************************************************)
(* A batch returns to run_loop: after a cancellation whatever its hooks    *)
(* and tools do, and otherwise if they answer.                             *)
(***************************************************************************)
BatchEnds ==
  /\ CancelEndsBatch
  /\ EveryBatchEnds

(***************************************************************************)
(* The batch keeps the contract run_loop relies on.                        *)
(***************************************************************************)
Contract == INSTANCE BatchContract WITH
  phase     <- IF pc \in {"returned", "crashed"} THEN pc ELSE "running",
  signalled <- cancelled,
  answered  <- IF pc = "returned"
                 THEN [k \in 1..Len(finalized) |-> finalized[k].call]
                 ELSE <<>>,
  stops     <- pc = "returned" /\ ShouldTerminateBatch(finalized)

KeepsContract == Contract!ContractSpec
=============================================================================
