# Rózsa in TLA+

A verification project for Rózsa, a coding agent in Rust: what its agent loop,
tools, providers, sessions, subagents, approvals, GUI, dashboards and stores do
when users, models, failures and the scheduler interleave. Each module translates
the code it names in its header; `PROJECT.json` maps every definition to its lines,
about a third of the implementation.

Contents: [the system](#the-system), [the plan](#the-plan),
[modules and code](#modules-and-code), [the runs](#the-runs),
[bounds](#bounds), [fairness and deadlock](#fairness-and-deadlock),
[what is proved](#what-is-proved), [what is only checked](#what-is-only-checked),
[disagreements](#disagreements-found), [observations](#other-observations),
[what is not modelled](#what-is-not-modelled).

## The system

Five crates, each using the ones below it:

    rozsa-cli, rozsa-gui     tabs, commands, approvals; the process
        rozsa-app            sessions, compaction, tools, subagents, permissions,
                             settings, model configuration, dev-flow
            rozsa-core       the agent loop and the tool executors
                rozsa-model  providers, streams, credentials

A prompt typed in a tab reaches `AgentSession::prompt`, which claims the
session, writes the prompt to the session file and starts `run_loop`. The loop
asks the model through an event stream, which a provider fills from its protocol,
executes the tool calls of the answer through hooks (edit mode, permission policy,
approval by the user), and goes round until the model has nothing more to call, the
turns are used up, or the run is cancelled. Its events go to the session, which
broadcasts them to the GUI; when the run has ended the session writes what
`AgentEnd` reported and may compact. A tool call may start subagents, each with an
agent loop of its own. Beside this, the program keeps stores of its own (sessions,
credentials, model configuration, settings) and, for projects that have one, a
dashboard process per project.

### Components

| Component | State | Operations | Talks to | Hard about it | Correct when |
|---|---|---|---|---|---|
| agent loop (`rozsa-core/agent_loop.rs`) | transcript, messages added, pending messages, turn count, retry flag | `agent_loop`, `agent_loop_continue`; a turn: drain, call, stream, tools, stop | provider stream, tool batch, queues, token, event channel | cancellation at any await, streams that fail or stop short, messages queued meanwhile, one retry | every model call is answerable; the report is what was added; a queued message is heard once; cancelling ends it |
| tool batch (same file) | entries, handles, permits, results | `execute_sequential`, `execute_parallel`, `execute_single_tool` | tools, hooks, semaphore, token | ten tasks in parallel, panics, aborts that take effect late | results, starts and ends agree; no tool outlives its batch; it returns |
| file tools (`rozsa-app/tools`) | locks by path | write, edit | file system | parallel calls, shared temporary files, aborts | files are whole; no edit is lost |
| providers (`rozsa-model/providers`) | decoder, request | stream, payload | servers, loop | interleaved parts, torn connections, refusals, four pairing rules | the loop hears a well-formed stream of what was said; a request pairs results with calls |
| agent session (`agent_session.rs`) | running slot, token, memory, queues, compaction flag | `prompt`, `continue_session`, `steer`, `follow_up`, `abort`, `compact` | loop, session file, compaction, GUI | callers on other tasks, each step able to fail, restarts | one run at a time; the slot comes back; memory, file and prompts tell one story |
| session file (`session/manager.rs`) | JSONL file; entries by id; leaf | open, append, name, set_cwd, delete | session, GUI | crash in a write, two managers on one file | what was appended stays, on one branch |
| compaction (`compaction/mod.rs`) | none (a plan) | `prepare_with_context`, `execute` | session, summarising model | weights, tool pairs, repeated cuts | results keep their call; the kept tail fits |
| subagents (`subagent/*.rs`, `tools/subagent.rs`) | status, history, token; the manager's mutex | spawn, send, wait, abort | loops, drains, the tool | status set by three parties, tasks that outlast their caller | abort is final and reaches every loop; the mutex comes back |
| approvals and questions (`permissions`, `run.rs`, `state.rs`, `commands.rs`, `events.rs`) | senders, contexts, rules | hook, listener, respond, prepare, deny | tool hook, GUI, settings | registration in two places, answers racing cancellations | the user can answer; nobody waits for nobody; a call runs with permission only |
| GUI sessions (`rozsa-gui`) | tabs, live views, FIFO of messages, snapshots | send, queue, steer, advance, stop, switch, fork | session, broadcast channel | events behind commands, positions kept over awaits | a tab shows its file; what is queued is heard; the screen catches up |
| stores (`credentials.rs`, `model_registry`, `settings`) | auth.json and its lock, configuration files, private environment, two layers of settings | refresh, login, logout, migrate, learn, choose, trust | network, GUI, sessions | read-change-write by several, crashes | no token, key, effort or choice is lost |
| dev-flow (`dev_flow/*.rs`, `rozsa-gui/dev_flow.rs`) | sessions, services, children, snapshots | associate, start, sweep, probe, reclaim, reconfigure, subscribe | git, child processes, HTTP | awaits everywhere, outside clients, reconnection | one dashboard each, none left behind, none in use reclaimed, what is shown is current |

`PROJECT.json` lists every component with its files and its status, and the
hazards at the lines where they bite, each with the properties that cover it.

## The plan

1. **The core**: `ToolBatch`, `BatchContract`, `AgentLoop`. *Checked; safety proved.*
2. **Subagents**: `SubagentManager`. *Checked; safety proved.*
3. **Sessions**: `SessionBranch`, `CompactionHistory`, `AgentSession`. *Checked; safety
   and action properties proved.*
4. **Files**: `SessionLog`, `FileTools`. *Checked; safety and action properties proved.*
5. **Approvals**: `Permissions`, `Approvals`. *Checked; safety and action properties
   proved.*
6. **The GUI's sessions**: `LiveView`, `SessionTabs`. *Checked; safety proved.*
7. **Providers**: `StreamDecoders`, `AssistantStream`, `ModelRequests`,
   `ModelTurns`. *Checked.*
8. **Stores**: `Credentials`, `ModelConfig`, `Settings`. *Checked; invariants and what
   writers keep proved.*
9. **dev-flow**: `DevFlowDiscovery`, `DevFlowRegistry`, `DashboardFeed`. *Checked.*

Left are proofs: those of `ModelTurns` (`RequestsPairCalls`) and `DevFlowRegistry`
(`OneDashboardEach`, `NoneIsLeftBehind`). `DashboardFeed` has a RECURSIVE operator and
stays with TLC.

## Modules and code

**ToolBatch** — one call of `execute_tool_batch`. A step is the code between two
points that read something another task or thread writes. `StartCall`,
`HookCancelled`, `HookBlocks`, `HookAllows` are the head of the loop over calls
in both executors; `Exec*` is the tool that `execute_single_tool` awaits inline;
`Await*`, `DrainCancelled`, `ReturnResults` the joining half of
`execute_parallel`; `Task*` the spawned tasks. `JoinHandle::abort` is modelled as
what it is: a request that takes effect at the task's next await, up to which the
task may still emit an update. A biased `select!` on the token is a guard
`~cancelled` on its other branches.

**BatchContract**, **BatchAnswers** — what a batch promises: one result per call
of a prefix in source order, a proper prefix only if cancelled. `ToolBatch`
implements it (`KeepsContract`); `AgentLoop` uses the same `Answers` for its step
`RunTools`, so the two levels cannot drift apart.

**AgentLoop** — `run_loop`, `stream_assistant_response` and the two entry points.
`pc` is the place in the function; `context`, `newMessages`, `pending`, `hasMore`,
`firstTurn`, `turnCount`, `authRetried` are its locals; `partial` and `added` the
stream's. The queues are filled by `Steer` and `FollowUp` on another thread.
Events are kept as what a listener that folds them knows: open turns, an open
message, the messages of `AgentEnd`. A message is its role, why it stopped and
how many calls it carries.

**SubagentManager** — the runtimes, the tool call that holds the manager's mutex
(`call`), and per prompt a run: loop, event stream, drain. What happens under a
runtime's mutex without an await is one step. The watch channel keeps its value
when nobody is subscribed, as tokio's does.

**SessionBranch** — pure operators on the branch of a session file: which messages
the agent is given after the latest compaction, and where `CompactionEngine` cuts.
The loop of `adjust_to_safe_boundary` is stated as what it computes, the last
position up to the raw cut that is not inside an exchange (or the first).

**CompactionHistory** — a branch that grows by messages, metadata and whole tool
exchanges (`persist_new_messages` writes them under one lock) and is compacted
again and again, which only appends.

**AgentSession** — one session object and its callers. A task is a call of
`prompt` or `continue_session`; `pc` follows it through claim, token, append of the
prompt, context, configuration, loop, persist, auto-compaction and release, with
a step for every error return. `stage` and `snapshot` follow a compaction, by a
task or by a separate caller. `Restart` ends the process at any step, within a
persist too, and reopens the file. The loop is abstract: it drains queues, adds
answers and complete tool exchanges, reports all of it or dies.

**SessionLog** — one session file, its two managers (the agent's, and a helper
that the GUI opens for a rename or to report a failed prompt) and what each knows.
A line is written as the code writes it, the entry and then its end of line;
`Refill` is `set_cwd`; `Cut` and `Crash` end the process within a write. The
automatic name is asked for, arrives and is checked in steps of its own.

**FileTools** — concurrent calls of `write` and `edit`: `Lock`, `ReadFile`, `OpenTemp`,
`FillTemp`, `Rename`, with their failures. Places name files by number, so that a
rename moves what another call still has open. `Abort` drops the call's future:
the lock is free at once, the operation in the blocking pool is carried out.

**Permissions** — rules, patterns and verdicts: the hardcoded block, safe reads, deny,
ask and allow, the splitting of a compound command, and the rule a trust becomes. It
is pure; the tables of the code are cut to an example of each kind.

**Approvals** — the hook (`StartCall` and what follows it), the question tool, the
listeners that make a request visible, the commands `respond`, `prepare` and `deny`,
and the tasks that deny a session's requests when its prompt ends. A call waits on a
one-shot channel. Commands take the steps they take between locks.

**LiveView**, **SessionTabs** — `LiveView` is `LiveState::apply_event` and what is
read from a session file, as operators. `SessionTabs` has the tabs, the commands (new,
switch, fork, send, queue, steer, stop), the chain of prompts each message starts,
the forwarder with its bounded broadcast channel, and the snapshots. Mishaps the
code does not survive are recorded as history (`mishaps`), so that a property can
say what it holds in spite of: events lost to a forwarder that was not there or lagged
(`"missed"`, `"lagged"`), the start of a run applied when the run is over (`"late"`), a
message queued when no prompt is at work any more (`"stale"`) or for one whose sending
then fails (`"unsent"`), a second chain in a session (`"double"`), and so on.

**StreamDecoders**, **AssistantStream** — each provider's decoder as a record and one
operator per event of the server; what a stream promises the loop, as an abstract
specification, which the four are shown to implement (`StreamsKeepTheContract`).

**ModelRequests**, **ModelTurns** — the conversation as each protocol puts it in a
request; and the turns: request, retries, the server's blocks and parts in any order
its protocol allows, torn and closed connections, cancellation, the loop, the tools,
the next request. `Request` is evaluated for every provider at each request, since a
user may change the model.

**Credentials** — key resolution with refresh, the browser login with its callback
server, and logout, as calls of several processes on one `auth.json` and its lock
file. Tokens are numbered as they are issued; a refresh may rotate.

**ModelConfig** — threads that load and migrate a configuration file (value into the
private environment by a temporary file, reference into the file), streams that try
the wordings of a thinking effort, and what they store. The user edits; the process
restarts.

**Settings** — two layers and the runtime settings resolved from them, the commands
that choose, override a capability, set rules or trust, with their reads, writes and
changes of memory as steps; restart and reload.

**DevFlowDiscovery**, **DevFlowRegistry**, **DashboardFeed** — which executable and
which project; the registry's calls as jobs that give way where the code awaits, with
children that answer, end by themselves, or have outside clients, and the runtime
above it (session commands, keeper, reconfiguration); the connection loop of one
dashboard, over fetches of three documents and an event stream read in pieces.

**Absent** declares the value `None` for the modules that share it.

**Selection** — `Kept`, the filter of Rust's iterators over a sequence, as a recursive
function that the provers can expand.

`MC*.tla` hold the bounds that are not plain numbers; the `*Proofs.tla` and
`SelectionTheorems.tla` [the proofs](#what-is-proved). **Stores** brings the three
stores together for one run and one module of proofs. Definitions headed *Faulty variant* are plausible mistakes that the
mutants of `PROJECT.json` put in place of the definition after them to show that
each property would notice; no specification uses them.

## The runs

| Run | Configuration | Shows |
|---|---|---|
| `tool_batch` | `ToolBatch.cfg` | Three calls, both executors, two permits, hooks, panics, cancellation between any two steps. Results, start and end events agree; no tool outlives its batch unasked; sequential tools run alone; a late update comes from an aborted call only; a cancelled batch ends with no help; an uncancelled one ends if hooks and tools answer; it implements `BatchContract`. |
| `agent_loop` | `AgentLoop.cfg` | Up to three turns with failing, stopping and truncated streams, a refresh, queued messages and a cancel. Every model call has a transcript a provider accepts; `AgentEnd` reports exactly what was added; queued messages are heard once and in order; open calls only at the end and only for a reason; requests are bounded; cancelling ends the run; so do a provider and tools that answer. |
| `subagent` | `Subagent.cfg` | Three prompts to one subagent, with aborts, waits, dropped tool calls, panics and configuration errors at any point. Abort is final and ends every loop; Running is always being drained; a finished drain has recorded every reply; a joined send leaves the subagent not running; the mutex comes back if loops end. |
| `agent_session` | `AgentSession.cfg` | Two tasks and two other calls (steer, follow-up, abort, compact, restart), with every write, configuration and loop able to fail. One run at a time with its own token; the slot is held by a task; each run is on file once, in order, whole or as a prefix; results follow their calls in memory, prompts and file; at rest, memory and file agree. |
| `files` | `Files.cfg` | *The session file* under two managers: a confirmed entry stays, whoever reopens is on the last writer's branch, a user's name wins over the automatic one, a deleted file does not come back. *The branch* under compaction: a result the agent is given has its call, what one compaction forgot no later one brings back, the kept tail weighs enough and no more than one entry and its exchange. *Working files* under three calls of write and edit: whole at every moment, and no edit lost, where one spelling is used and no call was aborted. |
| `approvals` | `Approvals.cfg` | Two sessions, one with a subagent, commands, questions, a denied and a compound command, two commands of the user at once. Every waiting call can be answered, by its own session only and once; a call runs only with permission; a prompt's end leaves nobody waiting; trust widens verdicts only where its rule matches. |
| `session_tabs` | `SessionTabs.cfg` | Three sessions, two messages, two incidents. An idle tab shows its file; its interaction is over; what was queued is heard, unless a mishap of its own (`Unheard`) stranded it; what is shown as steered is still to be heard; the screen catches up. |
| `model_turns` | `ModelTurns.cfg` | The four protocols, two prompts and what follows. A well-formed stream; a finished message holds what was said and had a reason to stop; tools get whole arguments; each request has every result once, behind its call; finished calls are answered; requests end. |
| `stores` | `Stores.cfg` | *Credentials*: a stored refresh token works, the lock is released, a write changes another's credential only where it was stale, a login uses its own code. *Model configuration*: a reference leads to the user's key, values are only added, learning keeps the rest, only a refusal disables. *Settings*: choices, unknown keys and trust are kept, the controller follows the files. |
| `dev_flow` | `DevFlow.cfg` | Two calls with sweeps and probes between, over two sessions and three projects. One dashboard each, none left behind, none in use reclaimed or killed under an outside client, a probe puts the selected session right. *The feed*: a snapshot not marked stale is current, errors are of losses, a detail is of what was seen. |
| `session_persist`, `settings_leak` | `SessionPersist.cfg`, `SettingsLeak.cfg` | One violated statement of a document or comment each: [below](#disagreements-found). |

`files`, `stores` and `dev_flow` check components that share no state side by side: one
of them moves in a behaviour, the others stay at their start.

A run lists few properties, most of them conjunctions of the named parts a module
states one by one, and the tables and texts here speak of the parts:

| Property of the run | Its parts |
|---|---|
| `ToolsEndInTime` | `TypeOK`, `NoToolOutlivesItsBatch`, `LateUpdatesOnlyAfterAbort` |
| `BatchEnds`, `RunEnds` | `CancelEndsBatch`, `EveryBatchEnds`; `CancelEndsRun`, `EveryRunEnds` |
| `RunInvariant` | `TypeOK`, `ReportIsWhatTheRunAdded`, `ReportedCallsAreAnswered`, `RequestsAreBounded` |
| `StatusFollowsTheDrain` | `TypeOK`, `RunningIsDrained`, `JoinedIsNotRunning` |
| `AbortsAndCallsEnd` | `AbortEndsItsLoops`, `MutexComesBack` |
| `SessionInvariant` | `TypeOK`, `OneRunAndItsToken`, `SlotIsHeldByATask` |
| `HistoryInvariant` | `RunsAreOnFile`, `ResultsFollowTheirCall` |
| `LogInvariant` | `LogTypeOK`, `ConfirmedStays`, `ReopenedIsTheBranch`, `ManualRenameWins`, `DeletedStaysDeleted` |
| `BranchInvariant`, `CutsAreRight` | `TypeOK`, `ResultsFollowTheirCall`; `CompactionOnlyForgets`, `KeptTailFits` |
| `FilesInvariant` | `FilesTypeOK`, `FilesAreWhole` |
| `ApprovalInvariant`, `TrustIsNarrow` | `TypeOK`, `UserCanAnswer`, `RunsWithPermission`; `PartsAreAllowed`, `TrustOnlyWidens` |
| `IdleTabIsTrue`, `WaitingIsHeard` | `ViewIsTheFile`, `InteractionIsOver`; `TypeOK`, `QueuedIsHeard`, `SteeringShownIsWaiting` |
| `HeardIsSaid` | `DoneIsWhatWasSaid`, `DoneMeansFinished`, `ToolsGetWhatWasSaid` |
| `RequestsArePaired` | `TypeOK`, `RequestsPairCalls`, `FinishedCallsAreAnswered` |
| `CredentialsInvariant` | `CredTypeOK`, `StoredRefreshWorks`, `LockIsReleased`, `OnlyItsOwnCodeIsExchanged` |
| `ConfigInvariant` | `ConfigTypeOK`, `KeyIsTheUsers`, `OnlyRefusedIsDisabled` |
| `SettingsInvariant` | `SettingsTypeOK`, `ChosenIsKept`, `UnknownKeysSurvive`, `TrustIsKept`, `ControllerFollowsTheFiles` |
| `WritersKeepTheRest` | `OnlyStaleWritersLose`, `ValuesAreOnlyAdded`, `LearningKeepsTheRest` |
| `RegistryInvariant` | `TypeOK`, `OneDashboardEach`, `NoneIsLeftBehind`, `WaitedForIsThere` |
| `KeeperInvariant` | `RunningIsProtected`, `ProbeSettles` |
| `FeedInvariant` | `FeedTypeOK`, `UnmarkedIsCurrent`, `ErrorIsOfALoss`, `DetailIsOfWhatWasSeen` |

## Bounds

- `tool_batch`: three calls let one be cancelled with a finished and an unstarted
  neighbour; two permits make one of three tasks wait. Proved for all numbers.
- `agent_loop`: two calls per message distinguish all, some and none answered;
  three turns let a retry, a queued message and a stop by `max_turns` (200 and 100
  in the program) fall in different turns; one message per queue is enough for
  "once" and "in order" across the two queues; three transcripts to start from
  cover a fresh run, one that may be continued and one that may not.
- `subagent`: three prompts are the least for two loops at once (a prompt between
  `AgentEnd` and the close of the old stream, and one after the old drain's tail).
  One subagent, since subagents share the mutex and the limit only.
- `agent_session`: two tasks, two turns, two other calls; all weights 1, threshold
  2 and target 1, so the first answer already triggers auto-compaction. Two other
  calls admit every pair, such as a compaction and a restart within it.
- `files`: three entries and two incidents let a line be torn, another be appended
  behind it and the file be opened again, or a helper come between two appends.
  Six entries hold a two-result exchange, a compaction, a message and a second
  compaction (for longer branches there is the proof); weights 1 and 2 with threshold 4 and target 2 put the raw cut on every
  kind of entry. Three calls over two spellings of one file, a file that shares
  their temporary name, that temporary file itself as a path, and a file that shares
  nothing; one failure or abort.
- `approvals`: one call per agent, two commands in two slots, so that an answer can
  cross a trust, a preparation, an abort or another answer; the samples hold a part
  of each verdict.
- `session_tabs`: two messages are the least for a queue and for two chains; two
  incidents for a switch and what it crosses. A channel of 6 events (2048 in the
  program) lags when the forwarder is not scheduled through two runs.
- `model_turns`: two blocks of two parts can be interleaved and torn between parts;
  one retry.
- `stores`: two callers each; four tokens, so that both providers' can be refreshed
  once, and one lost reply, failed write, crash or logout of `auth.json`; two keys and
  files, two efforts and three wordings (with an alternative for one), two edits,
  failures or restarts of the configuration; three commands of settings, two at a time.
- `dev_flow`: two calls, three children, one incident, room for one dashboard, a
  window of one tick, so that a sweep has something to reclaim; two changes and two
  faults of the feed, whose documents are three as in the program.

## Fairness and deadlock

Fairness is only what the runtime gives: a task whose awaited future is ready is
polled. So the loop's own steps are weakly fair, and the cancelled branch of a
`select!` is, because `CancellationToken` wakes it. Nothing is assumed of a
provider, a tool, or a user at a permission prompt in `CancelEndsBatch`,
`CancelEndsRun`, `AbortEndsItsLoops` and `NobodyWaitsForever`. Where a property does
need them, they are its hypothesis (`Cooperation => ...`, `LoopsEnd => ...`), not part
of the specification. `FairSpec` of `SubagentManager` lets a cancelled loop end, which
is `CancelEndsRun` of `AgentLoop`. `ModelTurns` assumes that the loop and the tools go
on and that a request ends in time: the shared HTTP client has a timeout of 300
seconds, Bedrock's has none, and `RequestsEnd` leaves it out.

The other runs state safety only and assume no fairness; what must have happened
"at last" is an invariant of the states in which nobody is at work. Deadlock is
checked for the batch and the loop, which stay as they are when over. It is off for
the others, which really stop: the bounded prompts, calls or entries are used up.

## What is proved

Every safety invariant and action property of `tool_batch`, `agent_loop`, `subagent`,
`agent_session`, `files`, `approvals`, `session_tabs` and `stores`, for every value of the constants that the modules' assumptions admit. The
assumptions say of what kind the constants are (numbers, sets that do not share
members), and a few things the code does say: the weight of an entry is a number
(`HistoryAssumption`), transcripts to start from are paired (`LoopAssumption`), there is
a wording for every effort and a map's entry is one of them (`ConfigAssumption`), a
shell request has its text (`RequestAssumption`). The bounds of the runs are constants
too, so that each theorem is for any number of calls, messages, failures and restarts.

Each module proves one inductive invariant (`Init` implies it, every step keeps it) and
derives from it what the runs check. Why the properties are not inductive as they stand,
and what is added:

**ToolBatchProofs** — `BatchInvariant`, `TypeCorrect`, `NoneOutlives`,
`LateOnlyAfterAbort`, `ToolsEnd`, `ResultsAgree`, `RunsAlone`, and the refinement
`BatchKeepsContract`. `StartsEndsAndResultsAgree` speaks of a returned batch. `IInv`
adds how far each executor has come: where each may stand (`Places`); entries and
results belong to calls 1, 2, ... (`InOrder`); how their numbers relate to `cur`
and what a shorter sequence implies about the token (`Progress`); which calls have
been started and ended in terms of those lengths (`Starts`, `Ends`); which tasks
may be active or aborting (`Tasks`); who may have updated late (`Late`). The refinement
needs `IInv` for one step, the return of a batch, whose results must be an element of
`Answers`.

**SelectionTheorems** — what `Kept` returns: `KeptMembers`, `KeptConcat`, `KeptTwice`,
`KeptBehind` (an element that stands behind its partner still does) and others, which the
proofs about sessions, the loop and model configuration rest on. The library's induction
theorems cannot be used, since they take an operator; `SetInduction` and
`SequenceInduction` are stated with a set in place of the predicate, and proved from
the well-foundedness of < on Nat.

**LoopProofs** — `ReportsAreTheRuns`, `QueuedIsHeardOnce`, `RequestsAreAnswerable`.
`LoopIInv` has five layers: a turn is open, with a final message at its end, while
one is worked on; the run's own messages and its context are two records of one
transcript, but for a partial message (`TranscriptsAgree`); what a request costs
(`RequestsAreCounted`); what is pending comes from one queue and the heard, the pending
and the waiting are together what was sent (`QueuesAreTheirs`); and open calls are only
the last message's, while its tools run (`CallsAreAnswered`).

**SessionProofs** — `OneRunAtATime`, `FileTellsTheRuns`, `MemoryFollowsTheFile`.
`SessionIInv` has four layers, each resting on those before: types and whose the slot is
(`SlotIsOnes`: two tasks that may release it are one); results stand right behind their
calls in memory, file, contexts, prompts and in what is being persisted, and no cut comes
between them (`HistoryIsTight`); what a run has added and what of it is on file, by where
its task stands (`RunsAreWritten`); and that memory lags behind the file by a prompt at
most, and by the summary that is being put in, while no compaction went along with a run
and no persist failed (`MemoryFollows`).

**FilesProofs** — *working files*: `FilesStayWhole`, `EditsAreKept`. `FilesIInv` adds to
the types that who holds a lock is at work under it, that a file is at one place, that a
call that has opened nothing has left no file of its number, and how far a call has come
on a file that only the lock's holders touch. *The branch*: `BranchesStayWhole`,
`CutsGoForward`. A later compaction plans on the whole branch, so nothing in its plan
says that it cuts no earlier than the last one. `BranchIInv` has why: every cut on the
branch was in front of an entry outside of any exchange with a tail heavy enough, and
tails only grow. This rests on lemmas about sums over sets of positions, a fold that
takes them out in an order nobody knows (`WeightOfParts`, `TailsGrow`). *The session's
file*: `ConfirmedIsKept`. `LogIInv` says what holds at any time (`LogTypes`,
`FileIsTheirs`: while an agent has written nothing there is no file), and, as long as no
write met another, was cut short or lost its file, what can be trusted (`Trusted`): every
line of the file or of the copy that is being written anew is a whole entry or an end,
the last without its end only while a manager is about to write it (`Tidy`); with an entry
its parents are there, in the file and in what a manager knows (`Rooted`); an append in
progress is of the latest entry, behind its manager's leaf (`KnowsItsWay`); and the agent
knows every name on file, unless it was renamed behind its back (`Named`). A branch is a
recursive function; that it exists and does not change when entries are added beside it
is `ClimbingExists` and `SameBranch`, by `SetInduction`.

**ApprovalsProofs** — `CallsAreShownAndPermitted`, `EachIsAnsweredOnce`,
`TrustingIsNarrow`. `ApprovalIInv` adds to the types, which have the rules in memory to
be those of the start and keys the user trusted: only calls that were made are known to
anyone; a call that waits has a sender and, once shown, a context
(`WaitingAreAsked`); who has a sender is unanswered (`AskedAreUnanswered`); and what lets
a call run, is on its way to it or is about to be sent is permitted (`YesIsPermission`).
The last needs that trust never takes a permission away, the lemma `VerdictsWiden` about
`Evaluate`: with more rules to allow, a verdict changes only from asking to allowing.

**StoresProofs** — *model configuration*: `ConfigIsTheUsers`, `EnvironmentOnlyGrows`,
`LearnedEffortsAreKept`, by `ConfigIInv`: one thread at a time is under the mutex of the
environment file and under the lock, and what it is about to write is what is there with
its own added; a key is in the environment before a reference to it is written; an
effort about to be marked was refused in every wording. *Credentials*: `LoginsLast`, by
`CredIInv`: who writes has the lock; the copy of a call that writes is up to date for the
providers it does not write; a token is of one provider; what a call is about to write
works, unless it is behind; a dead token on file has a successor on its way. *Settings*: `SettingsAreWhatWasChosen`, by `SettingsIInv`: unknown keys are in
every copy at hand; a choice is on file or in the layer that is being written; the
controller has what memory allows and, between commands, what the files do.
`NobodyElsesIsLost` puts the action properties of the three together. *Subagents*, which share no state with the
stores and are proved in the same module: `ManagerInvariant`, `ManagerTypeCorrect`, `RunningDrained`,
`JoinedNotRunning`, `StatusFollows`, `RepliesKept`, `AbortFinal`. Added: ids and runs are
used in order (`Fresh`); a run has a subagent, and its stream is empty before it starts
and after it is finished (`Started`); what the call that holds the mutex is about
(`CallOk`); whose messages a stream and a history hold (`Origins`); and `Conserved`, that
a run's replies in its stream and in its subagent's history are together those its model
produced. `NoReplyIsLost` is `Conserved` for a run whose stream is empty.

**TabsProofs** — `TabsAreKept`, `WhatWaitsIsHeard`, `TabsAtRestAreTrue`,
`ScreensCatchUp`. What the run checks of a tab at rest says nothing of a tab whose
session is running and whose forwarder is behind; `TabsInvariant` has to. Per session it
says that only an active session has tasks and events (`OnlyActive`), that a prompt that
holds the session is the only one (`OneRun`), that a message is steered once and shown as
steered exactly while the agent or the tab has it still to hear (`SteeredOnce`,
`SteeringIsShown`), that messages are queued behind a chain or a prompt that will take
them (`OneChain`, `QueueIsTaken`), and that a tab shows an interaction as long as somebody
is at work (`InteractionLasts`). The heart is `ViewFollows`: there is a text that the view
will show once it has applied the events in its channel (`Telling`, which follows what
each kind of event does to a view, and cuts the turn that is not over), and that text is
the file's, with what the run has said and the file does not have yet (`Due`). Every step
of the run lengthens both or neither, every event applied moves one message from the
channel to the view, and at rest nothing is left between them. `AllAccounted` says of each
accepted message where it is, `ScreenIsTold` that a view that changed without being shown
has a snapshot on its way. The sessions, the messages and the capacity of a channel are
arbitrary (`TabsAssumption`: sets and numbers). The proof found that `QueuedIsHeard` was
not true of three messages, one more than the run has, where a send that fails strands
those queued behind it; the model now records that as the mishap it is.

## What is only checked

On the bounds above: `model_turns` and `dev_flow`. Three kinds of claim stay with TLC whatever is
proved later, since TLAPS does not reach them: liveness under fairness
(`CancelEndsBatch`, `EveryBatchEnds`, `CancelEndsRun`, `EveryRunEnds`,
`AbortEndsItsLoops`, `MutexComesBack`, `NobodyWaitsForever`, `RequestsEnd`), anything
with ENABLED, and `DashboardFeed`, which has a RECURSIVE operator.

## Disagreements found

Each is a run whose single property states what a document or a comment says.

- `session_persist`: steering and follow-up messages are never written.
- `settings_leak`: choosing a setting in a project with rules of its own writes them
  into the user's file, which is said to be manual only.

## Other observations

Met while modelling, with no run of their own. The models contain what is said here,
and the properties say what holds in spite of it.

**Agent loop and sessions**

- A cancellation at the head of a turn ends the run with its turn open, a retry opens
  a turn twice, and a stream that ends short leaves its message open
  (`agent_loop.rs:119`; `docs/core/README.md:216` gives a closed life cycle).
- A truncated last call whose arguments became null is kept and run with an empty
  object (`agent_loop.rs:222`, against the comment at 216).
- The retry after a refreshed credential is a `continue` of the inner loop. If only
  a steering message had kept that loop going, its condition is false by then and
  the run ends without the retry. The application passes no `get_api_key`, so it
  does not come up there.
- Messages drained from the steering queue are dropped when the token is found
  cancelled at the head of the next turn.
- A tool that panics in the sequential executor unwinds the run's task: there is no
  `AgentEnd`, and the session writes nothing of that run.
- A failed append of the prompt returns with the slot and the token still taken: the
  session refuses every further prompt (`agent_session.rs:553`).
- `abort()` between the claim of the slot and the token finds none and has no effect.
- A configuration error after the prompt's append leaves the prompt in the file and
  not in memory. The next run is not given it; a restart would be.
- A manual compaction that overlaps a run rebuilds memory from entries it read
  before: replies persisted meanwhile are missing until the next restart. This is
  why `MemoryIsTheBranch` sets compactions beside a run aside.
- `adjust_to_safe_boundary` moves back through every exchange, so a branch of one
  prompt and its tool uses is never compacted, and the error says it is below the
  threshold (`compaction/mod.rs:216`).
- Every compaction summarises the whole branch, what earlier ones removed included,
  and the summary is a custom message that `convert_to_llm` filters: the model is not
  given it. With a larger model selected in between, a later compaction may cut
  earlier than the last one; `CompactionOnlyForgets` has a fixed target.

**Subagents**

- The watch channel has no receiver, so `wait()` returns at once (`manager.rs:236`).
- A prompt is in a subagent's history twice (`manager.rs:288`).
- `AgentEnd` makes a subagent Idle before its stream has closed; a prompt in between
  can leave two loops at work (`manager.rs:576`).
- `MAX_ACTIVE_SUBAGENTS` is checked when one is created, not when one is prompted.

**Session file and file tools**

- An entry whose parent was torn starts a branch of its own, though the open skips
  the torn line. A prompt error written by the second manager forks the tree, and the
  running agent's next entry takes it off the branch. Entry and newline are two
  writes: two managers' lines can be glued together.
- `set_cwd` empties the file first: a crash leaves one that cannot be opened, a
  deletion in between brings it back, and entries appended meanwhile are lost.
- The lock of write and edit does not exclude two spellings of a file, and files of
  one stem share a temporary file, which may be a file of the user. `FilesAreWhole`
  and `EditsKeepWhatIsThere` are of files with neither (`OnlySpelling`).
- A turn's differences are merged in the order of its calls, while parallel edits of
  a file take its lock in any order and read their `before` outside it.

**Approvals**

- A prompt turned down because another runs denies the running prompt's approvals
  (`commands.rs:379`).
- A trust in "cargo test" becomes the rule `Bash(cargo test *)`, which does not match
  the command itself (`docs/gui/TERMINOLOGY.md:244`). `record_session_approval` has no
  caller. A failed save leaves the rule in memory and the call waiting.
- Contexts of aborted requests stay in the map.

**GUI**

- An `AgentStart` applied after the interaction has been finished leaves the tab
  streaming; a forwarder that starts after the first one drops the history from view
  at `AgentEnd`.
- A message accepted into a stale streaming state is never sent, and a message sent
  while a chain runs starts a second one, which takes queued messages and loses them.
- Stop clears the agent's steering queue and not what the tab lists as steered.
- A failed prompt of a background session puts its snapshot on the screen
  (`commands.rs:3571`, `TERMINOLOGY.md:161`).
- `UiSnapshot::build` takes two locks with `try_lock` and `unreachable!`: another
  holder at that moment panics the task. Not modelled.
- `delete_session` neither stops the agent nor adjusts the active tab; no view calls it.

**Providers**

- Calls of cancelled messages, of failed Bedrock and Responses messages, and calls
  dropped for length stay unanswered in later requests.
- A Responses stream cut before `completed` gives no terminal event, its `error` event
  is ignored, and of two text parts of a message the second is lost. Bedrock closed
  early is taken for finished, and an open call is run with no arguments. An empty
  Anthropic stream is a finished message, and a character split over two chunks is
  spoilt.
- A prompt of images only to a model that reads none is left out of a Completions
  request, which may then be empty.

**Stores**

- Two refreshes with rotation: the second is refused. A refresh writes back the whole
  file it read before the network; a token refreshed while the lock is held is lost. A
  lock left by a crash blocks every later write.
- A login has no timeout, and whatever connects to its port first fails it.
- A migration writes back a document it read before its lock: an effort learned
  meanwhile is lost. A new key for a provider whose generated variable exists is
  refused. The refresh of a models file drops the efforts learned in it.
- A project's `allow` list replaces the user's on load, so that the first trust in a
  project narrows the rules after a restart. Other project values leak into the user's
  file as the rules do. A trust overwritten in memory by a concurrent change of the
  rules is not honoured until the next reload.

**dev-flow**

- A session selected and started at once is marked active before the registry has
  bound it, and its dashboard may be reclaimed (`dev_flow.rs:294`).
- Dropping a registry kills children that outside clients use, which
  `DEV_FLOW_INTEGRATION.md:25` calls protected.
- A revived child has a cancelled connection loop: its snapshot is frozen and not
  marked stale. A service dropped without a shutdown leaves its loop retrying.
- A change while the first fetch is under way is missed unless the server greets a new
  stream with an update. The revision counter starts again with a new child.
- In a probe, a session whose start failed keeps the failure until the next probe,
  though a later one of the same project has started the dashboard.

## What is not modelled

- In modelled parts: message text, usage figures beyond one number, logging, event
  payloads; `switch_session` and `reload_messages`; the custom message of
  `execute_bash`; setters that store one value; read-only listings; fork of a session
  file; which text an edit matches and the deltas tools report; prices, images and
  caching marks of requests; the search for a free port; the Anthropic, Copilot and
  device-code logins, which the application does not call.
- `AgentSession` takes `abort` as one step, reads entries and usage figure in one
  step, takes the figure a provider reports to be the number of messages in the
  prompt, and lets a cancelled loop's last additions come before the cancel.
  `SessionLog` has two directories, ids that never collide and one step for the header
  of a new file. A write of a settings layer is one step. `DevFlowRegistry` takes the
  calls of one session's runs to come one after another.
- `prepare_next_turn` is taken to change nothing, as no configuration sets it;
  `should_stop_after_turn` is a free choice.
- `compact_active_session` holds the lock of all tabs through a model request; the GUI
  waits as long. Time is not in the model of the tabs, so this shows nowhere.
- Whole components, with the reason in `PROJECT.json`: parsing and formatting (skills,
  themes, resources, slash commands, argument coercion, file references), calls to the
  platform (native windows, child processes), the scope filter of subagents, the
  runtime state's counters and edit mode, and the JavaScript front end, which renders
  snapshots.
