--------------------------- MODULE SubagentManager ---------------------------
(***************************************************************************)
(* SubagentManager of crates/rozsa-app/src/subagent/manager.rs and the     *)
(* SubagentTool of tools/subagent.rs that calls it.  Every subagent has a  *)
(* runtime behind a mutex of its own; every prompt sent to one starts an   *)
(* agent loop, and a task that drains the loop's event stream into the     *)
(* runtime.  The tool holds the manager's mutex for as long as its call    *)
(* lasts, the waiting included; the loops and the drains go on meanwhile.  *)
(*                                                                         *)
(* The runtime's mutex is never held across an await, so what happens      *)
(* under it is one step.  The agent loop is taken as the source of its     *)
(* stream: the prompt, some replies, an AgentEnd unless it panics, and the *)
(* close of the channel when its last sender is dropped.                   *)
(***************************************************************************)
EXTENDS Integers, Sequences, FiniteSets

CONSTANTS
  MaxSpawned,   \* bound: subagents ever spawned
  MaxSent,      \* bound: prompts ever delivered, each by a run of its own
  MaxReplies,   \* bound: messages the model adds to one run
  MaxActive     \* MAX_ACTIVE_SUBAGENTS

ASSUME SubagentAssumption ==
  /\ MaxSpawned \in Nat /\ MaxSent \in Nat /\ MaxReplies \in Nat
  /\ MaxActive \in Nat \ {0}

Ids == 1..MaxSpawned
Runs == 1..MaxSent

Statuses == {"Idle", "Running", "Aborted", "Error"}

(***************************************************************************)
(* What a loop sends down its stream, and but for AgentEnd a history holds *)
(* too: the user's prompt of a run, a message of the model, the end.       *)
(***************************************************************************)
Prompt(r) == [from |-> "user", run |-> r]
Reply(r) == [from |-> "model", run |-> r]
AgentEnd(r) == [from |-> "loop", run |-> r]
Messages == [from : {"user", "model"}, run : Runs]
Events == [from : {"user", "model", "loop"}, run : Runs]

VARIABLES
  nextId,    \* SubagentManager.next_id
  status,    \* info.status of the runtime each id has, or "absent"
  watched,   \* the value in the runtime's watch channel
  history,   \* runtime.messages
  token,     \* runtime.cancel_token: the number of tokens made before it
  fired,     \* the tokens that were cancelled
  sent,      \* prompts delivered so far
  subagent,  \* whose each run is
  given,     \* the token each run was given
  loop,      \* the task of each run's agent_loop
  replies,   \* how many messages the model has added to each run
  stream,    \* the event stream from the loop to its drain
  drain,     \* the task of drain_subagent_stream
  call       \* the tool call that holds the manager's mutex

runtimeVars == <<status, watched, history, token, fired>>
runVars == <<sent, subagent, given, loop, replies, stream, drain>>
vars == <<nextId, runtimeVars, runVars, call>>

NoCall == [op |-> "free", id |-> 0, run |-> 0]
Sending(i) == [op |-> "send", id |-> i, run |-> 0]
Joining(i, r) == [op |-> "join", id |-> i, run |-> r]
WaitingFor(i) == [op |-> "wait", id |-> i, run |-> 0]

Spawned(i) == status[i] # "absent"
Running == {i \in Ids : status[i] = "Running"}

Init ==
  /\ nextId = 1
  /\ status = [i \in Ids |-> "absent"]
  /\ watched = [i \in Ids |-> "Idle"]
  /\ history = [i \in Ids |-> <<>>]
  /\ token = [i \in Ids |-> 0]
  /\ fired = {}
  /\ sent = 0
  /\ subagent = [r \in Runs |-> 0]
  /\ given = [r \in Runs |-> 0]
  /\ loop = [r \in Runs |-> "none"]
  /\ replies = [r \in Runs |-> 0]
  /\ stream = [r \in Runs |-> <<>>]
  /\ drain = [r \in Runs |-> "none"]
  /\ call = NoCall

-----------------------------------------------------------------------------
(***************************************************************************)
(* tokio::sync::watch::Sender::send keeps the old value, and returns an    *)
(* error nobody looks at, when the channel has no receiver.  spawn() drops *)
(* the first one; the only other is held by wait() while it waits.         *)
(***************************************************************************)
Publish(i, s) ==
  watched' = IF call = WaitingFor(i) THEN [watched EXCEPT ![i] = s] ELSE watched

SetStatus(i, s) ==
  /\ status' = [status EXCEPT ![i] = s]
  /\ Publish(i, s)

(***************************************************************************)
(* The tool's spawn: the cap, then the session file, which may fail to be  *)
(* created and has used up the id all the same.  With a prompt the tool    *)
(* goes on to send it without giving the mutex back.                       *)
(***************************************************************************)
Spawn ==
  /\ call = NoCall /\ nextId \in Ids
  /\ Cardinality(Running) < MaxActive
  /\ nextId' = nextId + 1
  /\ \/ /\ status' = [status EXCEPT ![nextId] = "Idle"]
        /\ call' = NoCall \/ (sent < MaxSent /\ call' = Sending(nextId))
     \/ UNCHANGED <<status, call>>
  /\ UNCHANGED <<watched, history, token, fired, runVars>>

(***************************************************************************)
(* send(): refused while Running and for good once Aborted.  The prompt is *)
(* in the history and the session file before the loop is configured,      *)
(* which a missing API key lets fail.                                      *)
(***************************************************************************)
Sendable(i) == status[i] \in {"Idle", "Error"}

\* Faulty variant: the loop listens to a token of its own.
OwnToken(i) == token[i] + 1

CancelToken(i) == IF <<i, token[i]>> \in fired THEN token[i] + 1 ELSE token[i]

\* build_loop_config returned an error.
ConfigFails(i) ==
  /\ SetStatus(i, "Error")
  /\ call' = NoCall
  /\ UNCHANGED <<subagent, given, loop, replies, stream, drain>>

StartRun(i, r) ==
  /\ SetStatus(i, "Running")
  /\ subagent' = [subagent EXCEPT ![r] = i]
  /\ given' = [given EXCEPT ![r] = CancelToken(i)]
  /\ loop' = [loop EXCEPT ![r] = "starting"]
  /\ drain' = [drain EXCEPT ![r] = "draining"]
  /\ call' \in {NoCall, Joining(i, r)}
  /\ UNCHANGED <<replies, stream>>

Deliver(i) ==
  /\ Sendable(i) /\ sent < MaxSent
  /\ sent' = sent + 1
  /\ history' = [history EXCEPT ![i] = Append(@, Prompt(sent + 1))]
  /\ IF <<i, token[i]>> \in fired
       THEN token' = [token EXCEPT ![i] = @ + 1]
       ELSE UNCHANGED token
  /\ ConfigFails(i) \/ StartRun(i, sent + 1)
  /\ UNCHANGED <<nextId, fired>>

Send(i) == call = NoCall /\ Deliver(i)

SendAfterSpawn == call.op = "send" /\ Deliver(call.id)

\* The JoinHandle of the drain: send(.., wait = true) returns.
JoinReturns ==
  /\ call.op = "join" /\ drain[call.run] = "done"
  /\ call' = NoCall
  /\ UNCHANGED <<nextId, runtimeVars, runVars>>

\* wait(): subscribe, ...
Wait(i) ==
  /\ call = NoCall /\ Spawned(i)
  /\ call' = WaitingFor(i)
  /\ UNCHANGED <<nextId, runtimeVars, runVars>>

\* ... and return once the channel's value is not Running.
WaitReturns ==
  /\ call.op = "wait" /\ watched[call.id] # "Running"
  /\ call' = NoCall
  /\ UNCHANGED <<nextId, runtimeVars, runVars>>

\* abort(): also of a subagent that is not running.
Abort(i) ==
  /\ call = NoCall /\ Spawned(i)
  /\ fired' = fired \cup {<<i, token[i]>>}
  /\ SetStatus(i, "Aborted")
  /\ UNCHANGED <<nextId, history, token, runVars, call>>

\* The main agent's run is cancelled while the tool waits: its future is
\* dropped, and what it waited for goes on.
CallDropped ==
  /\ call # NoCall
  /\ call' = NoCall
  /\ UNCHANGED <<nextId, runtimeVars, runVars>>

-----------------------------------------------------------------------------
(* The agent loop of a run.                                                *)

Emit(r, e) == stream' = [stream EXCEPT ![r] = Append(@, e)]

LoopStarts(r) ==
  /\ loop[r] = "starting"
  /\ loop' = [loop EXCEPT ![r] = "working"]
  /\ Emit(r, Prompt(r))
  /\ UNCHANGED <<nextId, runtimeVars, sent, subagent, given, replies, drain, call>>

LoopReplies(r) ==
  /\ loop[r] = "working" /\ replies[r] < MaxReplies
  /\ replies' = [replies EXCEPT ![r] = @ + 1]
  /\ Emit(r, Reply(r))
  /\ UNCHANGED <<nextId, runtimeVars, sent, subagent, given, loop, drain, call>>

LoopEnds(r) ==
  /\ loop[r] = "working"
  /\ loop' = [loop EXCEPT ![r] = "ended"]
  /\ Emit(r, AgentEnd(r))
  /\ UNCHANGED <<nextId, runtimeVars, sent, subagent, given, replies, drain, call>>

\* The senders are dropped: after AgentEnd, or because the loop panicked.
LoopCloses(r) ==
  /\ loop[r] = "ended"
  /\ loop' = [loop EXCEPT ![r] = "closed"]
  /\ UNCHANGED <<nextId, runtimeVars, sent, subagent, given, replies, stream,
                 drain, call>>

LoopPanics(r) ==
  /\ loop[r] = "working"
  /\ loop' = [loop EXCEPT ![r] = "closed"]
  /\ UNCHANGED <<nextId, runtimeVars, sent, subagent, given, replies, stream,
                 drain, call>>

Cancelled(r) == <<subagent[r], given[r]>> \in fired

-----------------------------------------------------------------------------
(* drain_subagent_stream.                                                  *)

\* Faulty variant: the end of a run hides that it was aborted.
BecomeIdle(i) == SetStatus(i, "Idle")

LeaveRunning(i) ==
  IF status[i] = "Running" THEN SetStatus(i, "Idle")
  ELSE UNCHANGED <<status, watched>>

\* Faulty variant: an aborted subagent no longer listens.
RecordUnlessAborted(i, m) ==
  history' = IF status[i] = "Aborted" THEN history
             ELSE [history EXCEPT ![i] = Append(@, m)]

Record(i, m) == history' = [history EXCEPT ![i] = Append(@, m)]

EndsRun(e) == e.from = "loop"

Drain(r) ==
  /\ drain[r] = "draining" /\ stream[r] # <<>>
  /\ stream' = [stream EXCEPT ![r] = Tail(@)]
  /\ LET i == subagent[r]
         e == Head(stream[r])
     IN  IF EndsRun(e)
           THEN LeaveRunning(i) /\ UNCHANGED history
           ELSE Record(i, e) /\ UNCHANGED <<status, watched>>
  /\ UNCHANGED <<nextId, token, fired, sent, subagent, given, loop, replies,
                 drain, call>>

\* Faulty variant: the run's AgentEnd is relied on.
DrainStops(r) ==
  /\ drain[r] = "draining" /\ stream[r] = <<>> /\ loop[r] = "closed"
  /\ drain' = [drain EXCEPT ![r] = "done"]
  /\ UNCHANGED <<nextId, runtimeVars, sent, subagent, given, loop, replies,
                 stream, call>>

\* The stream has closed: whatever the reason, the status leaves Running.
DrainEnds(r) ==
  /\ drain[r] = "draining" /\ stream[r] = <<>> /\ loop[r] = "closed"
  /\ drain' = [drain EXCEPT ![r] = "done"]
  /\ LeaveRunning(subagent[r])
  /\ UNCHANGED <<nextId, history, token, fired, sent, subagent, given, loop,
                 replies, stream, call>>

-----------------------------------------------------------------------------
Tool == Spawn \/ SendAfterSpawn \/ JoinReturns \/ WaitReturns \/ CallDropped
        \/ \E i \in Ids : Send(i) \/ Wait(i) \/ Abort(i)
Loop(r) == LoopStarts(r) \/ LoopReplies(r) \/ LoopEnds(r) \/ LoopCloses(r)
           \/ LoopPanics(r)

Next == Tool \/ \E r \in Runs : Loop(r) \/ Drain(r) \/ DrainEnds(r)

Spec == Init /\ [][Next]_vars

(***************************************************************************)
(* The runtime polls the tasks that can go on, and a cancelled loop ends   *)
(* (CancelEndsRun of AgentLoop).  The model may never answer.              *)
(***************************************************************************)
FairSpec ==
  /\ Spec
  /\ WF_vars(SendAfterSpawn) /\ WF_vars(JoinReturns) /\ WF_vars(WaitReturns)
  /\ \A r \in Runs :
       /\ WF_vars(LoopStarts(r))
       /\ WF_vars(Cancelled(r) /\ LoopEnds(r))
       /\ WF_vars(LoopCloses(r))
       /\ WF_vars(Drain(r))
       /\ WF_vars(DrainEnds(r))

-----------------------------------------------------------------------------
\* Runtimes, runs, their streams and the call that holds the mutex have their types.
TypeOK ==
  /\ nextId \in 1..(MaxSpawned + 1)
  /\ status \in [Ids -> Statuses \cup {"absent"}]
  /\ watched \in [Ids -> Statuses]
  /\ history \in [Ids -> Seq(Messages)]
  /\ token \in [Ids -> Nat]
  /\ fired \subseteq Ids \X Nat
  /\ sent \in 0..MaxSent
  /\ subagent \in [Runs -> Ids \cup {0}]
  /\ given \in [Runs -> Nat]
  /\ loop \in [Runs -> {"none", "starting", "working", "ended", "closed"}]
  /\ replies \in [Runs -> 0..MaxReplies]
  /\ stream \in [Runs -> Seq(Events)]
  /\ drain \in [Runs -> {"none", "draining", "done"}]
  /\ call \in [op : {"free", "send", "join", "wait"},
               id : Ids \cup {0}, run : Runs \cup {0}]

RunsOf(i) == {r \in Runs : subagent[r] = i}

(***************************************************************************)
(* abort() is final: no prompt, no loop that answers late and no drain     *)
(* that ends late makes an aborted subagent anything else.                 *)
(***************************************************************************)
AbortedIsFinal ==
  [][\A i \in Ids : status[i] = "Aborted" => status'[i] = "Aborted"]_vars

(***************************************************************************)
(* Running is never a state a subagent is stuck in with nothing behind it: *)
(* a drain is at work that will take it out.                               *)
(***************************************************************************)
RunningIsDrained ==
  \A i \in Running : \E r \in RunsOf(i) : drain[r] = "draining"

(***************************************************************************)
(* Once a run's drain is done, the subagent's history has every message    *)
(* the model added to it, in whatever state the run was overtaken by an    *)
(* abort or by another run.                                                *)
(***************************************************************************)
NoReplyIsLost ==
  \A r \in Runs : drain[r] = "done" =>
    LET h == history[subagent[r]]
    IN  Cardinality({k \in 1..Len(h) : h[k] = Reply(r)}) = replies[r]

(***************************************************************************)
(* When send(.., wait = true) returns, the subagent is not running.        *)
(***************************************************************************)
JoinedIsNotRunning ==
  call.op = "join" /\ drain[call.run] = "done" => status[call.id] # "Running"

(***************************************************************************)
(* What list_agents and send(.., wait = true) tell of a run is true:       *)
(* Running has a drain that will end it, and a send that waited comes back *)
(* to a subagent that is not running.                                      *)
(***************************************************************************)
StatusFollowsTheDrain ==
  /\ TypeOK
  /\ RunningIsDrained
  /\ JoinedIsNotRunning

(***************************************************************************)
(* Aborting a subagent ends every loop it has, however many there are and  *)
(* whichever token they were given.                                        *)
(***************************************************************************)
AbortEndsItsLoops ==
  \A i \in Ids :
    status[i] = "Aborted" ~> \A r \in RunsOf(i) : drain[r] = "done"

(***************************************************************************)
(* If the loops end (EveryRunEnds of AgentLoop), in order or by a panic,   *)
(* the manager's mutex always comes back, and with it the subagent panel   *)
(* and the next tool call.                                                 *)
(***************************************************************************)
LoopsEnd == \A r \in Runs : WF_vars(LoopEnds(r) \/ LoopPanics(r))
MutexComesBack == LoopsEnd => []<>(call = NoCall)

(***************************************************************************)
(* Nothing of the tool waits forever: an abort reaches every loop of its   *)
(* subagent, and the manager's mutex, which a waiting send holds, comes    *)
(* back if the loops end.                                                  *)
(***************************************************************************)
AbortsAndCallsEnd ==
  /\ AbortEndsItsLoops
  /\ MutexComesBack

=============================================================================
