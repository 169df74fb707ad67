------------------------------ MODULE AgentLoop ------------------------------
(***************************************************************************)
(* run_loop and stream_assistant_response of                               *)
(* crates/rozsa-core/src/agent_loop.rs: one run of the agent, which calls  *)
(* the model, executes the tool calls of its answer, and goes round until  *)
(* there is nothing left to say.  While it runs, a user may queue steering *)
(* and follow-up messages and may cancel; the model's stream may fail,     *)
(* stop short, or never answer.  A tool batch is taken as the one step     *)
(* BatchContract promises, which ToolBatch implements.                     *)
(*                                                                         *)
(* The event stream is represented by what a listener that folds it knows: *)
(* how many turns are open, whether an assistant message is, and the       *)
(* messages AgentEnd reported.                                             *)
(***************************************************************************)
EXTENDS Integers, Sequences, BatchAnswers, Selection

CONSTANTS
  Histories,    \* the transcripts a run may start from
  MaxCalls,     \* bound: tool calls in one assistant message
  MaxTurns,     \* config.max_turns
  MaxSteering,  \* bound: steering messages a user sends during the run
  MaxFollowUps, \* bound: follow-up messages a user sends during the run
  RefreshHook   \* BOOLEAN: config.get_api_key is Some

(***************************************************************************)
(* An AgentMessage: n is the position of a user message in its queue, how  *)
(* many tool calls an assistant message carries, or the call a tool result *)
(* answers.  The tag of an assistant message is its stop_reason, where     *)
(* "truncated" is Length with arguments of the last call cut off in the    *)
(* middle; Length with whole arguments is treated as "complete" is.        *)
(***************************************************************************)
Queues == {"prompt", "steering", "followUp"}
Failed == {"authError", "error", "aborted"}
Stops == {"partial", "complete", "truncated"} \cup Failed

User(q, i)         == [role |-> "user", tag |-> q, n |-> i]
Assistant(s, calls) == [role |-> "assistant", tag |-> s, n |-> calls]
ToolResult(c)      == [role |-> "toolResult", tag |-> "", n |-> c]

Message == [role : {"user"}, tag : Queues, n : Nat]
           \cup [role : {"assistant"}, tag : Stops, n : Nat]
           \cup [role : {"toolResult"}, tag : {""}, n : Nat]

\* The calls run_loop executes: the truncated last one is dropped.
ToRun(m) == IF m.tag = "truncated" THEN m.n - 1 ELSE m.n

\* A provider sends a truncated message only with a call in it.
Responses == {Assistant(s, k) : s \in Stops \ {"partial"}, k \in 0..MaxCalls}
             \ {Assistant("truncated", 0)}

(***************************************************************************)
(* Every call of an assistant message that was to be run is answered by    *)
(* the results right behind it, in order, and no result answers another.   *)
(***************************************************************************)
Answered(ms, p) ==
  \A c \in 1..ToRun(ms[p]) : p + c <= Len(ms) /\ ms[p + c] = ToolResult(c)
Paired(ms) ==
  \A p \in 1..Len(ms) :
    /\ ms[p].role = "assistant" => Answered(ms, p)
    /\ ms[p].role = "toolResult" =>
         LET q == p - ms[p].n IN
           q > 0 /\ ms[q].role = "assistant" /\ ms[p].n <= ToRun(ms[q])

ASSUME LoopAssumption ==
  /\ Histories \subseteq Seq(Message)
  /\ \A h \in Histories : Paired(h)
  /\ MaxCalls \in Nat
  /\ MaxTurns \in Nat \ {0}
  /\ MaxSteering \in Nat /\ MaxFollowUps \in Nat
  /\ RefreshHook \in BOOLEAN

VARIABLES
  history,      \* context.messages as handed to the run
  continued,    \* agent_loop_continue rather than agent_loop
  pc,           \* where the run stands
  context,      \* context.messages
  newMessages,  \* new_messages
  pending,      \* pending_messages
  hasMore,      \* has_more_tool_calls
  firstTurn,    \* first_turn
  turnCount,    \* turn_count
  authRetried,  \* auth_retried
  partial,      \* current_partial: tool calls streamed so far, -1 for None
  added,        \* added_partial
  steering,     \* the queue behind get_steering_messages
  followUps,    \* the queue behind get_follow_up_messages
  sentSteering, \* steering messages the user sent so far
  sentFollowUps,\* follow-up messages the user sent so far
  cancelled,    \* the CancellationToken
  openTurns,    \* TurnStart events without their TurnEnd
  openMessage,  \* an assistant MessageStart without its MessageEnd
  reported,     \* AgentEnd.messages
  modelCalls    \* calls of config.model_stream

vars == <<history, continued, pc, context, newMessages, pending, hasMore,
          firstTurn, turnCount, authRetried, partial, added, steering,
          followUps, sentSteering, sentFollowUps, cancelled, openTurns,
          openMessage, reported, modelCalls>>

setup     == <<history, continued>>
transcript == <<context, newMessages>>
control   == <<pending, hasMore, firstTurn, turnCount, authRetried>>
streamed  == <<partial, added>>
queues    == <<steering, followUps>>
user      == <<sentSteering, sentFollowUps, cancelled>>
events    == <<openTurns, openMessage, reported>>

Init ==
  /\ history \in Histories
  /\ continued \in BOOLEAN
  /\ pc = "start"
  /\ context = history
  /\ newMessages = <<>>
  /\ pending = <<>>
  /\ hasMore = TRUE /\ firstTurn = TRUE /\ turnCount = 0 /\ authRetried = FALSE
  /\ partial = -1 /\ added = FALSE
  /\ steering = <<>> /\ followUps = <<>>
  /\ sentSteering = 0 /\ sentFollowUps = 0 /\ cancelled = FALSE
  /\ openTurns = 0 /\ openMessage = FALSE /\ reported = <<>>
  /\ modelCalls = 0

AgentEnd(messages) ==
  /\ pc' = "done"
  /\ reported' = messages

Push(ms) ==
  /\ context' = context \o ms
  /\ newMessages' = newMessages \o ms

\* Faulty variant: the queue is copied, not taken.
CopySteering ==
  /\ pending' = steering
  /\ UNCHANGED steering

DrainSteering ==
  /\ pending' = steering
  /\ steering' = <<>>

-----------------------------------------------------------------------------
\* Faulty variant: only the empty transcript is turned down.
CanContinueAnything(ms) == ms # <<>>

\* agent_loop_continue wants a transcript, and not one the model has the last
\* word of.
CanContinue(ms) == ms # <<>> /\ ms[Len(ms)].role # "assistant"

NothingToContinue ==
  /\ pc = "start" /\ continued
  /\ ~CanContinue(history)
  /\ AgentEnd(<<>>)
  /\ UNCHANGED <<setup, transcript, control, streamed, queues, user,
                 openTurns, openMessage, modelCalls>>

Start ==
  /\ pc = "start"
  /\ IF continued
       THEN CanContinue(history) /\ UNCHANGED transcript
       ELSE Push(<<User("prompt", 0)>>)
  /\ openTurns' = 1
  /\ DrainSteering
  /\ pc' = "while"
  /\ UNCHANGED <<setup, hasMore, firstTurn, turnCount, authRetried, streamed,
                 followUps, user, openMessage, reported, modelCalls>>

-----------------------------------------------------------------------------
(* while has_more_tool_calls || !pending_messages.is_empty()               *)

GoesOn == hasMore \/ pending # <<>>

\* Messages already drained into pending_messages are dropped.
StopCancelled ==
  /\ pc = "while" /\ GoesOn /\ cancelled
  /\ AgentEnd(newMessages)
  /\ UNCHANGED <<setup, transcript, control, streamed, queues, user,
                 openTurns, openMessage, modelCalls>>

\* TurnStart, which the first turn had before the loop.
EmitTurnStart ==
  /\ openTurns' = IF firstTurn THEN openTurns ELSE openTurns + 1
  /\ firstTurn' = FALSE

CallModel ==
  /\ pc = "while" /\ GoesOn /\ ~cancelled
  /\ EmitTurnStart
  /\ Push(pending)
  /\ pending' = <<>>
  /\ partial' = -1 /\ added' = FALSE
  /\ modelCalls' = modelCalls + 1
  /\ pc' = "stream"
  /\ UNCHANGED <<setup, hasMore, turnCount, authRetried, queues, user,
                 openMessage, reported>>

\* The inner loop is over: follow-ups start it again, or the run ends.
DrainFollowUps ==
  /\ pc = "while" /\ ~GoesOn
  /\ followUps' = <<>>
  /\ IF followUps = <<>>
       THEN AgentEnd(newMessages) /\ UNCHANGED <<pending, hasMore>>
       ELSE /\ pending' = followUps
            /\ hasMore' = TRUE
            /\ UNCHANGED <<pc, reported>>
  /\ UNCHANGED <<setup, transcript, firstTurn, turnCount, authRetried,
                 streamed, steering, user, openTurns, openMessage, modelCalls>>

-----------------------------------------------------------------------------
(* stream_assistant_response                                               *)

Front(ms) == SubSeq(ms, 1, Len(ms) - 1)

\* The assistant message takes the place of the partial one, if there is one.
PutAssistant(m) == context' = Append(IF added THEN Front(context) ELSE context, m)

\* StreamEvent::Start, which a provider sends at most once.
StreamStart ==
  /\ pc = "stream" /\ ~added
  /\ added' = TRUE
  /\ partial' = 0
  /\ PutAssistant(Assistant("partial", 0))
  /\ openMessage' = TRUE
  /\ UNCHANGED <<setup, pc, newMessages, control, queues, user, openTurns,
                 reported, modelCalls>>

\* A text, thinking or tool-call event, which carries the message so far.
StreamUpdate ==
  /\ pc = "stream"
  /\ \E k \in 0..MaxCalls :
       /\ k \in partial..(partial + 1)
       /\ partial' = k
       /\ IF added THEN PutAssistant(Assistant("partial", k))
                   ELSE UNCHANGED context
  /\ UNCHANGED <<setup, pc, newMessages, control, added, queues, user,
                 events, modelCalls>>

\* The message is final: MessageEnd, after a MessageStart if there was none.
FinishMessage(m) ==
  /\ PutAssistant(m)
  /\ newMessages' = Append(newMessages, m)
  /\ openMessage' = FALSE
  /\ partial' = -1 /\ added' = FALSE
  /\ pc' = "response"
  /\ UNCHANGED <<setup, control, queues, user, openTurns, reported, modelCalls>>

\* StreamEvent::Done or Error; the select is not biased, so also after a cancel.
StreamFinal ==
  /\ pc = "stream"
  /\ \E m \in Responses : FinishMessage(m)

\* Faulty variant: once a partial message is there, the token is not looked at.
StreamNotCancelled == FALSE

\* The token wins the select: what was streamed becomes an aborted message.
StreamCancelled ==
  /\ pc = "stream" /\ cancelled /\ partial >= 0
  /\ FinishMessage(Assistant("aborted", partial))

\* No message: TurnEnd with an empty aborted one, and AgentEnd.
LoseMessage ==
  /\ openTurns' = openTurns - 1
  /\ AgentEnd(newMessages)
  /\ partial' = -1 /\ added' = FALSE
  /\ UNCHANGED <<setup, newMessages, control, queues, user, openMessage, modelCalls>>

\* Cancelled before anything arrived.
StreamDropped ==
  /\ pc = "stream" /\ cancelled /\ partial = -1
  /\ LoseMessage
  /\ UNCHANGED context

\* Faulty variant: the partial message stays.
KeepPartial == context

WithoutPartial == IF added THEN Front(context) ELSE context

\* The stream ended without Done or Error.
StreamEof ==
  /\ pc = "stream"
  /\ LoseMessage
  /\ context' = WithoutPartial

-----------------------------------------------------------------------------
(* The rest of a turn.                                                     *)

Response == newMessages[Len(newMessages)]

MayRefresh == Response.tag = "authError" /\ ~authRetried /\ RefreshHook

\* get_api_key returned a key: forget the error and `continue` the inner loop,
\* which is over when only a steering message had kept it going.
RetryAfterRefresh ==
  /\ pc = "response" /\ MayRefresh
  /\ authRetried' = TRUE
  /\ context' = Front(context)
  /\ newMessages' = Front(newMessages)
  /\ pc' = "while"
  /\ UNCHANGED <<setup, pending, hasMore, firstTurn, turnCount, streamed,
                 queues, user, events, modelCalls>>

\* Error or Aborted, also when there is no key to retry with.
FailTurn ==
  /\ pc = "response" /\ Response.tag \in Failed
  /\ authRetried' = (authRetried \/ MayRefresh)
  /\ openTurns' = openTurns - 1
  /\ AgentEnd(newMessages)
  /\ UNCHANGED <<setup, transcript, pending, hasMore, firstTurn, turnCount,
                 streamed, queues, user, openMessage, modelCalls>>

\* execute_tool_batch, which answers a prefix of the calls.  The batch stops
\* the tool loop if it answered anything and every answer asked to terminate.
RunTools ==
  /\ pc = "response" /\ Response.tag \notin Failed /\ ToRun(Response) > 0
  /\ \E answers \in Answers(ToRun(Response), cancelled), terminate \in BOOLEAN :
       /\ terminate => answers # <<>>
       /\ Push([k \in 1..Len(answers) |-> ToolResult(answers[k])])
       /\ hasMore' = ~terminate
  /\ pc' = "turnEnd"
  /\ UNCHANGED <<setup, pending, firstTurn, turnCount, authRetried, streamed,
                 queues, user, events, modelCalls>>

\* A tool awaited inline panicked: the stream closes without an AgentEnd.
LoseRun ==
  /\ pc = "response" /\ Response.tag \notin Failed /\ ToRun(Response) > 0
  /\ pc' = "crashed"
  /\ UNCHANGED <<setup, transcript, control, streamed, queues, user, events,
                 modelCalls>>

NoToolsToRun ==
  /\ pc = "response" /\ Response.tag \notin Failed /\ ToRun(Response) = 0
  /\ hasMore' = FALSE
  /\ pc' = "turnEnd"
  /\ UNCHANGED <<setup, transcript, pending, firstTurn, turnCount, authRetried,
                 streamed, queues, user, events, modelCalls>>

(***************************************************************************)
(* TurnEnd, should_stop_after_turn, max_turns, and the drain of the        *)
(* steering queue.  prepare_next_turn, which no config of the program      *)
(* sets, is taken to leave the messages alone.                             *)
(***************************************************************************)
EndTurn ==
  /\ pc = "turnEnd"
  /\ openTurns' = openTurns - 1
  /\ \/ AgentEnd(newMessages) /\ UNCHANGED <<turnCount, pending, steering>>
     \/ /\ turnCount' = turnCount + 1
        /\ IF turnCount + 1 >= MaxTurns
             THEN AgentEnd(newMessages) /\ UNCHANGED <<pending, steering>>
             ELSE DrainSteering /\ pc' = "while" /\ UNCHANGED reported
  /\ UNCHANGED <<setup, transcript, hasMore, firstTurn, authRetried, streamed,
                 followUps, user, openMessage, modelCalls>>

-----------------------------------------------------------------------------
(* The user, on another thread.                                            *)

Running == pc \notin {"done", "crashed"}

Steer ==
  /\ sentSteering < MaxSteering
  /\ sentSteering' = sentSteering + 1
  /\ steering' = Append(steering, User("steering", sentSteering'))
  /\ UNCHANGED <<setup, pc, transcript, control, streamed, followUps,
                 sentFollowUps, cancelled, events, modelCalls>>

FollowUp ==
  /\ sentFollowUps < MaxFollowUps
  /\ sentFollowUps' = sentFollowUps + 1
  /\ followUps' = Append(followUps, User("followUp", sentFollowUps'))
  /\ UNCHANGED <<setup, pc, transcript, control, streamed, steering,
                 sentSteering, cancelled, events, modelCalls>>

Cancel ==
  /\ cancelled' = TRUE
  /\ UNCHANGED <<setup, pc, transcript, control, streamed, queues,
                 sentSteering, sentFollowUps, events, modelCalls>>

-----------------------------------------------------------------------------
Stream == StreamStart \/ StreamUpdate \/ StreamFinal \/ StreamEof
Turn == RetryAfterRefresh \/ FailTurn \/ RunTools \/ LoseRun \/ NoToolsToRun
        \/ EndTurn
Loop == NothingToContinue \/ Start \/ StopCancelled \/ CallModel
        \/ DrainFollowUps \/ StreamCancelled \/ StreamDropped \/ Stream \/ Turn

Over == ~Running /\ UNCHANGED vars

Next == Loop \/ (Running /\ (Steer \/ FollowUp \/ Cancel)) \/ Over

Spec == Init /\ [][Next]_vars

(***************************************************************************)
(* What the runtime polls by itself, whatever the provider and the tools   *)
(* do.  A batch of a run that goes on returns if its tools do; of a        *)
(* cancelled run it returns in any case (CancelEndsBatch of ToolBatch).    *)
(***************************************************************************)
CancelledBatch == cancelled /\ RunTools
Polled == NothingToContinue \/ Start \/ StopCancelled \/ CallModel
          \/ DrainFollowUps \/ StreamCancelled \/ StreamDropped
          \/ RetryAfterRefresh \/ FailTurn \/ CancelledBatch \/ NoToolsToRun \/ EndTurn

FairSpec == Spec /\ WF_vars(Polled)

-----------------------------------------------------------------------------
\* The locals of run_loop, the stream and the queues have their types.
TypeOK ==
  /\ history \in Histories /\ continued \in BOOLEAN
  /\ pc \in {"start", "while", "stream", "response", "turnEnd", "done", "crashed"}
  /\ context \in Seq(Message) /\ newMessages \in Seq(Message)
  /\ pending \in Seq(Message)
  /\ hasMore \in BOOLEAN /\ firstTurn \in BOOLEAN
  /\ turnCount \in Nat /\ authRetried \in BOOLEAN
  /\ partial \in -1..MaxCalls /\ added \in BOOLEAN
  /\ steering \in Seq(Message) /\ followUps \in Seq(Message)
  /\ sentSteering \in 0..MaxSteering /\ sentFollowUps \in 0..MaxFollowUps
  /\ cancelled \in BOOLEAN
  /\ openTurns \in Nat /\ openMessage \in BOOLEAN
  /\ reported \in Seq(Message)
  /\ modelCalls \in Nat

(***************************************************************************)
(* The model is only ever asked to go on from a transcript it can answer:  *)
(* every tool call that was to be run has its result right behind it, no   *)
(* result is without its call, and the last message is not the model's     *)
(* own.  Batches cut short by a cancellation, failed and aborted messages, *)
(* the retry after a refresh and messages injected between turns must all  *)
(* keep out of the way of this.                                            *)
(***************************************************************************)
AnswerableCall ==
  (pc = "while" /\ pc' = "stream") =>
    /\ Paired(context')
    /\ context' # <<>> /\ context'[Len(context')].role # "assistant"
ModelCallsAreAnswerable == [][AnswerableCall]_vars

(***************************************************************************)
(* AgentEnd reports exactly the messages the run added to the transcript   *)
(* it was given: partial messages, retried errors and streams that stop    *)
(* short leave no trace in one that they do not leave in the other.  The   *)
(* session persists the report and forgets the run's own context.          *)
(***************************************************************************)
ReportIsWhatTheRunAdded == pc = "done" => context = history \o reported

(***************************************************************************)
(* A queued message reaches the transcript once, in the order sent, and is *)
(* never in two places; if it is nowhere any more, the run was cancelled.  *)
(***************************************************************************)
OfQueue(q) == [role : {"user"}, tag : {q}, n : Nat]
Heard(q) == Kept(newMessages, OfQueue(q))
Held(q)  == Kept(pending, OfQueue(q))
Sent(q, k) == [i \in 1..k |-> User(q, i)]
QueuedMessagesAreHeardOnce ==
  LET steered  == Heard("steering") \o Held("steering") \o steering
      followed == Heard("followUp") \o Held("followUp") \o followUps
  IN /\ steered = Sent("steering", sentSteering)
     /\ followed = Sent("followUp", sentFollowUps)
     /\ pc = "done" /\ pending # <<>> => cancelled

(***************************************************************************)
(* What the run reports can be continued from: only the last message of    *)
(* the model may have calls nobody answered, and only because the run was  *)
(* cancelled or that message failed.                                       *)
(***************************************************************************)
LastAssistant(ms) ==
  LET ps == {p \in 1..Len(ms) : ms[p].role = "assistant"}
  IN IF ps = {} THEN 0 ELSE CHOOSE p \in ps : \A q \in ps : q <= p
ReportedCallsAreAnswered ==
  pc = "done" =>
    \A p \in 1..Len(reported) :
      reported[p].role = "assistant" /\ ~Answered(reported, p) =>
        /\ p = LastAssistant(reported)
        /\ cancelled \/ reported[p].tag \in Failed

(***************************************************************************)
(* max_turns bounds the requests a run makes, with one more for the single *)
(* retry after a credential refresh.                                       *)
(***************************************************************************)
RequestsAreBounded ==
  modelCalls <= MaxTurns + (IF authRetried THEN 1 ELSE 0)

(***************************************************************************)
(* What the session may rely on when AgentEnd reports a run: the report is *)
(* what the run added, its calls are answered, and no turn asked the       *)
(* provider more often than its refresh allows.                            *)
(***************************************************************************)
RunInvariant ==
  /\ TypeOK
  /\ ReportIsWhatTheRunAdded
  /\ ReportedCallsAreAnswered
  /\ RequestsAreBounded

(***************************************************************************)
(* Cancelling ends the run, although neither the provider, the permission  *)
(* hook nor the tools ever answer again, and whatever is queued meanwhile. *)
(***************************************************************************)
CancelEndsRun == cancelled ~> ~Running

(***************************************************************************)
(* A run whose provider's streams end and whose tools return ends by       *)
(* itself.                                                                 *)
(***************************************************************************)
Cooperation == WF_vars(StreamFinal \/ StreamEof) /\ WF_vars(RunTools)
EveryRunEnds == Cooperation => <>~Running

(***************************************************************************)
(* A run ends: after a cancellation with no help of the provider, the hook *)
(* or the tools, and otherwise if they answer.                             *)
(***************************************************************************)
RunEnds ==
  /\ CancelEndsRun
  /\ EveryRunEnds

=============================================================================
