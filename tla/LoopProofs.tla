------------------------------ MODULE LoopProofs ------------------------------
(***************************************************************************)
(* What a run of the agent promises, whatever transcript it starts from,   *)
(* however many calls a message has and messages a user queues, and        *)
(* wherever a cancellation, a failure or the end of a stream hits: the     *)
(* model is asked what it can answer, the report is what was added, and    *)
(* every queued message is heard once.                                     *)
(***************************************************************************)
EXTENDS AgentLoop, SelectionTheorems

(***************************************************************************)
(* The inductive invariant, in five layers.  Types, and that a turn is     *)
(* open, with a final message at its end, while one is worked on.          *)
(***************************************************************************)
InTurn == pc \in {"stream", "response", "turnEnd"}

TurnIsOpen ==
  /\ InTurn => ~firstTurn /\ openTurns > 0
  /\ pc = "while" /\ firstTurn => openTurns > 0
  /\ pc = "response" => newMessages # <<>> /\ Response.role = "assistant"

(***************************************************************************)
(* The run's own messages and its context are two records of one           *)
(* transcript, but for a partial message.                                  *)
(***************************************************************************)
Transcript == history \o newMessages

TranscriptsAgree ==
  /\ pc = "start" => newMessages = <<>> /\ context = history
  /\ pc \in {"while", "response", "turnEnd", "crashed"} => context = Transcript
  /\ pc = "stream" /\ ~added => context = Transcript
  /\ pc = "stream" /\ added => partial # -1 /\ context # <<>> /\ Front(context) = Transcript
  /\ ReportIsWhatTheRunAdded

(***************************************************************************)
(* What the model was asked with was answerable; between two requests it   *)
(* is again, unless the run was cancelled, and then all calls but those    *)
(* of the last message are answered.                                       *)
(***************************************************************************)
Waiting(ms) == ms # <<>> /\ ms[Len(ms)].role # "assistant"
Answerable(ms) == Paired(ms) /\ Waiting(ms)

OnlyLastOpen(ms) ==
  \A p \in 1..Len(ms) : ms[p].role = "assistant" /\ ~Answered(ms, p) =>
    \A q \in 1..Len(ms) : ms[q].role = "assistant" => q <= p

CallsAreAnswered ==
  /\ pc = "start" => Paired(context)
  /\ pc = "stream" => Answerable(Transcript)
  /\ pc = "response" => Answerable(Front(Transcript))
  /\ pc \in {"while", "turnEnd"} =>
       /\ OnlyLastOpen(newMessages)
       /\ ~cancelled => Paired(context)
       /\ ~cancelled /\ hasMore /\ pending = <<>> => Waiting(context)
  /\ ReportedCallsAreAnswered

(***************************************************************************)
(* Each turn made one request, and the retry one more.                     *)
(***************************************************************************)
Retries == IF authRetried THEN 1 ELSE 0

RequestsAreCounted ==
  /\ pc = "start" => modelCalls = 0 /\ turnCount = 0
  /\ pc = "while" => turnCount < MaxTurns /\ modelCalls <= turnCount + Retries
  /\ InTurn => turnCount < MaxTurns /\ modelCalls <= turnCount + 1 + Retries
  /\ RequestsAreBounded

(***************************************************************************)
(* What is pending comes from one queue, and a turn has taken it.          *)
(***************************************************************************)
QueuesAreTheirs ==
  /\ steering \in Seq(OfQueue("steering")) /\ followUps \in Seq(OfQueue("followUp"))
  /\ pending \in Seq(OfQueue("steering")) \cup Seq(OfQueue("followUp"))
  /\ pc = "start" \/ InTurn => pending = <<>>
  /\ QueuedMessagesAreHeardOnce

LoopIInv ==
  /\ TypeOK /\ TurnIsOpen
  /\ TranscriptsAgree
  /\ RequestsAreCounted
  /\ QueuesAreTheirs
  /\ CallsAreAnswered

-----------------------------------------------------------------------------
(***************************************************************************)
(* Sequences without their last element.                                   *)
(***************************************************************************)
LEMMA FrontType ==
  ASSUME NEW X, NEW s \in Seq(X)
  PROVE  /\ Front(s) \in Seq(X)
         /\ s # <<>> =>
              /\ Len(s) \in Nat /\ Len(s) > 0 /\ s[Len(s)] \in X
              /\ Len(Front(s)) = Len(s) - 1
              /\ \A i \in 1..(Len(s) - 1) : Front(s)[i] = s[i]
<1>1. Len(s) \in Nat /\ \A i \in 1..Len(s) : s[i] \in X
  OBVIOUS
<1>2. \A i \in 1..(Len(s) - 1) : s[i] \in X
  BY <1>1
<1>3. /\ Front(s) \in Seq(X)
      /\ Len(Front(s)) = IF 1 <= Len(s) - 1 THEN Len(s) - 1 - 1 + 1 ELSE 0
      /\ \A i \in 1..(Len(s) - 1 - 1 + 1) : Front(s)[i] = s[1 + i - 1]
  BY <1>1, <1>2, SubSeqProperties DEF Front
<1>4. s # <<>> => Len(s) > 0
  BY <1>1
<1>5. ASSUME NEW i \in 1..(Len(s) - 1) PROVE Front(s)[i] = s[i]
  <2>1. i \in 1..(Len(s) - 1 - 1 + 1) /\ 1 + i - 1 = i
    BY <1>1
  <2> QED
    BY <1>3, <2>1
<1>6. ASSUME s # <<>> PROVE Len(Front(s)) = Len(s) - 1 /\ s[Len(s)] \in X
  <2>1. Len(s) \in 1..Len(s)
    BY <1>1, <1>4, <1>6
  <2>2. s[Len(s)] \in X
    BY <1>1, <2>1
  <2>3. Len(Front(s)) = Len(s) - 1
    <3> DEFINE n == Len(s)
    <3>1. n \in Nat /\ n > 0 /\ Len(Front(s)) = IF 1 <= n - 1 THEN n - 1 - 1 + 1 ELSE 0
      BY <1>1, <1>3, <1>4, <1>6
    <3> HIDE DEF n
    <3>2. Len(Front(s)) = n - 1
      BY <3>1
    <3> QED
      BY <3>2 DEF n
  <2> QED
    BY <2>2, <2>3
<1> QED
  BY <1>1, <1>3, <1>4, <1>5, <1>6

\* Appending undoes it, and is undone by it.
LEMMA FrontAppend ==
  ASSUME NEW X, NEW s \in Seq(X)
  PROVE  /\ \A x \in X : Front(Append(s, x)) = s
         /\ s # <<>> => s = Append(Front(s), s[Len(s)])
<1>1. ASSUME NEW x \in X PROVE Front(Append(s, x)) = s
  <2> DEFINE t == Append(s, x)
  <2>1. t \in Seq(X) /\ t # <<>> /\ Len(t) = Len(s) + 1 /\ \A i \in 1..Len(s) : t[i] = s[i]
    <3>1. t \in Seq(X) /\ Len(t) = Len(s) + 1 /\ \A i \in 1..Len(s) : t[i] = s[i]
      BY AppendProperties
    <3>2. Len(s) \in Nat
      OBVIOUS
    <3> QED
      BY <3>1, <3>2, EmptySeq
  <2> HIDE DEF t
  <2>2. Front(t) \in Seq(X) /\ Len(Front(t)) = Len(s) /\ \A i \in 1..Len(s) : Front(t)[i] = s[i]
    BY <2>1, FrontType
  <2>3. Front(t) = s
    BY <2>2, SeqEqual
  <2> QED
    BY <2>3 DEF t
<1>2. ASSUME s # <<>> PROVE s = Append(Front(s), s[Len(s)])
  <2> DEFINE f == Front(s)
  <2>1. /\ f \in Seq(X) /\ Len(s) \in Nat /\ Len(s) > 0 /\ s[Len(s)] \in X
        /\ Len(f) = Len(s) - 1 /\ \A i \in 1..(Len(s) - 1) : f[i] = s[i]
    BY <1>2, FrontType
  <2> HIDE DEF f
  <2> DEFINE t == Append(f, s[Len(s)])
  <2>2. t \in Seq(X) /\ Len(t) = Len(s)
    BY <2>1
  <2>3. \A i \in 1..Len(s) : t[i] = s[i]
    BY <2>1
  <2> HIDE DEF t
  <2>4. t = s
    BY <2>2, <2>3, SeqEqual
  <2> QED
    BY <2>4 DEF t, f
<1> QED
  BY <1>1, <1>2

LEMMA FrontConcat ==
  ASSUME NEW X, NEW s \in Seq(X), NEW t \in Seq(X), t # <<>>
  PROVE  Front(s \o t) = s \o Front(t)
<1> DEFINE f == Front(t)
           l == s \o t
           r == s \o f
<1>1. /\ f \in Seq(X) /\ Len(t) \in Nat /\ Len(t) > 0
      /\ Len(f) = Len(t) - 1 /\ \A i \in 1..(Len(t) - 1) : f[i] = t[i]
  BY FrontType
<1> HIDE DEF f
<1>2. /\ l \in Seq(X) /\ l # <<>> /\ Len(l) = Len(s) + Len(t)
      /\ \A i \in 1..Len(l) : l[i] = IF i <= Len(s) THEN s[i] ELSE t[i - Len(s)]
  BY <1>1
<1>3. /\ r \in Seq(X) /\ Len(r) = Len(s) + Len(f)
      /\ \A i \in 1..Len(r) : r[i] = IF i <= Len(s) THEN s[i] ELSE f[i - Len(s)]
  <2>1. /\ r \in Seq(X) /\ Len(r) = Len(s) + Len(f)
        /\ \A i \in 1..(Len(s) + Len(f)) : r[i] = IF i <= Len(s) THEN s[i] ELSE f[i - Len(s)]
    BY <1>1, ConcatProperties
  <2> HIDE DEF r
  <2> QED
    BY <2>1
<1> HIDE DEF l, r
<1>4. /\ Front(l) \in Seq(X) /\ Len(Front(l)) = Len(l) - 1
      /\ \A i \in 1..(Len(l) - 1) : Front(l)[i] = l[i]
  BY <1>2, FrontType
<1>5. Len(Front(l)) = Len(r)
  BY <1>1, <1>2, <1>3, <1>4
<1>6. ASSUME NEW i \in 1..Len(r) PROVE Front(l)[i] = r[i]
  <2>1. i \in 1..(Len(l) - 1) /\ i \in 1..Len(l) /\ Len(s) \in Nat /\ i \in Nat
    BY <1>1, <1>2, <1>3
  <2>2. Front(l)[i] = l[i]
    BY <1>4, <2>1
  <2>3. CASE i <= Len(s)
    BY <1>2, <1>3, <2>1, <2>2, <2>3
  <2>4. CASE ~(i <= Len(s))
    <3>1. i - Len(s) \in 1..(Len(t) - 1)
      BY <1>1, <1>3, <2>1, <2>4
    <3> QED
      BY <1>1, <1>2, <1>3, <2>1, <2>2, <2>4, <3>1
  <2> QED
    BY <2>3, <2>4
<1>7. Front(l) = r
  BY <1>3, <1>4, <1>5, <1>6, SeqEqual
<1> QED
  BY <1>7 DEF l, r, f

-----------------------------------------------------------------------------
(***************************************************************************)
(* Types.                                                                  *)
(***************************************************************************)
LEMMA MessagesAreTyped ==
  /\ \A q \in Queues, n \in Nat : User(q, n) \in OfQueue(q)
  /\ \A q \in Queues : OfQueue(q) \subseteq Message
  /\ \A n \in Nat : ToolResult(n) \in Message
  /\ \A s \in Stops, n \in Nat : Assistant(s, n) \in Message
  /\ \A m \in Responses : m \in Message /\ m.role = "assistant"
  /\ "prompt" \in Queues /\ "steering" \in Queues /\ "followUp" \in Queues
  /\ "partial" \in Stops /\ "aborted" \in Stops
<1>1. MaxCalls \in Nat
  BY LoopAssumption
<1>2. \A q \in Queues, n \in Nat : User(q, n) \in OfQueue(q)
  BY DEF User, OfQueue
<1>3. \A q \in Queues : OfQueue(q) \subseteq Message
  BY DEF OfQueue, Message
<1>4. \A n \in Nat : ToolResult(n) \in Message
  BY DEF ToolResult, Message
<1>5. \A s \in Stops, n \in Nat : Assistant(s, n) \in Message /\ Assistant(s, n).role = "assistant"
  BY DEF Assistant, Message
<1>6. \A m \in Responses : m \in Message /\ m.role = "assistant"
  <2> TAKE m \in Responses
  <2>1. PICK s \in Stops, k \in 0..MaxCalls : m = Assistant(s, k)
    BY DEF Responses
  <2>2. k \in Nat
    BY <1>1
  <2> QED
    BY <1>5, <2>1, <2>2
<1> QED
  BY <1>2, <1>3, <1>4, <1>5, <1>6 DEF Queues, Stops, Failed

\* The answers of a batch are as many results, from the first call on.
LEMMA AnswersAreResults ==
  ASSUME NEW n \in Int, NEW answers \in Answers(n, cancelled), n > 0
  PROVE  \E k \in 0..n :
           /\ ~cancelled => k = n
           /\ Len(answers) = k
           /\ [i \in 1..Len(answers) |-> ToolResult(answers[i])] = [i \in 1..k |-> ToolResult(i)]
<1>1. PICK k \in (IF cancelled THEN 0..n ELSE {n}) : answers = [c \in 1..k |-> c]
  BY DEF Answers
<1>2. k \in 0..n /\ (~cancelled => k = n)
  BY <1>1
<1>3. Len(answers) = k
  BY <1>1, <1>2
<1>4. [i \in 1..Len(answers) |-> ToolResult(answers[i])] = [i \in 1..k |-> ToolResult(i)]
  BY <1>1, <1>2, <1>3
<1> QED
  BY <1>2, <1>3, <1>4

Results(k) == [i \in 1..k |-> ToolResult(i)]

LEMMA ResultsType ==
  ASSUME NEW k \in Nat
  PROVE  /\ Results(k) \in Seq(Message) /\ Len(Results(k)) = k
         /\ \A i \in 1..k : Results(k)[i] = ToolResult(i)
         /\ Results(k) \in Seq([role : {"toolResult"}, tag : {""}, n : Nat])
<1>1. \A i \in 1..k : ToolResult(i) \in [role : {"toolResult"}, tag : {""}, n : Nat]
  BY DEF ToolResult
<1>2. \A i \in 1..k : ToolResult(i) \in Message
  BY MessagesAreTyped
<1>3. Len(Results(k)) = k /\ \A i \in 1..k : Results(k)[i] = ToolResult(i)
  BY DEF Results
<1>4. Results(k) \in Seq(Message)
  BY <1>2 DEF Results
<1> HIDE DEF Results
<1>5. Results(k) \in Seq([role : {"toolResult"}, tag : {""}, n : Nat])
  <2> DEFINE R == [role : {"toolResult"}, tag : {""}, n : Nat]
  <2>1. \A i \in 1..Len(Results(k)) : Results(k)[i] \in R
    BY <1>1, <1>3
  <2> HIDE DEF R
  <2>2. Results(k) \in Seq(R)
    BY <1>4, <2>1, OverItsElements
  <2> QED
    BY <2>2 DEF R
<1> QED
  BY <1>3, <1>4, <1>5

\* A message is put in place of the partial one.
LEMMA PutIsTyped ==
  ASSUME TypeOK, NEW m \in Message, PutAssistant(m)
  PROVE  context' \in Seq(Message)
<1>1. (IF added THEN Front(context) ELSE context) \in Seq(Message)
  BY FrontType DEF TypeOK
<1> QED
  BY <1>1 DEF PutAssistant

\* The tool results of a batch.
LEMMA ToolsPush ==
  ASSUME TypeOK, TurnIsOpen, RunTools
  PROVE  \E k \in 0..ToRun(Response) :
           /\ context' = context \o Results(k) /\ newMessages' = newMessages \o Results(k)
           /\ ~cancelled => k = ToRun(Response)
           /\ hasMore' \in BOOLEAN /\ (k = 0 => hasMore')
           /\ k \in Nat /\ Response \in Message /\ ToRun(Response) \in Nat
<1>1. Response \in Message /\ Response.role = "assistant"
  BY FrontType DEF RunTools, Response, TypeOK, TurnIsOpen
<1>2. Response.n \in Nat
  BY <1>1 DEF Message
<1>3. ToRun(Response) \in Int /\ ToRun(Response) > 0
  BY <1>2 DEF ToRun, RunTools
<1>4. PICK answers \in Answers(ToRun(Response), cancelled), terminate \in BOOLEAN :
        /\ terminate => answers # <<>>
        /\ Push([k \in 1..Len(answers) |-> ToolResult(answers[k])])
        /\ hasMore' = ~terminate
  BY DEF RunTools
<1>5. PICK k \in 0..ToRun(Response) :
        /\ ~cancelled => k = ToRun(Response)
        /\ Len(answers) = k
        /\ [i \in 1..Len(answers) |-> ToolResult(answers[i])] = Results(k)
  BY <1>3, AnswersAreResults DEF Results
<1>6. k = 0 => answers = <<>>
  <2>1. PICK j \in (IF cancelled THEN 0..ToRun(Response) ELSE {ToRun(Response)}) :
          answers = [c \in 1..j |-> c]
    BY DEF Answers
  <2>2. j \in Nat /\ j = k
    BY <1>3, <1>5, <2>1
  <2> QED
    BY <2>1, <2>2
<1>7. context' = context \o Results(k) /\ newMessages' = newMessages \o Results(k)
  BY <1>4, <1>5 DEF Push
<1>8. hasMore' \in BOOLEAN /\ (k = 0 => hasMore')
  BY <1>4, <1>6
<1>9. k \in Nat /\ ToRun(Response) \in Nat
  BY <1>3
<1> QED
  BY <1>1, <1>5, <1>7, <1>8, <1>9

LEMMA FinalIsTyped ==
  ASSUME TypeOK, TurnIsOpen, pc = "stream",
         NEW m \in Message, m.role = "assistant", FinishMessage(m)
  PROVE  TypeOK' /\ TurnIsOpen'
<1>1. context' \in Seq(Message)
  BY PutIsTyped DEF FinishMessage
<1>2. newMessages' = Append(newMessages, m) /\ newMessages \in Seq(Message)
  BY DEF FinishMessage, TypeOK
<1>3. /\ newMessages' \in Seq(Message) /\ Len(newMessages') \in Nat /\ Len(newMessages') > 0
      /\ newMessages'[Len(newMessages')] = m
  BY <1>2
<1>4. newMessages' # <<>> /\ Response' = m
  BY <1>3 DEF Response
<1>5. TypeOK'
  <2>1. partial' \in -1..MaxCalls
    BY LoopAssumption DEF FinishMessage
  <2> QED
    BY <1>1, <1>3, <2>1 DEF FinishMessage, TypeOK, setup, control, queues, user
<1>6. TurnIsOpen'
  BY <1>4 DEF FinishMessage, TurnIsOpen, InTurn, control
<1> QED
  BY <1>5, <1>6

LEMMA LoopTypesStep ==
  ASSUME TypeOK, TurnIsOpen, [Next]_vars
  PROVE  TypeOK' /\ TurnIsOpen'
<1> USE DEF TypeOK, TurnIsOpen, InTurn, AgentEnd, setup, transcript, control, streamed, queues,
            user, events
<1>1. ASSUME NothingToContinue PROVE TypeOK' /\ TurnIsOpen'
  BY <1>1 DEF NothingToContinue
<1>2. ASSUME Start PROVE TypeOK' /\ TurnIsOpen'
  <2>1. context' \in Seq(Message) /\ newMessages' \in Seq(Message)
    <3>1. User("prompt", 0) \in Message
      BY MessagesAreTyped
    <3> DEFINE p == <<User("prompt", 0)>>
    <3>2. p \in Seq(Message)
      BY <3>1
    <3>3. \/ context' = context /\ newMessages' = newMessages
          \/ context' = context \o p /\ newMessages' = newMessages \o p
      BY <1>2 DEF Start, Push
    <3> HIDE DEF p
    <3>4. context \o p \in Seq(Message) /\ newMessages \o p \in Seq(Message)
      BY <3>2, ConcatProperties
    <3> QED
      BY <3>3, <3>4
  <2>2. TypeOK'
    BY <1>2, <2>1 DEF Start, DrainSteering
  <2>3. TurnIsOpen'
    BY <1>2 DEF Start
  <2> QED
    BY <2>2, <2>3
<1>3. ASSUME StopCancelled PROVE TypeOK' /\ TurnIsOpen'
  BY <1>3 DEF StopCancelled
<1>4. ASSUME CallModel PROVE TypeOK' /\ TurnIsOpen'
  <2>1. context' \in Seq(Message) /\ newMessages' \in Seq(Message)
    BY <1>4 DEF CallModel, Push
  <2>2. openTurns' \in Nat /\ openTurns' > 0
    BY <1>4 DEF CallModel, EmitTurnStart
  <2>3. partial' \in -1..MaxCalls
    BY <1>4, LoopAssumption DEF CallModel
  <2>4. TypeOK'
    <3>1. /\ firstTurn' = FALSE /\ pending' = <<>> /\ added' = FALSE /\ pc' = "stream"
          /\ modelCalls' \in Nat
      BY <1>4 DEF CallModel, EmitTurnStart
    <3>2. /\ UNCHANGED <<history, continued, hasMore, turnCount, authRetried>>
          /\ UNCHANGED <<steering, followUps, sentSteering, sentFollowUps, cancelled>>
          /\ UNCHANGED <<openMessage, reported>>
      BY <1>4 DEF CallModel
    <3>3. pending' \in Seq(Message)
      BY <3>1, EmptySeq
    <3>4. /\ history' \in Histories /\ continued' \in BOOLEAN /\ hasMore' \in BOOLEAN
          /\ turnCount' \in Nat /\ authRetried' \in BOOLEAN
      BY <3>2
    <3>5. /\ steering' \in Seq(Message) /\ followUps' \in Seq(Message)
          /\ sentSteering' \in 0..MaxSteering /\ sentFollowUps' \in 0..MaxFollowUps
          /\ cancelled' \in BOOLEAN /\ openMessage' \in BOOLEAN /\ reported' \in Seq(Message)
      BY <3>2
    <3>6. /\ firstTurn' \in BOOLEAN /\ added' \in BOOLEAN
          /\ pc' \in {"start", "while", "stream", "response", "turnEnd", "done", "crashed"}
      BY <3>1
    <3> QED
      BY <2>1, <2>2, <2>3, <3>1, <3>3, <3>4, <3>5, <3>6, Zenon
  <2>5. TurnIsOpen'
    BY <1>4, <2>2 DEF CallModel, EmitTurnStart
  <2> QED
    BY <2>4, <2>5
<1>5. ASSUME DrainFollowUps PROVE TypeOK' /\ TurnIsOpen'
  <2>1. /\ pc = "while" /\ followUps' = <<>> /\ UNCHANGED <<newMessages, firstTurn, openTurns>>
        /\ pc' \in {"while", "done"} /\ hasMore' \in BOOLEAN
        /\ pending' \in Seq(Message) /\ reported' \in Seq(Message)
    BY <1>5 DEF DrainFollowUps
  <2>2. TypeOK'
    BY <1>5, <2>1 DEF DrainFollowUps
  <2>3. TurnIsOpen'
    BY <2>1
  <2> QED
    BY <2>2, <2>3
<1>6. ASSUME StreamStart PROVE TypeOK' /\ TurnIsOpen'
  <2>1. context' \in Seq(Message)
    BY <1>6, MessagesAreTyped, PutIsTyped DEF StreamStart
  <2>2. partial' \in -1..MaxCalls
    BY <1>6, LoopAssumption DEF StreamStart
  <2> QED
    BY <1>6, <2>1, <2>2 DEF StreamStart
<1>7. ASSUME StreamUpdate PROVE TypeOK' /\ TurnIsOpen'
  <2>1. PICK k \in 0..MaxCalls :
          /\ partial' = k
          /\ IF added THEN PutAssistant(Assistant("partial", k)) ELSE UNCHANGED context
    BY <1>7 DEF StreamUpdate
  <2>2. k \in Nat /\ k \in -1..MaxCalls
    BY LoopAssumption
  <2>3. context' \in Seq(Message)
    BY <2>1, <2>2, MessagesAreTyped, PutIsTyped
  <2> QED
    BY <1>7, <2>1, <2>2, <2>3 DEF StreamUpdate
<1>8. ASSUME StreamFinal PROVE TypeOK' /\ TurnIsOpen'
  BY <1>8, MessagesAreTyped, FinalIsTyped DEF StreamFinal
<1>9. ASSUME StreamCancelled PROVE TypeOK' /\ TurnIsOpen'
  <2>1. partial \in Nat
    BY <1>9, LoopAssumption DEF StreamCancelled
  <2>2. Assistant("aborted", partial) \in Message
    BY <2>1, MessagesAreTyped
  <2>3. Assistant("aborted", partial).role = "assistant"
    BY DEF Assistant
  <2> QED
    BY <1>9, <2>2, <2>3, FinalIsTyped DEF StreamCancelled
<1>10. ASSUME StreamDropped \/ StreamEof PROVE TypeOK' /\ TurnIsOpen'
  <2>1. context' \in Seq(Message)
    BY <1>10, FrontType DEF StreamDropped, StreamEof, WithoutPartial
  <2>2. openTurns' \in Nat
    BY <1>10 DEF StreamDropped, StreamEof, LoseMessage
  <2>3. partial' \in -1..MaxCalls
    BY <1>10, LoopAssumption DEF StreamDropped, StreamEof, LoseMessage
  <2> QED
    BY <1>10, <2>1, <2>2, <2>3 DEF StreamDropped, StreamEof, LoseMessage
<1>11. ASSUME RetryAfterRefresh PROVE TypeOK' /\ TurnIsOpen'
  <2>1. context' \in Seq(Message) /\ newMessages' \in Seq(Message)
    BY <1>11, FrontType DEF RetryAfterRefresh
  <2> QED
    BY <1>11, <2>1 DEF RetryAfterRefresh
<1>12. ASSUME FailTurn PROVE TypeOK' /\ TurnIsOpen'
  <2>1. authRetried' \in BOOLEAN
    BY <1>12, LoopAssumption DEF FailTurn, MayRefresh
  <2> QED
    BY <1>12, <2>1 DEF FailTurn
<1>13. ASSUME RunTools PROVE TypeOK' /\ TurnIsOpen'
  <2>1. PICK k \in Nat : /\ context' = context \o Results(k) /\ newMessages' = newMessages \o Results(k)
                         /\ hasMore' \in BOOLEAN
    BY <1>13, ToolsPush
  <2>2. context' \in Seq(Message) /\ newMessages' \in Seq(Message)
    <3> DEFINE w == Results(k)
    <3>1. w \in Seq(Message)
      BY ResultsType
    <3>2. context' = context \o w /\ newMessages' = newMessages \o w
      BY <2>1
    <3> HIDE DEF w
    <3> QED
      BY <3>1, <3>2
  <2> QED
    BY <1>13, <2>1, <2>2 DEF RunTools
<1>14. ASSUME LoseRun \/ NoToolsToRun PROVE TypeOK' /\ TurnIsOpen'
  <2>1. CASE LoseRun
    BY <2>1 DEF LoseRun
  <2>2. CASE NoToolsToRun
    BY <2>2 DEF NoToolsToRun
  <2> QED
    BY <1>14, <2>1, <2>2
<1>15. ASSUME EndTurn PROVE TypeOK' /\ TurnIsOpen'
  <2>1. /\ pc = "turnEnd" /\ UNCHANGED <<newMessages, firstTurn>>
        /\ pc' \in {"while", "done"} /\ openTurns' \in Nat
        /\ turnCount' \in Nat /\ pending' \in Seq(Message) /\ steering' \in Seq(Message)
        /\ reported' \in Seq(Message)
    <3>1. /\ pc = "turnEnd" /\ UNCHANGED <<newMessages, firstTurn>>
          /\ openTurns' = openTurns - 1 /\ openTurns' \in Nat
      BY <1>15 DEF EndTurn
    <3>2. \/ /\ pc' = "done" /\ reported' = newMessages /\ turnCount' \in {turnCount, turnCount + 1}
             /\ UNCHANGED <<pending, steering>>
          \/ /\ pc' = "while" /\ pending' = steering /\ steering' = <<>>
             /\ turnCount' = turnCount + 1 /\ UNCHANGED reported
      BY <1>15 DEF EndTurn, DrainSteering
    <3>3. pc' \in {"while", "done"} /\ turnCount' \in Nat
      BY <3>2
    <3>4. pending' \in Seq(Message) /\ steering' \in Seq(Message) /\ reported' \in Seq(Message)
      <4>1. <<>> \in Seq(Message)
        BY EmptySeq
      <4> QED
        BY <3>2, <4>1
    <3> QED
      BY <3>1, <3>3, <3>4
  <2>2. TypeOK'
    BY <1>15, <2>1 DEF EndTurn
  <2>3. TurnIsOpen'
    BY <2>1
  <2> QED
    BY <2>2, <2>3
<1>16. ASSUME Steer PROVE TypeOK' /\ TurnIsOpen'
  <2>1. sentSteering' \in 0..MaxSteering /\ sentSteering' \in Nat
    BY <1>16, LoopAssumption DEF Steer
  <2>2. User("steering", sentSteering') \in Message
    BY <2>1, MessagesAreTyped
  <2>3. steering' \in Seq(Message)
    BY <1>16, <2>2 DEF Steer
  <2> QED
    BY <1>16, <2>1, <2>3 DEF Steer, Response
<1>17. ASSUME FollowUp PROVE TypeOK' /\ TurnIsOpen'
  <2>1. sentFollowUps' \in 0..MaxFollowUps /\ sentFollowUps' \in Nat
    BY <1>17, LoopAssumption DEF FollowUp
  <2>2. User("followUp", sentFollowUps') \in Message
    BY <2>1, MessagesAreTyped
  <2>3. followUps' \in Seq(Message)
    BY <1>17, <2>2 DEF FollowUp
  <2> QED
    BY <1>17, <2>1, <2>3 DEF FollowUp, Response
<1>18. ASSUME Cancel PROVE TypeOK' /\ TurnIsOpen'
  BY <1>18 DEF Cancel, Response
<1>19. ASSUME UNCHANGED vars PROVE TypeOK' /\ TurnIsOpen'
  BY <1>19 DEF vars, Response
<1> QED
  BY <1>1, <1>2, <1>3, <1>4, <1>5, <1>6, <1>7, <1>8, <1>9, <1>10, <1>11, <1>12, <1>13, <1>14,
     <1>15, <1>16, <1>17, <1>18, <1>19 DEF Next, Loop, Stream, Turn, Over

LEMMA LoopTypesInit == Init => TypeOK /\ TurnIsOpen
<1>1. \A h \in Histories : h \in Seq(Message)
  BY LoopAssumption
<1>2. MaxCalls \in Nat /\ MaxSteering \in Nat /\ MaxFollowUps \in Nat
  BY LoopAssumption
<1>3. -1 \in -1..MaxCalls /\ 0 \in 0..MaxSteering /\ 0 \in 0..MaxFollowUps
  BY <1>2
<1> SUFFICES ASSUME Init PROVE TypeOK /\ TurnIsOpen
  OBVIOUS
<1>4. history \in Histories /\ context \in Seq(Message)
  BY <1>1 DEF Init
<1>5. TypeOK
  <2>1. /\ history \in Histories /\ continued \in BOOLEAN /\ pc = "start"
        /\ context \in Seq(Message) /\ newMessages = <<>> /\ pending = <<>> /\ reported = <<>>
        /\ steering = <<>> /\ followUps = <<>>
    BY <1>4 DEF Init
  <2>2. /\ hasMore = TRUE /\ firstTurn = TRUE /\ added = FALSE /\ authRetried = FALSE
        /\ cancelled = FALSE /\ openMessage = FALSE
        /\ turnCount = 0 /\ openTurns = 0 /\ modelCalls = 0
        /\ partial = -1 /\ sentSteering = 0 /\ sentFollowUps = 0
    BY DEF Init
  <2>3. /\ newMessages \in Seq(Message) /\ pending \in Seq(Message) /\ reported \in Seq(Message)
        /\ steering \in Seq(Message) /\ followUps \in Seq(Message)
    BY <2>1
  <2>4. /\ partial \in -1..MaxCalls /\ sentSteering \in 0..MaxSteering
        /\ sentFollowUps \in 0..MaxFollowUps
        /\ turnCount \in Nat /\ openTurns \in Nat /\ modelCalls \in Nat
    BY <1>3, <2>2
  <2>5. /\ hasMore \in BOOLEAN /\ firstTurn \in BOOLEAN /\ added \in BOOLEAN
        /\ authRetried \in BOOLEAN /\ cancelled \in BOOLEAN /\ openMessage \in BOOLEAN
    BY <2>2
  <2>6. pc \in {"start", "while", "stream", "response", "turnEnd", "done", "crashed"}
    BY <2>1
  <2> QED
    BY <2>1, <2>3, <2>4, <2>5, <2>6, Zenon DEF TypeOK
<1>6. TurnIsOpen
  BY DEF Init, TurnIsOpen, InTurn
<1> QED
  BY <1>5, <1>6

-----------------------------------------------------------------------------
(***************************************************************************)
(* The transcript and the report.                                          *)
(***************************************************************************)
LEMMA TranscriptType ==
  ASSUME TypeOK
  PROVE  /\ history \in Seq(Message) /\ Transcript \in Seq(Message)
         /\ Paired(history)
<1>1. history \in Seq(Message) /\ Paired(history)
  BY LoopAssumption DEF TypeOK
<1>2. newMessages \in Seq(Message)
  BY DEF TypeOK
<1> QED
  BY <1>1, <1>2, ConcatProperties DEF Transcript

\* A final message ends the context and the new messages alike.
LEMMA FinalEndsBoth ==
  ASSUME TypeOK, TranscriptsAgree, pc = "stream", NEW m \in Message, FinishMessage(m)
  PROVE  /\ context' = Append(Transcript, m) /\ context' = Transcript'
         /\ newMessages' = Append(newMessages, m)
         /\ Front(newMessages') = newMessages /\ Front(Transcript') = Transcript
<1>1. newMessages' = Append(newMessages, m) /\ history' = history
  BY DEF FinishMessage, setup
<1>2. history \in Seq(Message) /\ Transcript \in Seq(Message) /\ newMessages \in Seq(Message)
  BY TranscriptType DEF TypeOK
<1>3. context' = Append(Transcript, m)
  BY DEF FinishMessage, PutAssistant, TranscriptsAgree, TypeOK
<1>4. Append(history \o newMessages, m) = history \o Append(newMessages, m)
  <2>1. \A v, w \in Seq(Message), x \in Message : PutBehind(v, w, x)
    BY AppendToConcat
  <2>2. PutBehind(history, newMessages, m)
    BY <1>2, <2>1
  <2> QED
    BY <2>2, Zenon DEF PutBehind
<1>5. Transcript' = Append(Transcript, m)
  BY <1>1, <1>4 DEF Transcript
<1>6. Front(newMessages') = newMessages /\ Front(Append(Transcript, m)) = Transcript
  BY <1>1, <1>2, FrontAppend
<1> QED
  BY <1>1, <1>3, <1>5, <1>6

\* So does what is pushed.
LEMMA PushedOnBoth ==
  ASSUME TypeOK, NEW ms \in Seq(Message), context = Transcript, history' = history,
         context' = context \o ms, newMessages' = newMessages \o ms
  PROVE  context' = Transcript' /\ Transcript' = Transcript \o ms
<1>1. history \in Seq(Message) /\ newMessages \in Seq(Message)
  BY TranscriptType DEF TypeOK
<1>2. (history \o newMessages) \o ms = history \o (newMessages \o ms)
  BY <1>1, ConcatAssociative, SMTT(30)
<1> QED
  BY <1>2 DEF Transcript

LEMMA TranscriptsStep ==
  ASSUME TypeOK, TurnIsOpen, TranscriptsAgree, [Next]_vars
  PROVE  TranscriptsAgree'
<1> USE DEF setup, transcript, control, streamed, queues, user, events
<1>1. ASSUME NothingToContinue PROVE TranscriptsAgree'
  <2>1. /\ context' = history' /\ pc' = "done" /\ reported' = <<>> /\ history' \in Seq(Message)
    BY <1>1, TranscriptType DEF NothingToContinue, AgentEnd, TranscriptsAgree
  <2>2. history' \o <<>> = history'
    BY <2>1, ConcatEmptySeq
  <2> QED
    BY <2>1, <2>2 DEF TranscriptsAgree, ReportIsWhatTheRunAdded
<1>2. ASSUME Start PROVE TranscriptsAgree'
  <2>1. pc' = "while" /\ history' = history /\ newMessages = <<>> /\ context = history
    BY <1>2 DEF Start, TranscriptsAgree
  <2>2. context = Transcript
    BY <2>1, TranscriptType, ConcatEmptySeq DEF Transcript
  <2>3. context' = Transcript'
    <3>1. CASE UNCHANGED <<context, newMessages>>
      BY <2>1, <2>2, <3>1 DEF Transcript
    <3>2. CASE Push(<<User("prompt", 0)>>)
      <4> DEFINE p == <<User("prompt", 0)>>
      <4>1. User("prompt", 0) \in Message
        BY MessagesAreTyped
      <4>2. p \in Seq(Message)
        BY <4>1
      <4>3. context' = context \o p /\ newMessages' = newMessages \o p
        BY <3>2 DEF Push
      <4> HIDE DEF p
      <4> QED
        BY <2>1, <2>2, <4>2, <4>3, PushedOnBoth
    <3> QED
      BY <1>2, <3>1, <3>2 DEF Start
  <2> QED
    BY <2>1, <2>3 DEF TranscriptsAgree, ReportIsWhatTheRunAdded
<1>3. ASSUME CallModel PROVE TranscriptsAgree'
  <2>1. /\ pc = "while" /\ pc' = "stream" /\ ~added' /\ history' = history
        /\ context' = context \o pending /\ newMessages' = newMessages \o pending
        /\ pending \in Seq(Message)
    BY <1>3 DEF CallModel, Push, TypeOK
  <2>2. context' = Transcript'
    BY <2>1, PushedOnBoth DEF TranscriptsAgree
  <2> QED
    BY <2>1, <2>2 DEF TranscriptsAgree, ReportIsWhatTheRunAdded
\* The run goes on or ends with what it has.
<1>4. ASSUME pc \in {"while", "response", "turnEnd"},
             UNCHANGED <<history, context, newMessages>>,
             \/ pc' \in {"while", "turnEnd", "crashed"}
             \/ pc' = "done" /\ reported' = newMessages
      PROVE  TranscriptsAgree'
  BY <1>4 DEF TranscriptsAgree, ReportIsWhatTheRunAdded, Transcript
<1>5. ASSUME StopCancelled \/ DrainFollowUps \/ FailTurn \/ LoseRun \/ NoToolsToRun \/ EndTurn
      PROVE  TranscriptsAgree'
  <2>1. /\ pc \in {"while", "response", "turnEnd"}
        /\ UNCHANGED <<history, context, newMessages>>
    BY <1>5 DEF StopCancelled, DrainFollowUps, FailTurn, LoseRun, NoToolsToRun, EndTurn
  <2>2. \/ pc' \in {"while", "turnEnd", "crashed"}
        \/ pc' = "done" /\ reported' = newMessages
    BY <1>5 DEF StopCancelled, DrainFollowUps, FailTurn, LoseRun, NoToolsToRun, EndTurn, AgentEnd
  <2> QED
    BY <1>4, <2>1, <2>2
<1>6. ASSUME pc = "stream", pc' = "stream", UNCHANGED <<history, newMessages>>,
             NEW m \in Message,
             \/ added' /\ PutAssistant(m) /\ partial' # -1
             \/ UNCHANGED <<added, context>> /\ ~added
      PROVE  TranscriptsAgree'
  <2>1. Transcript \in Seq(Message) /\ Transcript' = Transcript
    BY <1>6, TranscriptType DEF Transcript
  <2>2. CASE added' /\ PutAssistant(m) /\ partial' # -1
    <3>1. context' = Append(Transcript, m)
      BY <1>6, <2>2 DEF PutAssistant, TranscriptsAgree, TypeOK
    <3>2. Front(Append(Transcript, m)) = Transcript /\ Append(Transcript, m) # <<>>
      BY <2>1, FrontAppend, AppendProperties
    <3> QED
      BY <1>6, <2>1, <2>2, <3>1, <3>2 DEF TranscriptsAgree, ReportIsWhatTheRunAdded
  <2>3. CASE UNCHANGED <<added, context>> /\ ~added
    BY <1>6, <2>1, <2>3 DEF TranscriptsAgree, ReportIsWhatTheRunAdded
  <2> QED
    BY <1>6, <2>2, <2>3
<1>7. ASSUME StreamStart \/ StreamUpdate PROVE TranscriptsAgree'
  <2>1. \A k \in Nat : Assistant("partial", k) \in Message
    BY MessagesAreTyped
  <2>2. CASE StreamStart
    <3>1. Assistant("partial", 0) \in Message /\ 0 # -1
      BY <2>1
    <3>2. /\ pc = "stream" /\ pc' = "stream" /\ UNCHANGED <<history, newMessages>>
          /\ added' /\ PutAssistant(Assistant("partial", 0)) /\ partial' = 0
      BY <2>2 DEF StreamStart
    <3> QED
      BY <1>6, <3>1, <3>2
  <2>3. CASE StreamUpdate
    <3>1. PICK k \in 0..MaxCalls :
            /\ partial' = k
            /\ IF added THEN PutAssistant(Assistant("partial", k)) ELSE UNCHANGED context
      BY <2>3 DEF StreamUpdate
    <3>2. Assistant("partial", k) \in Message /\ k # -1
      BY <2>1, LoopAssumption
    <3>3. pc = "stream" /\ pc' = "stream" /\ UNCHANGED <<history, newMessages, added>>
      BY <2>3 DEF StreamUpdate
    <3>4. added \in BOOLEAN
      BY DEF TypeOK
    <3> QED
      BY <1>6, <3>1, <3>2, <3>3, <3>4
  <2> QED
    BY <1>7, <2>2, <2>3
<1>8. ASSUME StreamFinal \/ StreamCancelled PROVE TranscriptsAgree'
  <2>1. PICK m \in Message : FinishMessage(m)
    <3>1. CASE StreamFinal
      BY <3>1, MessagesAreTyped DEF StreamFinal
    <3>2. CASE StreamCancelled
      <4>1. partial \in Nat
        BY <3>2, LoopAssumption DEF StreamCancelled, TypeOK
      <4> QED
        BY <3>2, <4>1, MessagesAreTyped DEF StreamCancelled
    <3> QED
      BY <1>8, <3>1, <3>2
  <2>2. pc = "stream" /\ pc' = "response"
    BY <1>8, <2>1 DEF StreamFinal, StreamCancelled, FinishMessage
  <2>3. context' = Transcript'
    BY <2>1, <2>2, FinalEndsBoth
  <2> QED
    BY <2>2, <2>3 DEF TranscriptsAgree, ReportIsWhatTheRunAdded
<1>9. ASSUME StreamDropped \/ StreamEof PROVE TranscriptsAgree'
  <2>1. /\ pc = "stream" /\ pc' = "done" /\ reported' = newMessages
        /\ UNCHANGED <<history, newMessages>>
    BY <1>9 DEF StreamDropped, StreamEof, LoseMessage, AgentEnd
  <2>2. context' = Transcript
    <3>1. CASE StreamEof
      BY <2>1, <3>1 DEF StreamEof, WithoutPartial, TranscriptsAgree, TypeOK
    <3>2. CASE StreamDropped
      BY <2>1, <3>2 DEF StreamDropped, TranscriptsAgree
    <3> QED
      BY <1>9, <3>1, <3>2
  <2> QED
    BY <2>1, <2>2 DEF TranscriptsAgree, ReportIsWhatTheRunAdded, Transcript
<1>10. ASSUME RetryAfterRefresh PROVE TranscriptsAgree'
  <2>1. /\ pc = "response" /\ pc' = "while" /\ history' = history
        /\ context' = Front(context) /\ newMessages' = Front(newMessages)
        /\ context = history \o newMessages /\ newMessages # <<>>
    BY <1>10 DEF RetryAfterRefresh, TranscriptsAgree, TurnIsOpen, Transcript
  <2>2. history \in Seq(Message) /\ newMessages \in Seq(Message)
    BY TranscriptType DEF TypeOK
  <2>3. context' = Transcript'
    BY <2>1, <2>2, FrontConcat DEF Transcript
  <2> QED
    BY <2>1, <2>3 DEF TranscriptsAgree, ReportIsWhatTheRunAdded
<1>11. ASSUME RunTools PROVE TranscriptsAgree'
  <2>1. PICK k \in Nat : context' = context \o Results(k) /\ newMessages' = newMessages \o Results(k)
    BY <1>11, ToolsPush
  <2>2. pc = "response" /\ pc' = "turnEnd" /\ history' = history
    BY <1>11 DEF RunTools
  <2>3. context' = Transcript'
    BY <2>1, <2>2, ResultsType, PushedOnBoth DEF TranscriptsAgree
  <2> QED
    BY <2>2, <2>3 DEF TranscriptsAgree, ReportIsWhatTheRunAdded
<1>12. ASSUME Steer \/ FollowUp \/ Cancel \/ UNCHANGED vars PROVE TranscriptsAgree'
  <2>1. UNCHANGED <<history, pc, context, newMessages, partial, added, reported>>
    BY <1>12 DEF Steer, FollowUp, Cancel, vars
  <2>2. Transcript' = Transcript /\ Front(context)' = Front(context)
    BY <2>1 DEF Transcript
  <2> QED
    BY <2>1, <2>2 DEF TranscriptsAgree, ReportIsWhatTheRunAdded
<1> QED
  BY <1>1, <1>2, <1>3, <1>5, <1>7, <1>8, <1>9, <1>10, <1>11, <1>12
     DEF Next, Loop, Stream, Turn, Over

-----------------------------------------------------------------------------
(***************************************************************************)
(* Requests.                                                               *)
(***************************************************************************)
LEMMA RequestsStep ==
  ASSUME TypeOK, RequestsAreCounted, [Next]_vars
  PROVE  RequestsAreCounted'
<1> USE DEF setup, control, streamed, queues, user, events
<1>1. turnCount \in Nat /\ modelCalls \in Nat /\ authRetried \in BOOLEAN /\ MaxTurns \in Nat \ {0}
  BY LoopAssumption DEF TypeOK
\* Most steps count nothing.
<1>2. ASSUME UNCHANGED <<turnCount, authRetried, modelCalls>>,
             \/ pc' = pc
             \/ InTurn /\ pc' \in {"stream", "response", "turnEnd", "done", "crashed"}
             \/ pc \in {"start", "while"} /\ pc' = "done"
             \/ pc = "start" /\ pc' = "while"
      PROVE  RequestsAreCounted'
  <2>1. Retries' = Retries
    BY <1>2 DEF Retries
  <2>2. modelCalls' <= MaxTurns + (IF authRetried' THEN 1 ELSE 0)
    BY <1>1, <1>2 DEF RequestsAreCounted, RequestsAreBounded
  <2> QED
    BY <1>1, <1>2, <2>1, <2>2 DEF RequestsAreCounted, RequestsAreBounded, InTurn, Retries
<1>3. ASSUME NothingToContinue \/ StopCancelled \/ DrainFollowUps \/ StreamDropped \/ StreamEof
             \/ RunTools \/ LoseRun \/ NoToolsToRun
      PROVE  RequestsAreCounted'
  <2>1. UNCHANGED <<turnCount, authRetried, modelCalls>>
    BY <1>3 DEF NothingToContinue, StopCancelled, DrainFollowUps, StreamDropped, StreamEof,
                LoseMessage, RunTools, LoseRun, NoToolsToRun
  <2>2. \/ pc' = pc
        \/ InTurn /\ pc' \in {"stream", "response", "turnEnd", "done", "crashed"}
        \/ pc \in {"start", "while"} /\ pc' = "done"
    BY <1>3 DEF NothingToContinue, StopCancelled, DrainFollowUps, StreamDropped, StreamEof,
                LoseMessage, RunTools, LoseRun, NoToolsToRun, AgentEnd, InTurn
  <2> QED
    BY <1>2, <2>1, <2>2
<1>4. ASSUME Start PROVE RequestsAreCounted'
  BY <1>2, <1>4 DEF Start
<1>5. ASSUME StreamStart \/ StreamUpdate PROVE RequestsAreCounted'
  BY <1>2, <1>5 DEF StreamStart, StreamUpdate
<1>6. ASSUME StreamFinal \/ StreamCancelled PROVE RequestsAreCounted'
  BY <1>2, <1>6 DEF StreamFinal, StreamCancelled, FinishMessage, InTurn
<1>7. ASSUME Steer \/ FollowUp \/ Cancel \/ UNCHANGED vars PROVE RequestsAreCounted'
  <2>1. UNCHANGED <<pc, turnCount, authRetried, modelCalls>>
    BY <1>7 DEF Steer, FollowUp, Cancel, vars
  <2> QED
    BY <1>2, <2>1
<1>8. ASSUME CallModel PROVE RequestsAreCounted'
  <2>1. /\ pc = "while" /\ pc' = "stream" /\ modelCalls' = modelCalls + 1
        /\ UNCHANGED <<turnCount, authRetried>>
    BY <1>8 DEF CallModel
  <2>2. turnCount < MaxTurns /\ modelCalls <= turnCount + Retries /\ Retries \in {0, 1}
    BY <2>1 DEF RequestsAreCounted, Retries
  <2> QED
    BY <1>1, <2>1, <2>2 DEF RequestsAreCounted, RequestsAreBounded, Retries, InTurn
<1>9. ASSUME RetryAfterRefresh PROVE RequestsAreCounted'
  <2>1. /\ pc = "response" /\ pc' = "while" /\ ~authRetried /\ authRetried'
        /\ UNCHANGED <<turnCount, modelCalls>>
    BY <1>9 DEF RetryAfterRefresh, MayRefresh
  <2>2. turnCount < MaxTurns /\ modelCalls <= turnCount + 1
    BY <1>1, <2>1 DEF RequestsAreCounted, Retries, InTurn
  <2> QED
    BY <1>1, <2>1, <2>2 DEF RequestsAreCounted, RequestsAreBounded, Retries, InTurn
<1>10. ASSUME FailTurn PROVE RequestsAreCounted'
  <2>1. /\ pc = "response" /\ pc' = "done" /\ (authRetried => authRetried')
        /\ UNCHANGED <<turnCount, modelCalls>>
    BY <1>10 DEF FailTurn, AgentEnd
  <2> QED
    BY <1>1, <2>1 DEF RequestsAreCounted, RequestsAreBounded, InTurn
<1>11. ASSUME EndTurn PROVE RequestsAreCounted'
  <2>1. /\ pc = "turnEnd" /\ UNCHANGED <<authRetried, modelCalls>>
        /\ \/ pc' = "done"
           \/ pc' = "while" /\ turnCount' = turnCount + 1 /\ ~(turnCount + 1 >= MaxTurns)
    BY <1>11 DEF EndTurn, AgentEnd
  <2>2. Retries' = Retries /\ Retries \in {0, 1}
    BY <2>1 DEF Retries
  <2>3. modelCalls <= turnCount + 1 + Retries
    BY <2>1 DEF RequestsAreCounted, InTurn
  <2> QED
    BY <1>1, <2>1, <2>2, <2>3 DEF RequestsAreCounted, RequestsAreBounded, InTurn
<1> QED
  BY <1>3, <1>4, <1>5, <1>6, <1>7, <1>8, <1>9, <1>10, <1>11 DEF Next, Loop, Stream, Turn, Over

-----------------------------------------------------------------------------
(***************************************************************************)
(* Queued messages.                                                        *)
(***************************************************************************)
NotQueued == Message \ (OfQueue("steering") \cup OfQueue("followUp"))

\* What the run or the model says is not one of them.
LEMMA OwnWords ==
  /\ User("prompt", 0) \in NotQueued
  /\ \A m \in Message : m.role # "user" => m \in NotQueued
  /\ \A k \in Nat : Results(k) \in Seq(NotQueued)
<1>1. User("prompt", 0) \in NotQueued
  <2>1. User("prompt", 0) \in Message
    BY MessagesAreTyped
  <2>2. User("prompt", 0).tag = "prompt"
    BY DEF User
  <2> QED
    BY <2>1, <2>2 DEF NotQueued, OfQueue
<1>2. \A m \in Message : m.role # "user" => m \in NotQueued
  BY DEF NotQueued, OfQueue
<1>3. ASSUME NEW k \in Nat PROVE Results(k) \in Seq(NotQueued)
  <2>1. /\ Results(k) \in Seq(Message) /\ Len(Results(k)) = k
        /\ \A i \in 1..k : Results(k)[i] = ToolResult(i)
    BY ResultsType
  <2>2. ASSUME NEW i \in 1..k PROVE ToolResult(i) \in NotQueued
    <3>1. ToolResult(i) \in Message
      BY MessagesAreTyped
    <3>2. ToolResult(i).role = "toolResult"
      BY DEF ToolResult
    <3> QED
      BY <1>2, <3>1, <3>2
  <2>3. \A i \in 1..Len(Results(k)) : Results(k)[i] \in NotQueued
    BY <2>1, <2>2
  <2> QED
    BY <2>1, <2>3, OverItsElements
<1> QED
  BY <1>1, <1>2, <1>3

LEMMA HeardAfter ==
  ASSUME NEW s \in Seq(Message), NEW ms \in Seq(NotQueued), NEW q \in {"steering", "followUp"}
  PROVE  Kept(s \o ms, OfQueue(q)) = Kept(s, OfQueue(q))
<1>1. ms \in Seq(Message)
  <2>1. NotQueued \subseteq Message
    BY DEF NotQueued
  <2> QED
    BY <2>1, SeqMonotonic
<1>2. Kept(s \o ms, OfQueue(q)) = Kept(s, OfQueue(q)) \o Kept(ms, OfQueue(q))
  BY <1>1, KeptConcat
<1>3. NotQueued \cap OfQueue(q) = {}
  BY DEF NotQueued
<1>4. Kept(ms, OfQueue(q)) = <<>>
  BY <1>3, KeptNone
<1>5. Kept(s, OfQueue(q)) \in Seq(Message)
  BY KeptType
<1> QED
  BY <1>2, <1>4, <1>5, ConcatEmptySeq

LEMMA OneQueue ==
  /\ \A s \in Seq(OfQueue("steering")) :
        Kept(s, OfQueue("steering")) = s /\ Kept(s, OfQueue("followUp")) = <<>>
  /\ \A s \in Seq(OfQueue("followUp")) :
        Kept(s, OfQueue("followUp")) = s /\ Kept(s, OfQueue("steering")) = <<>>
  /\ \A q \in Queues : Kept(<<>>, OfQueue(q)) = <<>>
<1>1. OfQueue("steering") \cap OfQueue("followUp") = {}
  BY DEF OfQueue
<1>2. \A q, r \in Queues : \A s \in Seq(OfQueue(q)) : OfQueue(q) \cap OfQueue(r) = {} =>
        Kept(s, OfQueue(r)) = <<>>
  BY KeptNone
<1>3. \A q \in Queues : \A s \in Seq(OfQueue(q)) : Kept(s, OfQueue(q)) = s
  BY KeptAll
<1> QED
  BY <1>1, <1>2, <1>3, KeptEmpty, MessagesAreTyped

\* What is heard, pending and queued, in this order.
Steered  == Heard("steering") \o Held("steering") \o steering
Followed == Heard("followUp") \o Held("followUp") \o followUps

LEMMA SequencesOfQueues ==
  ASSUME TypeOK, QueuesAreTheirs
  PROVE  /\ Heard("steering") \in Seq(Message) /\ Heard("followUp") \in Seq(Message)
         /\ Held("steering") \in Seq(Message) /\ Held("followUp") \in Seq(Message)
         /\ steering \in Seq(Message) /\ followUps \in Seq(Message)
         /\ newMessages \in Seq(Message) /\ pending \in Seq(Message)
BY KeptType DEF TypeOK, Heard, Held

\* The run takes a queue, which it has nothing else pending of.
LEMMA Taken ==
  ASSUME TypeOK, QueuesAreTheirs, pending = <<>>, Heard("steering")' = Heard("steering"),
         Heard("followUp")' = Heard("followUp"),
         \/ pending' = steering /\ steering' = <<>> /\ UNCHANGED followUps
         \/ pending' = followUps /\ followUps' = <<>> /\ UNCHANGED steering
  PROVE  /\ Steered' = Steered /\ Followed' = Followed
         /\ pending' \in Seq(OfQueue("steering")) \cup Seq(OfQueue("followUp"))
         /\ steering' \in Seq(OfQueue("steering")) /\ followUps' \in Seq(OfQueue("followUp"))
<1>1. steering \in Seq(OfQueue("steering")) /\ followUps \in Seq(OfQueue("followUp"))
  BY DEF QueuesAreTheirs
<1>2. Held("steering") = <<>> /\ Held("followUp") = <<>>
  BY OneQueue, MessagesAreTyped DEF Held
<1>3. \A h, s \in Seq(Message) : (h \o s) \o <<>> = (h \o <<>>) \o s
  <2> TAKE h, s \in Seq(Message)
  <2>1. h \o s \in Seq(Message)
    BY ConcatProperties
  <2> QED
    BY <2>1, ConcatEmptySeq
<1>4. CASE pending' = steering /\ steering' = <<>> /\ UNCHANGED followUps
  <2>1. Held("steering")' = steering /\ Held("followUp")' = <<>>
    BY <1>1, <1>4, OneQueue DEF Held
  <2>2. Steered' = (Heard("steering") \o steering) \o <<>>
    BY <1>4, <2>1, Zenon DEF Steered
  <2>3. Steered = (Heard("steering") \o <<>>) \o steering
    BY <1>2, Zenon DEF Steered
  <2>4. Steered' = Steered
    BY <1>3, <2>2, <2>3, SequencesOfQueues
  <2>5. Followed' = Followed
    BY <1>2, <1>4, <2>1, Zenon DEF Followed
  <2> QED
    BY <1>1, <1>4, <2>4, <2>5, EmptySeq
<1>5. CASE pending' = followUps /\ followUps' = <<>> /\ UNCHANGED steering
  <2>1. Held("followUp")' = followUps /\ Held("steering")' = <<>>
    BY <1>1, <1>5, OneQueue DEF Held
  <2>2. Followed' = (Heard("followUp") \o followUps) \o <<>>
    BY <1>5, <2>1, Zenon DEF Followed
  <2>3. Followed = (Heard("followUp") \o <<>>) \o followUps
    BY <1>2, Zenon DEF Followed
  <2>4. Followed' = Followed
    BY <1>3, <2>2, <2>3, SequencesOfQueues
  <2>5. Steered' = Steered
    BY <1>2, <1>5, <2>1, Zenon DEF Steered
  <2> QED
    BY <1>1, <1>5, <2>4, <2>5, EmptySeq
<1> QED
  BY <1>4, <1>5

\* The next message a user queues.
LEMMA SentNext ==
  ASSUME NEW q, NEW k \in Nat
  PROVE  Sent(q, k + 1) = Append(Sent(q, k), User(q, k + 1)) /\ Sent(q, k) \in Seq({User(q, i) : i \in Nat})
<1> DEFINE U == {User(q, i) : i \in Nat}
           s == Sent(q, k)
           t == Sent(q, k + 1)
           a == Append(s, User(q, k + 1))
<1>1. \A i \in Nat : User(q, i) \in U
  OBVIOUS
<1>2. s \in Seq(U) /\ Len(s) = k /\ \A i \in 1..k : s[i] = User(q, i)
  <2>1. \A i \in 1..k : User(q, i) \in U
    BY <1>1
  <2> HIDE DEF U
  <2> QED
    BY <2>1 DEF Sent
<1>3. t \in Seq(U) /\ Len(t) = k + 1 /\ \A i \in 1..(k + 1) : t[i] = User(q, i)
  <2>1. \A i \in 1..(k + 1) : User(q, i) \in U
    BY <1>1
  <2> HIDE DEF U
  <2> QED
    BY <2>1 DEF Sent
<1>4. User(q, k + 1) \in U
  BY <1>1
<1> HIDE DEF U, s, t
<1>5. a \in Seq(U) /\ Len(a) = k + 1 /\ a[k + 1] = User(q, k + 1) /\ \A i \in 1..k : a[i] = s[i]
  BY <1>2, <1>4, AppendProperties
<1> HIDE DEF a
<1>6. \A i \in 1..(k + 1) : t[i] = a[i]
  BY <1>2, <1>3, <1>5
<1>7. t = a
  BY <1>3, <1>5, <1>6, SeqEqual
<1> QED
  BY <1>2, <1>7 DEF a, s, t, U

LEMMA QueuesStep ==
  ASSUME TypeOK, TypeOK', TurnIsOpen, QueuesAreTheirs, [Next]_vars
  PROVE  QueuesAreTheirs'
<1> USE DEF setup, control, streamed, queues, user, events
<1>1. /\ Steered = Sent("steering", sentSteering) /\ Followed = Sent("followUp", sentFollowUps)
      /\ pc = "done" /\ pending # <<>> => cancelled
  BY DEF QueuesAreTheirs, QueuedMessagesAreHeardOnce, Steered, Followed
\* It is enough to say where the messages are.
<1>2. ASSUME Steered' = Sent("steering", sentSteering'), Followed' = Sent("followUp", sentFollowUps'),
             pending' \in Seq(OfQueue("steering")) \cup Seq(OfQueue("followUp")),
             steering' \in Seq(OfQueue("steering")), followUps' \in Seq(OfQueue("followUp")),
             pc' = "start" \/ InTurn' => pending' = <<>>,
             pc' = "done" /\ pending' # <<>> => cancelled'
      PROVE  QueuesAreTheirs'
  BY <1>2 DEF QueuesAreTheirs, QueuedMessagesAreHeardOnce, Steered, Followed
\* A step that leaves the queues alone and adds the run's own words at most.
<1>3. ASSUME UNCHANGED <<pending, steering, followUps, sentSteering, sentFollowUps>>,
             \A q \in {"steering", "followUp"} : Heard(q)' = Heard(q),
             pc' = "start" \/ InTurn' => pending = <<>>,
             pc' = "done" /\ pending # <<>> => cancelled'
      PROVE  QueuesAreTheirs'
  <2>1. Steered' = Steered /\ Followed' = Followed
    BY <1>3, Zenon DEF Steered, Followed, Held
  <2> QED
    BY <1>1, <1>2, <1>3, <2>1 DEF QueuesAreTheirs
<1>4. ASSUME UNCHANGED newMessages
      PROVE  \A q \in {"steering", "followUp"} : Heard(q)' = Heard(q)
  BY <1>4 DEF Heard
<1>5. ASSUME NEW ms \in Seq(NotQueued), newMessages' = newMessages \o ms
      PROVE  \A q \in {"steering", "followUp"} : Heard(q)' = Heard(q)
  BY <1>5, HeardAfter DEF Heard, TypeOK
<1>6. \A m \in Message : m.role = "assistant" =>
        /\ <<m>> \in Seq(NotQueued)
        /\ \A s \in Seq(Message) : Append(s, m) = s \o <<m>>
  <2> TAKE m \in Message
  <2> SUFFICES ASSUME m.role = "assistant"
               PROVE  /\ <<m>> \in Seq(NotQueued)
                      /\ \A s \in Seq(Message) : Append(s, m) = s \o <<m>>
    OBVIOUS
  <2>1. m \in NotQueued
    BY OwnWords
  <2>2. <<m>> \in Seq(NotQueued)
    BY <2>1
  <2>3. \A s \in Seq(Message) : Append(s, m) = s \o <<m>>
    BY AppendIsConcat
  <2> QED
    BY <2>2, <2>3
<1>7. ASSUME NothingToContinue \/ LoseRun \/ NoToolsToRun \/ FailTurn \/ StopCancelled
             \/ StreamStart \/ StreamUpdate \/ StreamDropped \/ StreamEof
      PROVE  QueuesAreTheirs'
  <2>1. UNCHANGED <<pending, steering, followUps, sentSteering, sentFollowUps, newMessages, cancelled>>
    BY <1>7 DEF NothingToContinue, LoseRun, NoToolsToRun, FailTurn, StopCancelled, StreamStart,
                StreamUpdate, StreamDropped, StreamEof, LoseMessage, transcript
  <2>2. \/ pc = "start" \/ InTurn
        \/ pc' = "done" /\ cancelled
    BY <1>7 DEF NothingToContinue, LoseRun, NoToolsToRun, FailTurn, StopCancelled, StreamStart,
                StreamUpdate, StreamDropped, StreamEof, LoseMessage, AgentEnd, InTurn
  <2>3. \/ pending = <<>>
        \/ pc' = "done" /\ cancelled
    BY <2>2 DEF QueuesAreTheirs
  <2> QED
    BY <1>3, <1>4, <2>1, <2>3 DEF InTurn
<1>8. ASSUME Start PROVE QueuesAreTheirs'
  <2>1. /\ pc = "start" /\ pc' = "while" /\ pending = <<>>
        /\ pending' = steering /\ steering' = <<>>
        /\ UNCHANGED <<followUps, sentSteering, sentFollowUps>>
    BY <1>8 DEF Start, DrainSteering, QueuesAreTheirs
  <2>2. \A q \in {"steering", "followUp"} : Heard(q)' = Heard(q)
    <3>1. CASE UNCHANGED newMessages
      BY <1>4, <3>1
    <3>2. CASE Push(<<User("prompt", 0)>>)
      <4> DEFINE p == <<User("prompt", 0)>>
      <4>1. p \in Seq(NotQueued)
        BY OwnWords
      <4>2. newMessages' = newMessages \o p
        BY <3>2 DEF Push
      <4> HIDE DEF p
      <4> QED
        BY <1>5, <4>1, <4>2
    <3> QED
      BY <1>8, <3>1, <3>2 DEF Start, transcript
  <2>3. /\ Steered' = Steered /\ Followed' = Followed
        /\ pending' \in Seq(OfQueue("steering")) \cup Seq(OfQueue("followUp"))
        /\ steering' \in Seq(OfQueue("steering")) /\ followUps' \in Seq(OfQueue("followUp"))
    BY <2>1, <2>2, Taken
  <2> QED
    BY <1>1, <1>2, <2>1, <2>3 DEF InTurn
<1>9. ASSUME DrainFollowUps PROVE QueuesAreTheirs'
  <2>1. /\ pc = "while" /\ pending = <<>> /\ followUps' = <<>>
        /\ UNCHANGED <<newMessages, steering, sentSteering, sentFollowUps>>
        /\ pc' \in {"while", "done"} /\ pending' = followUps
        /\ pc' = "done" => pending' = <<>>
    BY <1>9 DEF DrainFollowUps, GoesOn, transcript, AgentEnd
  <2>2. /\ Steered' = Steered /\ Followed' = Followed
        /\ pending' \in Seq(OfQueue("steering")) \cup Seq(OfQueue("followUp"))
        /\ steering' \in Seq(OfQueue("steering")) /\ followUps' \in Seq(OfQueue("followUp"))
    BY <1>4, <2>1, Taken
  <2> QED
    BY <1>1, <1>2, <2>1, <2>2 DEF InTurn
<1>10. ASSUME EndTurn PROVE QueuesAreTheirs'
  <2>1. /\ pc = "turnEnd" /\ pending = <<>>
        /\ UNCHANGED <<newMessages, followUps, sentSteering, sentFollowUps>>
        /\ \/ pc' = "done" /\ UNCHANGED <<pending, steering>>
           \/ pc' = "while" /\ pending' = steering /\ steering' = <<>>
    BY <1>10 DEF EndTurn, DrainSteering, AgentEnd, transcript, QueuesAreTheirs, InTurn
  <2>2. CASE pc' = "done" /\ UNCHANGED <<pending, steering>>
    BY <1>3, <1>4, <2>1, <2>2 DEF InTurn
  <2>3. CASE pc' = "while" /\ pending' = steering /\ steering' = <<>>
    <3>1. /\ Steered' = Steered /\ Followed' = Followed
          /\ pending' \in Seq(OfQueue("steering")) \cup Seq(OfQueue("followUp"))
          /\ steering' \in Seq(OfQueue("steering")) /\ followUps' \in Seq(OfQueue("followUp"))
      BY <1>4, <2>1, <2>3, Taken
    <3> QED
      BY <1>1, <1>2, <2>1, <2>3, <3>1 DEF InTurn
  <2> QED
    BY <2>1, <2>2, <2>3
<1>11. ASSUME CallModel PROVE QueuesAreTheirs'
  <2>1. /\ pc' = "stream" /\ newMessages' = newMessages \o pending /\ pending' = <<>>
        /\ UNCHANGED <<steering, followUps, sentSteering, sentFollowUps>>
    BY <1>11 DEF CallModel, Push
  <2>2. ASSUME NEW q \in {"steering", "followUp"}, NEW s \in Seq(Message)
        PROVE  Heard(q)' \o Held(q)' \o s = Heard(q) \o Held(q) \o s
    <3>1. Heard(q)' = Heard(q) \o Held(q)
      <4>1. \A v, w \in Seq(Message) :
              Kept(v \o w, OfQueue(q)) = Kept(v, OfQueue(q)) \o Kept(w, OfQueue(q))
        BY KeptConcat
      <4>2. Kept(newMessages \o pending, OfQueue(q))
              = Kept(newMessages, OfQueue(q)) \o Kept(pending, OfQueue(q))
        BY <4>1, SequencesOfQueues
      <4> QED
        BY <2>1, <4>2, Zenon DEF Heard, Held
    <3>2. Held(q)' = <<>>
      BY <2>1, OneQueue, MessagesAreTyped DEF Held
    <3>3. Heard(q) \o Held(q) \in Seq(Message)
      BY SequencesOfQueues, ConcatProperties
    <3>4. (Heard(q) \o Held(q)) \o <<>> = Heard(q) \o Held(q)
      BY <3>3, ConcatEmptySeq
    <3> QED
      BY <3>1, <3>2, <3>4, Zenon
  <2>3. Steered' = Steered /\ Followed' = Followed
    <3>1. Heard("steering")' \o Held("steering")' \o steering = Steered
      BY <2>2, SequencesOfQueues DEF Steered
    <3>2. Heard("followUp")' \o Held("followUp")' \o followUps = Followed
      BY <2>2, SequencesOfQueues DEF Followed
    <3> QED
      BY <2>1, <3>1, <3>2, Zenon DEF Steered, Followed
  <2> QED
    BY <1>1, <1>2, <2>1, <2>3, EmptySeq DEF QueuesAreTheirs
<1>12. ASSUME StreamFinal \/ StreamCancelled PROVE QueuesAreTheirs'
  <2>1. PICK m \in Message : m.role = "assistant" /\ FinishMessage(m)
    <3>1. CASE StreamFinal
      BY <3>1, MessagesAreTyped DEF StreamFinal
    <3>2. CASE StreamCancelled
      <4>1. partial \in Nat
        BY <3>2, LoopAssumption DEF StreamCancelled, TypeOK
      <4>2. Assistant("aborted", partial).role = "assistant"
        BY DEF Assistant
      <4> QED
        BY <3>2, <4>1, <4>2, MessagesAreTyped DEF StreamCancelled
    <3> QED
      BY <1>12, <3>1, <3>2
  <2>2. pc = "stream" /\ UNCHANGED <<pending, steering, followUps, sentSteering, sentFollowUps>>
    BY <1>12, <2>1 DEF StreamFinal, StreamCancelled, FinishMessage
  <2>3. newMessages' = newMessages \o <<m>> /\ <<m>> \in Seq(NotQueued)
    BY <1>6, <2>1 DEF FinishMessage, TypeOK
  <2>4. pending = <<>>
    BY <2>2 DEF QueuesAreTheirs, InTurn
  <2> QED
    BY <1>3, <1>5, <2>2, <2>3, <2>4
<1>13. ASSUME RetryAfterRefresh PROVE QueuesAreTheirs'
  <2>1. /\ pc = "response" /\ pc' = "while" /\ newMessages' = Front(newMessages)
        /\ UNCHANGED <<pending, steering, followUps, sentSteering, sentFollowUps>>
        /\ newMessages # <<>> /\ Response.role = "assistant"
    BY <1>13 DEF RetryAfterRefresh, TurnIsOpen
  <2>2. newMessages \in Seq(Message) /\ Front(newMessages) \in Seq(Message) /\ Response \in Message
    BY <2>1, FrontType DEF TypeOK, Response
  <2>3. newMessages = Front(newMessages) \o <<Response>>
    BY <1>6, <2>1, <2>2, FrontAppend DEF Response
  <2>4. <<Response>> \in Seq(NotQueued)
    BY <1>6, <2>1, <2>2
  <2>5. ASSUME NEW q \in {"steering", "followUp"} PROVE Heard(q)' = Heard(q)
    <3>1. Kept(Front(newMessages) \o <<Response>>, OfQueue(q)) = Kept(Front(newMessages), OfQueue(q))
      BY <2>2, <2>4, HeardAfter
    <3> QED
      BY <2>1, <2>3, <3>1, Zenon DEF Heard
  <2> QED
    BY <1>3, <2>1, <2>5 DEF InTurn
<1>14. ASSUME RunTools PROVE QueuesAreTheirs'
  <2>1. PICK k \in Nat : newMessages' = newMessages \o Results(k)
    BY <1>14, ToolsPush
  <2>2. pc = "response" /\ UNCHANGED <<pending, steering, followUps, sentSteering, sentFollowUps>>
    BY <1>14 DEF RunTools
  <2>3. pending = <<>>
    BY <2>2 DEF QueuesAreTheirs, InTurn
  <2> QED
    BY <1>3, <1>5, <2>1, <2>2, <2>3, OwnWords
<1>15. ASSUME Cancel \/ UNCHANGED vars PROVE QueuesAreTheirs'
  <2>1. /\ UNCHANGED <<pending, steering, followUps, sentSteering, sentFollowUps, newMessages, pc>>
        /\ cancelled => cancelled'
    BY <1>15 DEF Cancel, vars, transcript
  <2> QED
    BY <1>1, <1>3, <1>4, <2>1 DEF QueuesAreTheirs, InTurn
<1>16. ASSUME Running, Steer PROVE QueuesAreTheirs'
  <2>1. /\ UNCHANGED <<pending, followUps, sentFollowUps, newMessages, pc>>
        /\ sentSteering' = sentSteering + 1 /\ sentSteering \in Nat /\ pc # "done"
        /\ steering' = Append(steering, User("steering", sentSteering + 1))
    BY <1>16, LoopAssumption DEF Steer, Running, transcript, TypeOK
  <2> DEFINE x == User("steering", sentSteering + 1)
             s == Heard("steering") \o Held("steering")
  <2>2. x \in OfQueue("steering") /\ x \in Message
    BY <2>1, MessagesAreTyped
  <2>3. Sent("steering", sentSteering') = Append(Sent("steering", sentSteering), x)
    BY <2>1, SentNext
  <2>4. s \in Seq(Message)
    BY SequencesOfQueues, ConcatProperties
  <2>5. Steered' = s \o Append(steering, x)
    BY <2>1, Zenon DEF Steered, Heard, Held
  <2>6. Steered = s \o steering
    BY DEF Steered
  <2> HIDE DEF x, s
  <2>7. Append(s \o steering, x) = s \o Append(steering, x)
    <3>1. \A v, w \in Seq(Message), y \in Message : PutBehind(v, w, y)
      BY AppendToConcat
    <3>2. PutBehind(s, steering, x)
      BY <2>2, <2>4, <3>1, SequencesOfQueues
    <3> QED
      BY <3>2, Zenon DEF PutBehind
  <2>8. Steered' = Sent("steering", sentSteering')
    BY <1>1, <2>3, <2>5, <2>6, <2>7, Zenon
  <2>9. Followed' = Followed
    BY <2>1, Zenon DEF Followed, Heard, Held
  <2>10. steering' \in Seq(OfQueue("steering"))
    BY <2>1, <2>2, AppendProperties DEF QueuesAreTheirs, x
  <2> QED
    BY <1>1, <1>2, <2>1, <2>8, <2>9, <2>10 DEF QueuesAreTheirs, InTurn
<1>17. ASSUME Running, FollowUp PROVE QueuesAreTheirs'
  <2>1. /\ UNCHANGED <<pending, steering, sentSteering, newMessages, pc>>
        /\ sentFollowUps' = sentFollowUps + 1 /\ sentFollowUps \in Nat /\ pc # "done"
        /\ followUps' = Append(followUps, User("followUp", sentFollowUps + 1))
    BY <1>17, LoopAssumption DEF FollowUp, Running, transcript, TypeOK
  <2> DEFINE x == User("followUp", sentFollowUps + 1)
             s == Heard("followUp") \o Held("followUp")
  <2>2. x \in OfQueue("followUp") /\ x \in Message
    BY <2>1, MessagesAreTyped
  <2>3. Sent("followUp", sentFollowUps') = Append(Sent("followUp", sentFollowUps), x)
    BY <2>1, SentNext
  <2>4. s \in Seq(Message)
    BY SequencesOfQueues, ConcatProperties
  <2>5. Followed' = s \o Append(followUps, x)
    BY <2>1, Zenon DEF Followed, Heard, Held
  <2>6. Followed = s \o followUps
    BY DEF Followed
  <2> HIDE DEF x, s
  <2>7. Append(s \o followUps, x) = s \o Append(followUps, x)
    <3>1. \A v, w \in Seq(Message), y \in Message : PutBehind(v, w, y)
      BY AppendToConcat
    <3>2. PutBehind(s, followUps, x)
      BY <2>2, <2>4, <3>1, SequencesOfQueues
    <3> QED
      BY <3>2, Zenon DEF PutBehind
  <2>8. Followed' = Sent("followUp", sentFollowUps')
    BY <1>1, <2>3, <2>5, <2>6, <2>7, Zenon
  <2>9. Steered' = Steered
    BY <2>1, Zenon DEF Steered, Heard, Held
  <2>10. followUps' \in Seq(OfQueue("followUp"))
    BY <2>1, <2>2, AppendProperties DEF QueuesAreTheirs, x
  <2> QED
    BY <1>1, <1>2, <2>1, <2>8, <2>9, <2>10 DEF QueuesAreTheirs, InTurn
<1> QED
  BY <1>7, <1>8, <1>9, <1>10, <1>11, <1>12, <1>13, <1>14, <1>15, <1>16, <1>17
     DEF Next, Loop, Stream, Turn, Over

-----------------------------------------------------------------------------
(***************************************************************************)
(* Calls and their results.                                                *)
(***************************************************************************)
\* A transcript that goes on stays paired if what is added is.
LEMMA PairedGoesOn ==
  ASSUME NEW s \in Seq(Message), NEW v \in Seq(Message), Paired(s), Len(s) <= Len(v),
         \A i \in 1..Len(s) : v[i] = s[i],
         \A p \in 1..Len(v) : p > Len(s) =>
           /\ v[p].role = "assistant" => Answered(v, p)
           /\ v[p].role = "toolResult" =>
                /\ p - v[p].n > 0 /\ v[p - v[p].n].role = "assistant"
                /\ v[p].n <= ToRun(v[p - v[p].n])
  PROVE  Paired(v)
<1>1. Len(s) \in Nat /\ Len(v) \in Nat
  OBVIOUS
<1>2. ASSUME NEW p \in 1..Len(v), v[p].role = "assistant" PROVE Answered(v, p)
  <2>1. CASE p <= Len(s)
    <3>1. v[p] = s[p] /\ p \in 1..Len(s)
      BY <1>1, <2>1
    <3>2. Answered(s, p)
      BY <1>2, <3>1 DEF Paired
    <3>3. ASSUME NEW c \in 1..ToRun(v[p]) PROVE p + c <= Len(v) /\ v[p + c] = ToolResult(c)
      <4>1. p + c <= Len(s) /\ s[p + c] = ToolResult(c)
        BY <3>1, <3>2, <3>3 DEF Answered
      <4>2. c \in Int /\ c >= 1
        OBVIOUS
      <4>3. p + c \in 1..Len(s)
        BY <1>1, <3>1, <4>1, <4>2
      <4> QED
        BY <1>1, <4>1, <4>2, <4>3
    <3> QED
      BY <3>3 DEF Answered
  <2>2. CASE p > Len(s)
    BY <1>2, <2>2
  <2> QED
    BY <1>1, <2>1, <2>2
<1>3. ASSUME NEW p \in 1..Len(v), v[p].role = "toolResult"
      PROVE  /\ p - v[p].n > 0 /\ v[p - v[p].n].role = "assistant"
             /\ v[p].n <= ToRun(v[p - v[p].n])
  <2>1. CASE p <= Len(s)
    <3>1. v[p] = s[p] /\ p \in 1..Len(s) /\ s[p] \in Message
      BY <1>1, <2>1
    <3>2. s[p].n \in Nat
      BY <3>1 DEF Message
    <3>3. /\ p - s[p].n > 0 /\ s[p - s[p].n].role = "assistant"
          /\ s[p].n <= ToRun(s[p - s[p].n])
      BY <1>3, <3>1 DEF Paired
    <3>4. p - s[p].n \in 1..Len(s)
      BY <1>1, <3>1, <3>2, <3>3
    <3>5. v[p - s[p].n] = s[p - s[p].n]
      BY <3>4
    <3> QED
      BY <3>1, <3>3, <3>5
  <2>2. CASE p > Len(s)
    BY <1>3, <2>2
  <2> QED
    BY <1>1, <2>1, <2>2
<1> QED
  BY <1>2, <1>3 DEF Paired

LEMMA PairedUsers ==
  ASSUME NEW s \in Seq(Message), NEW us \in Seq(Message), Paired(s),
         \A i \in 1..Len(us) : us[i].role = "user"
  PROVE  /\ Paired(s \o us) /\ s \o us \in Seq(Message)
         /\ us # <<>> => Waiting(s \o us)
<1> DEFINE v == s \o us
<1>1. /\ v \in Seq(Message) /\ Len(v) = Len(s) + Len(us) /\ Len(s) \in Nat /\ Len(us) \in Nat
      /\ \A i \in 1..(Len(s) + Len(us)) : v[i] = IF i <= Len(s) THEN s[i] ELSE us[i - Len(s)]
  BY ConcatProperties
<1>2. us # <<>> => Len(us) > 0
  OBVIOUS
<1> HIDE DEF v
<1>3. ASSUME NEW p \in 1..Len(v), p > Len(s) PROVE v[p].role = "user"
  <2>1. p - Len(s) \in 1..Len(us) /\ v[p] = us[p - Len(s)]
    BY <1>1, <1>3
  <2> QED
    BY <2>1
<1>4. \A i \in 1..Len(s) : v[i] = s[i]
  BY <1>1
<1>5. Paired(v)
  <2>1. \A p \in 1..Len(v) : p > Len(s) =>
          /\ v[p].role = "assistant" => Answered(v, p)
          /\ v[p].role = "toolResult" =>
               /\ p - v[p].n > 0 /\ v[p - v[p].n].role = "assistant"
               /\ v[p].n <= ToRun(v[p - v[p].n])
    BY <1>3
  <2>2. v \in Seq(Message) /\ Len(s) <= Len(v)
    BY <1>1
  <2> QED
    BY <1>4, <2>1, <2>2, PairedGoesOn
<1>6. ASSUME us # <<>> PROVE Waiting(v)
  <2>1. Len(v) \in 1..Len(v) /\ Len(v) > Len(s)
    BY <1>1, <1>2, <1>6
  <2>2. v[Len(v)].role = "user"
    BY <1>3, <2>1
  <2>3. v # <<>>
    BY <1>1, <2>1
  <2> QED
    BY <2>2, <2>3 DEF Waiting
<1> QED
  BY <1>1, <1>5, <1>6 DEF v

\* A message of the model with the results of all the calls to be run.
LEMMA PairedTurn ==
  ASSUME NEW s \in Seq(Message), NEW m \in Message, Paired(s), m.role = "assistant",
         NEW k \in Nat, k = ToRun(m)
  PROVE  Paired(Append(s, m) \o Results(k)) /\ (k > 0 => Waiting(Append(s, m) \o Results(k)))
<1> DEFINE a == Append(s, m)
           r == Results(k)
           v == a \o r
<1>1. /\ a \in Seq(Message) /\ Len(a) = Len(s) + 1 /\ Len(s) \in Nat /\ a[Len(s) + 1] = m
      /\ \A i \in 1..Len(s) : a[i] = s[i]
  BY AppendProperties
<1>2. r \in Seq(Message) /\ Len(r) = k /\ \A i \in 1..k : r[i] = ToolResult(i)
  BY ResultsType
<1> HIDE DEF a, r
<1>3. /\ v \in Seq(Message) /\ Len(v) = Len(a) + Len(r)
      /\ \A i \in 1..(Len(a) + Len(r)) : v[i] = IF i <= Len(a) THEN a[i] ELSE r[i - Len(a)]
  BY <1>1, <1>2, ConcatProperties
<1> HIDE DEF v
<1>4. /\ Len(v) = Len(s) + 1 + k /\ v[Len(s) + 1] = m
      /\ \A i \in 1..Len(s) : v[i] = s[i]
  BY <1>1, <1>2, <1>3
<1>5. ASSUME NEW c \in 1..k PROVE Len(s) + 1 + c \in 1..Len(v) /\ v[Len(s) + 1 + c] = ToolResult(c)
  <2>1. Len(s) + 1 + c \in 1..(Len(a) + Len(r)) /\ ~(Len(s) + 1 + c <= Len(a))
        /\ (Len(s) + 1 + c) - Len(a) = c
    BY <1>1, <1>2
  <2> QED
    BY <1>2, <1>3, <1>4, <2>1
<1>6. ToolResult(1).role = "toolResult" /\ \A c \in Nat : ToolResult(c).role = "toolResult" /\ ToolResult(c).n = c
  BY DEF ToolResult
<1>7. ASSUME NEW p \in 1..Len(v), p > Len(s)
      PROVE  /\ v[p].role = "assistant" => Answered(v, p)
             /\ v[p].role = "toolResult" =>
                  /\ p - v[p].n > 0 /\ v[p - v[p].n].role = "assistant"
                  /\ v[p].n <= ToRun(v[p - v[p].n])
  <2>1. CASE p = Len(s) + 1
    <3>1. v[p] = m
      BY <1>4, <2>1
    <3>2. Answered(v, p)
      BY <1>4, <1>5, <2>1, <3>1 DEF Answered
    <3> QED
      BY <3>1, <3>2
  <2>2. CASE p > Len(s) + 1
    <3> DEFINE c == p - (Len(s) + 1)
    <3>1. c \in 1..k /\ c \in Nat /\ p = Len(s) + 1 + c
      BY <1>1, <1>4, <2>2
    <3> HIDE DEF c
    <3>2. v[p] = ToolResult(c)
      BY <1>5, <3>1
    <3>3. v[p].role = "toolResult" /\ v[p].n = c
      BY <1>6, <3>1, <3>2
    <3>4. p - c = Len(s) + 1 /\ Len(s) + 1 > 0 /\ c <= k
      BY <1>1, <3>1
    <3> QED
      BY <1>4, <3>3, <3>4
  <2> QED
    BY <1>1, <1>7, <2>1, <2>2
<1>8. Len(s) <= Len(v)
  BY <1>1, <1>4
<1>9. Paired(v)
  BY <1>3, <1>4, <1>7, <1>8, PairedGoesOn
<1>10. ASSUME k > 0 PROVE Waiting(v)
  <2>1. k \in 1..k /\ Len(v) = Len(s) + 1 + k
    BY <1>4, <1>10
  <2>2. v[Len(v)] = ToolResult(k)
    BY <1>5, <2>1
  <2>3. v # <<>>
    BY <1>1, <1>3, <2>1
  <2> QED
    BY <1>6, <2>2, <2>3 DEF Waiting
<1> QED
  BY <1>9, <1>10 DEF v, a, r

\* No call of a message is open, and none but those of the last message.
AllAnswered(ms) == \A p \in 1..Len(ms) : ms[p].role = "assistant" => Answered(ms, p)

\* What a run adds to a transcript answers its own calls.
LEMMA AnsweredApart ==
  ASSUME NEW h \in Seq(Message), NEW ms \in Seq(Message), Paired(h \o ms)
  PROVE  AllAnswered(ms)
<1> DEFINE v == h \o ms
<1>1. /\ v \in Seq(Message) /\ Len(v) = Len(h) + Len(ms) /\ Len(h) \in Nat /\ Len(ms) \in Nat
      /\ \A i \in 1..(Len(h) + Len(ms)) : v[i] = IF i <= Len(h) THEN h[i] ELSE ms[i - Len(h)]
  BY ConcatProperties
<1>2. Paired(v)
  OBVIOUS
<1> HIDE DEF v
<1>3. ASSUME NEW p \in 1..Len(ms) PROVE Len(h) + p \in 1..Len(v) /\ v[Len(h) + p] = ms[p]
  <2>1. Len(h) + p \in 1..(Len(h) + Len(ms)) /\ ~(Len(h) + p <= Len(h)) /\ (Len(h) + p) - Len(h) = p
    BY <1>1
  <2> QED
    BY <1>1, <2>1
<1>4. ASSUME NEW p \in 1..Len(ms), ms[p].role = "assistant" PROVE Answered(ms, p)
  <2>1. Answered(v, Len(h) + p) /\ v[Len(h) + p] = ms[p]
    BY <1>2, <1>3, <1>4 DEF Paired
  <2>2. ASSUME NEW c \in 1..ToRun(ms[p]) PROVE p + c <= Len(ms) /\ ms[p + c] = ToolResult(c)
    <3>1. Len(h) + p + c <= Len(v) /\ v[Len(h) + p + c] = ToolResult(c)
      BY <2>1, <2>2 DEF Answered
    <3>2. c \in Int /\ c >= 1
      OBVIOUS
    <3>3. p + c \in 1..Len(ms) /\ Len(h) + (p + c) = Len(h) + p + c
      BY <1>1, <3>1, <3>2
    <3>4. v[Len(h) + (p + c)] = ms[p + c]
      BY <1>3, <3>3
    <3> QED
      BY <1>1, <3>1, <3>3, <3>4
  <2> QED
    BY <2>2 DEF Answered
<1> QED
  BY <1>4 DEF AllAnswered

LEMMA AnsweredIsClosed ==
  ASSUME NEW ms, AllAnswered(ms)
  PROVE  OnlyLastOpen(ms)
BY DEF AllAnswered, OnlyLastOpen

\* Only the calls of the message at the end may be open, when some of its results follow.
LEMMA OpenAtTheEnd ==
  ASSUME NEW s \in Seq(Message), NEW m \in Message, AllAnswered(s), m.role = "assistant",
         NEW k \in Nat
  PROVE  /\ OnlyLastOpen(Append(s, m) \o Results(k))
         /\ OnlyLastOpen(Append(s, m))
         /\ \A p \in 1..Len(Append(s, m)) :
              Append(s, m)[p].role = "assistant" /\ ~Answered(Append(s, m), p) =>
                p = Len(s) + 1 /\ Append(s, m)[p] = m
<1> DEFINE a == Append(s, m)
           r == Results(k)
           v == a \o r
<1>1. /\ a \in Seq(Message) /\ Len(a) = Len(s) + 1 /\ Len(s) \in Nat /\ a[Len(s) + 1] = m
      /\ \A i \in 1..Len(s) : a[i] = s[i]
  BY AppendProperties
<1>2. r \in Seq(Message) /\ Len(r) = k /\ \A i \in 1..k : r[i] = ToolResult(i)
  BY ResultsType
<1> HIDE DEF a, r
<1>3. /\ v \in Seq(Message) /\ Len(v) = Len(a) + Len(r)
      /\ \A i \in 1..(Len(a) + Len(r)) : v[i] = IF i <= Len(a) THEN a[i] ELSE r[i - Len(a)]
  BY <1>1, <1>2, ConcatProperties
<1> HIDE DEF v
\* What is answered in s is in what goes on from it.
<1>4. ASSUME NEW w \in Seq(Message), Len(s) <= Len(w), \A i \in 1..Len(s) : w[i] = s[i],
             NEW p \in 1..Len(s), w[p].role = "assistant"
      PROVE  Answered(w, p)
  <2>1. Answered(s, p) /\ w[p] = s[p]
    BY <1>4 DEF AllAnswered
  <2>2. ASSUME NEW c \in 1..ToRun(w[p]) PROVE p + c <= Len(w) /\ w[p + c] = ToolResult(c)
    <3>1. p + c <= Len(s) /\ s[p + c] = ToolResult(c)
      BY <2>1, <2>2 DEF Answered
    <3>2. c \in Int /\ c >= 1 /\ Len(w) \in Nat
      OBVIOUS
    <3>3. p + c \in 1..Len(s)
      BY <1>1, <3>1, <3>2
    <3> QED
      BY <1>1, <1>4, <3>1, <3>2, <3>3
  <2> QED
    BY <2>2 DEF Answered
<1>5. \A c \in Nat : ToolResult(c).role = "toolResult"
  BY DEF ToolResult
<1>6. ASSUME NEW p \in 1..Len(v), v[p].role = "assistant" PROVE p <= Len(s) + 1
  <2> SUFFICES ASSUME p > Len(a) PROVE FALSE
    BY <1>1
  <2>1. p - Len(a) \in 1..k /\ p \in 1..(Len(a) + Len(r)) /\ ~(p <= Len(a))
    BY <1>1, <1>2, <1>3
  <2>2. v[p] = ToolResult(p - Len(a)) /\ p - Len(a) \in Nat
    BY <1>2, <1>3, <2>1
  <2> QED
    BY <1>5, <1>6, <2>2
<1>7. /\ \A i \in 1..Len(s) : v[i] = s[i]
      /\ Len(s) <= Len(v) /\ Len(s) <= Len(a)
  BY <1>1, <1>2, <1>3
<1>8. OnlyLastOpen(v)
  <2> SUFFICES ASSUME NEW p \in 1..Len(v), v[p].role = "assistant", ~Answered(v, p),
                      NEW q \in 1..Len(v), v[q].role = "assistant"
               PROVE  q <= p
    BY DEF OnlyLastOpen
  <2>1. ~(p \in 1..Len(s))
    BY <1>3, <1>4, <1>7
  <2>2. q <= Len(s) + 1
    BY <1>6
  <2> QED
    BY <1>1, <2>1, <2>2
<1>9. ASSUME NEW p \in 1..Len(a), a[p].role = "assistant", ~Answered(a, p)
      PROVE  p = Len(s) + 1 /\ a[p] = m
  <2>1. ~(p \in 1..Len(s))
    BY <1>1, <1>4, <1>7, <1>9
  <2> QED
    BY <1>1, <1>9, <2>1
<1>10. OnlyLastOpen(a)
  BY <1>1, <1>9 DEF OnlyLastOpen
<1> QED
  BY <1>1, <1>8, <1>9, <1>10 DEF v, a, r

LEMMA LastIsLast ==
  ASSUME NEW ms \in Seq(Message), NEW p \in 1..Len(ms), ms[p].role = "assistant",
         \A q \in 1..Len(ms) : ms[q].role = "assistant" => q <= p
  PROVE  p = LastAssistant(ms)
<1> DEFINE ps == {q \in 1..Len(ms) : ms[q].role = "assistant"}
<1>1. p \in ps /\ \A q \in ps : q <= p /\ q \in Int
  OBVIOUS
<1>2. \A q \in ps : (\A r \in ps : r <= q) => q = p
  BY <1>1
<1>3. LastAssistant(ms) = IF ps = {} THEN 0 ELSE CHOOSE q \in ps : \A r \in ps : r <= q
  BY DEF LastAssistant
<1> HIDE DEF ps
<1> QED
  BY <1>1, <1>2, <1>3

\* What a run reports that ends: with all calls answered, or cancelled, or with a failed message.
LEMMA EndsAnswered ==
  ASSUME TypeOK, reported' \in Seq(Message), OnlyLastOpen(reported'),
         \/ cancelled'
         \/ \A p \in 1..Len(reported') :
              reported'[p].role = "assistant" /\ ~Answered(reported', p) => reported'[p].tag \in Failed
  PROVE  ReportedCallsAreAnswered'
<1> SUFFICES ASSUME NEW p \in 1..Len(reported'), reported'[p].role = "assistant",
                    ~Answered(reported', p)
             PROVE  p = LastAssistant(reported') /\ (cancelled' \/ reported'[p].tag \in Failed)
  BY DEF ReportedCallsAreAnswered
<1>1. \A q \in 1..Len(reported') : reported'[q].role = "assistant" => q <= p
  BY DEF OnlyLastOpen
<1>2. p = LastAssistant(reported')
  BY <1>1, LastIsLast
<1> QED
  BY <1>2

LEMMA CallsStep ==
  ASSUME TypeOK, TypeOK', TurnIsOpen, TranscriptsAgree, TranscriptsAgree', QueuesAreTheirs,
         CallsAreAnswered, [Next]_vars
  PROVE  CallsAreAnswered'
<1> USE DEF setup, control, streamed, queues, user, events
<1>1. /\ history \in Seq(Message) /\ newMessages \in Seq(Message) /\ context \in Seq(Message)
      /\ Transcript \in Seq(Message) /\ pending \in Seq(Message)
      /\ newMessages' \in Seq(Message) /\ context' \in Seq(Message) /\ reported' \in Seq(Message)
  BY TranscriptType DEF TypeOK
\* A run between two turns that ends reports what it has.
<1>2. ASSUME pc \in {"while", "turnEnd"}, pc' = "done", reported' = newMessages,
             cancelled' = cancelled
      PROVE  CallsAreAnswered'
  <2>1. OnlyLastOpen(reported')
    BY <1>2 DEF CallsAreAnswered
  <2>2. ~cancelled => AllAnswered(reported')
    <3>1. ~cancelled => Paired(history \o newMessages)
      BY <1>2 DEF CallsAreAnswered, TranscriptsAgree, Transcript
    <3> QED
      BY <1>1, <1>2, <3>1, AnsweredApart
  <2>3. ReportedCallsAreAnswered'
    BY <1>1, <1>2, <2>1, <2>2, EndsAnswered DEF AllAnswered
  <2> QED
    BY <1>2, <2>3 DEF CallsAreAnswered
<1>3. ASSUME NothingToContinue PROVE CallsAreAnswered'
  <2>1. pc' = "done" /\ reported' = <<>>
    BY <1>3 DEF NothingToContinue, AgentEnd
  <2>2. AllAnswered(reported')
    BY <2>1 DEF AllAnswered
  <2>3. ReportedCallsAreAnswered'
    BY <2>1 DEF ReportedCallsAreAnswered
  <2> QED
    BY <2>1, <2>3 DEF CallsAreAnswered
<1>4. ASSUME Start PROVE CallsAreAnswered'
  <2>1. /\ pc = "start" /\ pc' = "while" /\ newMessages = <<>> /\ context = history
        /\ Paired(history)
    BY <1>4, TranscriptType DEF Start, TranscriptsAgree
  <2>2. Paired(context') /\ Waiting(context') /\ OnlyLastOpen(newMessages')
    <3>1. CASE CanContinue(history) /\ UNCHANGED <<context, newMessages>>
      BY <2>1, <3>1 DEF CanContinue, Waiting, OnlyLastOpen
    <3>2. CASE Push(<<User("prompt", 0)>>)
      <4> DEFINE p == <<User("prompt", 0)>>
      <4>1. User("prompt", 0) \in Message /\ User("prompt", 0).role = "user"
        BY MessagesAreTyped DEF User
      <4>2. p \in Seq(Message) /\ p # <<>> /\ Len(p) = 1 /\ \A i \in 1..Len(p) : p[i].role = "user"
        BY <4>1
      <4>3. context' = context \o p /\ newMessages' = newMessages \o p
        BY <3>2 DEF Push
      <4> HIDE DEF p
      <4>4. Paired(context') /\ Waiting(context')
        BY <1>1, <2>1, <4>2, <4>3, PairedUsers
      <4>5. newMessages' = p
        BY <2>1, <4>2, <4>3, ConcatEmptySeq
      <4>6. OnlyLastOpen(newMessages')
        BY <4>2, <4>5 DEF OnlyLastOpen
      <4> QED
        BY <4>4, <4>6
    <3> QED
      BY <1>4, <3>1, <3>2 DEF Start, transcript
  <2> QED
    BY <2>1, <2>2 DEF CallsAreAnswered, ReportedCallsAreAnswered
<1>5. ASSUME StopCancelled PROVE CallsAreAnswered'
  BY <1>2, <1>5 DEF StopCancelled, AgentEnd
<1>6. ASSUME CallModel PROVE CallsAreAnswered'
  <2>1. /\ pc = "while" /\ pc' = "stream" /\ context' = context \o pending
        /\ ~cancelled /\ (hasMore \/ pending # <<>>)
    BY <1>6 DEF CallModel, Push, GoesOn
  <2>2. \A i \in 1..Len(pending) : pending[i].role = "user"
    <3>1. \A q \in {"steering", "followUp"} : \A m \in OfQueue(q) : m.role = "user"
      BY DEF OfQueue
    <3> QED
      BY <3>1 DEF QueuesAreTheirs
  <2>3. Paired(context) /\ (pending = <<>> => Waiting(context))
    BY <2>1 DEF CallsAreAnswered
  <2>4. Paired(context')
    BY <1>1, <2>1, <2>2, <2>3, PairedUsers
  <2>5. Waiting(context')
    <3>1. CASE pending = <<>>
      <4>1. context' = context
        BY <1>1, <2>1, <3>1, ConcatEmptySeq
      <4> QED
        BY <2>3, <3>1, <4>1
    <3>2. CASE pending # <<>>
      BY <1>1, <2>1, <2>2, <2>3, <3>2, PairedUsers
    <3> QED
      BY <3>1, <3>2
  <2>6. context' = Transcript'
    BY <1>6, <2>1 DEF CallModel, TranscriptsAgree
  <2> QED
    BY <2>1, <2>4, <2>5, <2>6 DEF CallsAreAnswered, Answerable, ReportedCallsAreAnswered
<1>7. ASSUME DrainFollowUps PROVE CallsAreAnswered'
  <2>1. CASE pc' = "done"
    BY <1>2, <1>7, <2>1 DEF DrainFollowUps, AgentEnd
  <2>2. CASE pc' = "while"
    <3>1. pc = "while" /\ pending' # <<>> /\ UNCHANGED <<newMessages, context, cancelled>>
      BY <1>7, <2>2 DEF DrainFollowUps, AgentEnd, transcript
    <3> QED
      BY <2>2, <3>1 DEF CallsAreAnswered, ReportedCallsAreAnswered
  <2> QED
    BY <1>7, <2>1, <2>2 DEF DrainFollowUps, AgentEnd
<1>8. ASSUME StreamStart \/ StreamUpdate PROVE CallsAreAnswered'
  <2>1. pc = "stream" /\ pc' = "stream" /\ UNCHANGED <<history, newMessages>>
    BY <1>8 DEF StreamStart, StreamUpdate
  <2>2. Answerable(Transcript')
    BY <2>1 DEF CallsAreAnswered, Transcript
  <2> QED
    BY <2>1, <2>2 DEF CallsAreAnswered, ReportedCallsAreAnswered
<1>9. ASSUME StreamFinal \/ StreamCancelled PROVE CallsAreAnswered'
  <2>1. PICK m \in Message : FinishMessage(m)
    <3>1. CASE StreamFinal
      BY <3>1, MessagesAreTyped DEF StreamFinal
    <3>2. CASE StreamCancelled
      <4>1. partial \in Nat
        BY <3>2, LoopAssumption DEF StreamCancelled, TypeOK
      <4> QED
        BY <3>2, <4>1, MessagesAreTyped DEF StreamCancelled
    <3> QED
      BY <1>9, <3>1, <3>2
  <2>2. pc = "stream" /\ pc' = "response"
    BY <1>9, <2>1 DEF StreamFinal, StreamCancelled, FinishMessage
  <2>3. Answerable(Front(Transcript'))
    BY <2>1, <2>2, FinalEndsBoth DEF CallsAreAnswered
  <2>4. Answerable(Front(Transcript)')
    BY <2>3
  <2> QED
    BY <2>2, <2>4 DEF CallsAreAnswered, ReportedCallsAreAnswered
<1>10. ASSUME StreamDropped \/ StreamEof PROVE CallsAreAnswered'
  <2>1. /\ pc = "stream" /\ pc' = "done" /\ reported' = newMessages
    BY <1>10 DEF StreamDropped, StreamEof, LoseMessage, AgentEnd
  <2>2. Paired(history \o newMessages)
    BY <2>1 DEF CallsAreAnswered, Answerable, Transcript
  <2>3. AllAnswered(reported')
    BY <1>1, <2>1, <2>2, AnsweredApart
  <2>4. ReportedCallsAreAnswered'
    BY <1>1, <2>3, AnsweredIsClosed, EndsAnswered DEF AllAnswered
  <2> QED
    BY <2>1, <2>4 DEF CallsAreAnswered
\* Between the final message and the end of the turn.
<1>11. ASSUME pc = "response"
       PROVE  /\ newMessages = Append(Front(newMessages), Response)
              /\ Front(newMessages) \in Seq(Message) /\ Response \in Message
              /\ Response.role = "assistant"
              /\ Front(Transcript) = history \o Front(newMessages)
              /\ context = Append(Front(Transcript), Response)
              /\ Front(Transcript) \in Seq(Message)
              /\ AllAnswered(Front(newMessages))
  <2>1. newMessages # <<>> /\ Response.role = "assistant"
    BY <1>11 DEF TurnIsOpen
  <2>2. /\ newMessages = Append(Front(newMessages), Response)
        /\ Front(newMessages) \in Seq(Message) /\ Response \in Message
    BY <1>1, <2>1, FrontType, FrontAppend DEF Response
  <2>3. Front(Transcript) = history \o Front(newMessages)
    BY <1>1, <2>1, FrontConcat DEF Transcript
  <2>4. context = history \o newMessages
    BY <1>11 DEF TranscriptsAgree, Transcript
  <2>5. Append(history \o Front(newMessages), Response) = history \o Append(Front(newMessages), Response)
    <3>1. \A v, w \in Seq(Message), x \in Message : PutBehind(v, w, x)
      BY AppendToConcat
    <3>2. PutBehind(history, Front(newMessages), Response)
      BY <1>1, <2>2, <3>1
    <3> QED
      BY <3>2, Zenon DEF PutBehind
  <2>6. context = Append(Front(Transcript), Response)
    BY <2>2, <2>3, <2>4, <2>5, Zenon
  <2>7. Front(Transcript) \in Seq(Message)
    BY <1>1, FrontType
  <2>8. AllAnswered(Front(newMessages))
    <3>1. Paired(history \o Front(newMessages))
      BY <1>11, <2>3 DEF CallsAreAnswered, Answerable
    <3> QED
      BY <1>1, <2>2, <3>1, AnsweredApart
  <2> QED
    BY <2>1, <2>2, <2>3, <2>6, <2>7, <2>8
<1>12. ASSUME RetryAfterRefresh PROVE CallsAreAnswered'
  <2>1. /\ pc = "response" /\ pc' = "while" /\ context' = Front(context)
        /\ newMessages' = Front(newMessages)
    BY <1>12 DEF RetryAfterRefresh
  <2>2. context' = Front(Transcript)
    BY <2>1 DEF TranscriptsAgree
  <2>3. Paired(context') /\ Waiting(context')
    BY <2>1, <2>2 DEF CallsAreAnswered, Answerable
  <2>4. OnlyLastOpen(newMessages')
    BY <1>11, <2>1, AnsweredIsClosed
  <2> QED
    BY <2>1, <2>3, <2>4 DEF CallsAreAnswered, ReportedCallsAreAnswered
<1>13. ASSUME FailTurn PROVE CallsAreAnswered'
  <2>1. pc = "response" /\ pc' = "done" /\ reported' = newMessages /\ Response.tag \in Failed
    BY <1>13 DEF FailTurn, AgentEnd
  <2> DEFINE s == Front(newMessages)
             a == Append(s, Response)
  <2>2. reported' = a /\ s \in Seq(Message) /\ AllAnswered(s) /\ Response \in Message
        /\ Response.role = "assistant"
    BY <1>11, <2>1
  <2> HIDE DEF s
  <2>3. OnlyLastOpen(a)
    BY <2>2, OpenAtTheEnd
  <2>4. \A p \in 1..Len(a) : a[p].role = "assistant" /\ ~Answered(a, p) => a[p] = Response
    BY <2>2, OpenAtTheEnd
  <2> HIDE DEF a
  <2>5. ReportedCallsAreAnswered'
    BY <1>1, <2>1, <2>2, <2>3, <2>4, EndsAnswered
  <2> QED
    BY <2>1, <2>5 DEF CallsAreAnswered
\* Some results, or none, and all of them unless the run was cancelled.
<1>14. ASSUME pc = "response", pc' = "turnEnd", cancelled' = cancelled,
              NEW k \in Nat, ~cancelled => k = ToRun(Response),
              context' = context \o Results(k), newMessages' = newMessages \o Results(k),
              k = 0 => ~hasMore' \/ cancelled
       PROVE  CallsAreAnswered'
  <2> DEFINE b == Front(Transcript)
             s == Front(newMessages)
  <2>1. /\ newMessages' = Append(s, Response) \o Results(k)
        /\ context' = Append(b, Response) \o Results(k)
        /\ s \in Seq(Message) /\ b \in Seq(Message) /\ AllAnswered(s)
        /\ Response \in Message /\ Response.role = "assistant"
    BY <1>11, <1>14, Zenon
  <2>2. Paired(b)
    BY <1>14 DEF CallsAreAnswered, Answerable
  <2> HIDE DEF b, s
  <2>3. OnlyLastOpen(newMessages')
    BY <1>14, <2>1, OpenAtTheEnd
  <2>4. ~cancelled => Paired(context') /\ (k > 0 => Waiting(context'))
    BY <1>14, <2>1, <2>2, PairedTurn
  <2>5. ~cancelled /\ hasMore' => k > 0
    BY <1>14
  <2> QED
    BY <1>14, <2>3, <2>4, <2>5 DEF CallsAreAnswered, ReportedCallsAreAnswered
<1>15. ASSUME RunTools PROVE CallsAreAnswered'
  <2>1. PICK k \in 0..ToRun(Response) :
           /\ context' = context \o Results(k) /\ newMessages' = newMessages \o Results(k)
           /\ ~cancelled => k = ToRun(Response)
           /\ k \in Nat
    BY <1>15, ToolsPush
  <2>2. /\ pc = "response" /\ pc' = "turnEnd" /\ cancelled' = cancelled /\ ToRun(Response) > 0
    BY <1>15 DEF RunTools
  <2>3. k = 0 => cancelled
    BY <2>1, <2>2
  <2> QED
    BY <1>14, <2>1, <2>2, <2>3
<1>16. ASSUME NoToolsToRun PROVE CallsAreAnswered'
  <2>1. /\ pc = "response" /\ pc' = "turnEnd" /\ cancelled' = cancelled /\ ToRun(Response) = 0
        /\ UNCHANGED <<context, newMessages>> /\ hasMore' = FALSE
    BY <1>16 DEF NoToolsToRun, transcript
  <2>2. Results(0) = <<>>
    BY ResultsType, EmptySeq
  <2>3. context' = context \o Results(0) /\ newMessages' = newMessages \o Results(0)
    BY <1>1, <2>1, <2>2, ConcatEmptySeq
  <2>4. 0 \in Nat /\ (~cancelled => 0 = ToRun(Response)) /\ (0 = 0 => ~hasMore' \/ cancelled)
    BY <2>1
  <2> QED
    BY <1>14, <2>1, <2>3, <2>4
<1>17. ASSUME LoseRun PROVE CallsAreAnswered'
  <2>1. pc' = "crashed"
    BY <1>17 DEF LoseRun
  <2> QED
    BY <2>1 DEF CallsAreAnswered, ReportedCallsAreAnswered
<1>18. ASSUME EndTurn PROVE CallsAreAnswered'
  <2>1. /\ pc = "turnEnd" /\ pc' \in {"while", "done"} /\ pending = <<>>
        /\ UNCHANGED <<context, newMessages, cancelled, hasMore>>
        /\ pc' = "done" => reported' = newMessages
    BY <1>18 DEF EndTurn, AgentEnd, DrainSteering, transcript, QueuesAreTheirs, InTurn
  <2>2. CASE pc' = "done"
    BY <1>2, <2>1, <2>2
  <2>3. CASE pc' = "while"
    BY <2>1, <2>3 DEF CallsAreAnswered, ReportedCallsAreAnswered
  <2> QED
    BY <2>1, <2>2, <2>3
<1>19. ASSUME (Running /\ (Steer \/ FollowUp \/ Cancel)) \/ UNCHANGED vars PROVE CallsAreAnswered'
  <2>1. /\ UNCHANGED <<history, pc, context, newMessages, hasMore, pending, reported>>
        /\ cancelled => cancelled'
    BY <1>19 DEF Steer, FollowUp, Cancel, vars, transcript
  <2>2. Transcript' = Transcript
    BY <2>1 DEF Transcript
  <2>3. ReportedCallsAreAnswered'
    BY <2>1 DEF CallsAreAnswered, ReportedCallsAreAnswered
  <2> QED
    BY <2>1, <2>2, <2>3 DEF CallsAreAnswered
<1> QED
  BY <1>3, <1>4, <1>5, <1>6, <1>7, <1>8, <1>9, <1>10, <1>12, <1>13, <1>15, <1>16, <1>17,
     <1>18, <1>19 DEF Next, Loop, Stream, Turn, Over

-----------------------------------------------------------------------------
(***************************************************************************)
(* The invariant holds.                                                    *)
(***************************************************************************)
LEMMA LoopInit == Init => LoopIInv
<1> SUFFICES ASSUME Init PROVE LoopIInv
  OBVIOUS
<1>1. TypeOK /\ TurnIsOpen
  BY LoopTypesInit
<1>2. /\ pc = "start" /\ newMessages = <<>> /\ context = history /\ pending = <<>>
      /\ steering = <<>> /\ followUps = <<>> /\ sentSteering = 0 /\ sentFollowUps = 0
      /\ modelCalls = 0 /\ turnCount = 0
  BY DEF Init
<1>3. TranscriptsAgree
  BY <1>2 DEF TranscriptsAgree, ReportIsWhatTheRunAdded
<1>4. RequestsAreCounted
  BY <1>2, LoopAssumption DEF RequestsAreCounted, RequestsAreBounded, InTurn
<1>5. QueuesAreTheirs
  <2>1. \A q \in {"steering", "followUp"} : Heard(q) = <<>> /\ Held(q) = <<>>
    BY <1>2, KeptEmpty DEF Heard, Held
  <2>2. \A q \in {"steering", "followUp"} : Sent(q, 0) = <<>>
    BY DEF Sent
  <2>3. <<>> \o <<>> = <<>>
    BY EmptySeq, ConcatEmptySeq
  <2>4. QueuedMessagesAreHeardOnce
    BY <1>2, <2>1, <2>2, <2>3 DEF QueuedMessagesAreHeardOnce
  <2> QED
    BY <1>2, <2>4, EmptySeq DEF QueuesAreTheirs, InTurn
<1>6. CallsAreAnswered
  BY <1>1, <1>2, TranscriptType DEF CallsAreAnswered, ReportedCallsAreAnswered
<1> QED
  BY <1>1, <1>3, <1>4, <1>5, <1>6 DEF LoopIInv

LEMMA LoopStep == LoopIInv /\ [Next]_vars => LoopIInv'
<1> SUFFICES ASSUME LoopIInv, [Next]_vars PROVE LoopIInv'
  OBVIOUS
<1> USE DEF LoopIInv
<1>1. TypeOK' /\ TurnIsOpen'
  BY LoopTypesStep
<1>2. TranscriptsAgree'
  BY TranscriptsStep
<1>3. RequestsAreCounted'
  BY RequestsStep
<1>4. QueuesAreTheirs'
  BY <1>1, QueuesStep
<1>5. CallsAreAnswered'
  BY <1>1, <1>2, CallsStep
<1> QED
  BY <1>1, <1>2, <1>3, <1>4, <1>5

(***************************************************************************)
(* What AgentEnd reports is what the run added to the transcript, only a   *)
(* cancelled or failed run leaves calls of its last message open, and      *)
(* max_turns bounds the requests, with one retry (run_loop).               *)
(***************************************************************************)
THEOREM ReportsAreTheRuns == Spec => []RunInvariant
<1>1. LoopIInv => RunInvariant
  BY DEF LoopIInv, TranscriptsAgree, CallsAreAnswered, RequestsAreCounted, RunInvariant
<1> QED
  BY <1>1, LoopInit, LoopStep, PTL DEF Spec

(***************************************************************************)
(* A message a user queues while the run goes on is in the transcript, or  *)
(* pending, or in its queue, once and in the order sent, however the turns *)
(* go; it is dropped by a cancelled run only (get_steering_messages,       *)
(* get_follow_up_messages).                                                *)
(***************************************************************************)
THEOREM QueuedIsHeardOnce == Spec => []QueuedMessagesAreHeardOnce
<1>1. LoopIInv => QueuedMessagesAreHeardOnce
  BY DEF LoopIInv, QueuesAreTheirs
<1> QED
  BY <1>1, LoopInit, LoopStep, PTL DEF Spec

(***************************************************************************)
(* Every request to the model ends with a message it can answer, and has   *)
(* the results of all its calls behind each of its messages: those of      *)
(* batches cut short, of failed messages and of retries never go out       *)
(* (stream_assistant_response).                                            *)
(***************************************************************************)
THEOREM RequestsAreAnswerable == Spec => ModelCallsAreAnswerable
<1>1. LoopIInv /\ LoopIInv' /\ [Next]_vars => [AnswerableCall]_vars
  <2> SUFFICES ASSUME LoopIInv, LoopIInv', Next, pc = "while", pc' = "stream"
               PROVE  /\ Paired(context')
                      /\ context' # <<>> /\ context'[Len(context')].role # "assistant"
    BY DEF AnswerableCall, vars
  <2>1. CallModel
    BY DEF Next, Loop, Stream, Turn, Over, NothingToContinue, Start, StopCancelled, DrainFollowUps,
           StreamCancelled, StreamDropped, StreamStart, StreamUpdate, StreamFinal, StreamEof,
           RetryAfterRefresh, FailTurn, RunTools, LoseRun, NoToolsToRun, EndTurn, Steer, FollowUp,
           Cancel, AgentEnd, vars
  <2>2. context' = Transcript'
    BY <2>1 DEF CallModel, LoopIInv, TranscriptsAgree
  <2>3. Answerable(Transcript')
    BY DEF LoopIInv, CallsAreAnswered
  <2> QED
    BY <2>2, <2>3 DEF Answerable, Waiting
<1> QED
  BY <1>1, LoopInit, LoopStep, PTL DEF Spec, ModelCallsAreAnswerable
=============================================================================
