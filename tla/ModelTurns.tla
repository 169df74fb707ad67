------------------------------ MODULE ModelTurns ------------------------------
(***************************************************************************)
(* Requests to a model and the streams that answer them: a prompt makes a  *)
(* request, the server speaks, a provider task decodes what it says, and   *)
(* the agent loop hears the events one by one until the stream ends or it  *)
(* is cancelled.  Then the calls of the message are run, their results go  *)
(* in the conversation, and the next request is made.                      *)
(*                                                                         *)
(* The server and the network are external: the server speaks in the order *)
(* its protocol documents, may report a failure at any time, and the       *)
(* connection may be closed, torn inside a frame or reset.  It speaks only *)
(* when all that was decoded has been heard: what is heard depends on the  *)
(* order of the events alone, and a cancellation may come between any two. *)
(***************************************************************************)
EXTENDS ModelRequests

CONSTANTS MaxBlocks, MaxRetries, Prompts

VARIABLES
  provider,
  history,
  stage,     \* of the run: "idle", "reading" or "acting"
  decoder,
  queue,     \* events pushed and not heard yet
  server,    \* [wire, attempt, begun, blocks, stop, bye]
  heard,     \* [phase, opened, closed, partial]: of stream_assistant_response
  calls,     \* of the message, to be run
  ran,       \* the calls that were run last, with what they were given
  named      \* blocks the server has opened, in all

vars == <<provider, history, stage, decoder, queue, server, heard, calls, ran, named>>
talk == <<decoder, queue, server, named>>

Asked == [wire |-> "asked", attempt |-> 0, begun |-> FALSE, blocks |-> <<>>, stop |-> "none",
          bye |-> FALSE]
Unheard == [phase |-> "silent", opened |-> 0, closed |-> <<>>, partial |-> <<>>]

Message(role, blocks, answers, stop) ==
  [role |-> role, blocks |-> blocks, answers |-> answers, stop |-> stop]

Init ==
  /\ provider \in Providers
  /\ history = <<>> /\ stage = "idle" /\ calls = <<>> /\ ran = {} /\ named = 0
  /\ decoder = NewDecoder /\ queue = <<>> /\ server = Asked /\ heard = Unheard

Prompted == Len(SelectSeq(history, LAMBDA m : m.role = "user"))

Ask == stage' = "reading" /\ decoder' = NewDecoder /\ queue' = <<>> /\ server' = Asked /\ heard' = Unheard

Prompt ==
  /\ stage = "idle" /\ Prompted < Len(Prompts)
  /\ history' = Append(history, Message("user", Prompts[Prompted + 1], 0, ""))
  /\ Ask /\ UNCHANGED <<provider, calls, ran, named>>

-----------------------------------------------------------------------------
\* What the decoder makes of it, when the server says `e' or nothing more.
Decodes(step) == decoder' = step.decoder /\ queue' = queue \o step.events

\* Only chat completions are sent again, after a status or an error that may pass.
SendAgain ==
  /\ stage = "reading" /\ server.wire = "asked"
  /\ provider = "completions" /\ server.attempt < MaxRetries
  /\ server' = [server EXCEPT !.attempt = @ + 1]
  /\ UNCHANGED <<provider, history, stage, decoder, queue, heard, calls, ran, named>>

Refused ==
  /\ stage = "reading" /\ server.wire = "asked"
  /\ server' = [server EXCEPT !.wire = "closed"]
  /\ Decodes(Fails(decoder, <<>>))
  /\ UNCHANGED <<provider, history, stage, heard, calls, ran, named>>

Accept ==
  /\ stage = "reading" /\ server.wire = "asked"
  /\ server' = [server EXCEPT !.wire = "up"]
  /\ Decodes(Result(decoder, Accepted(provider)))
  /\ UNCHANGED <<provider, history, stage, heard, calls, ran, named>>

-----------------------------------------------------------------------------
(***************************************************************************)
(* The server.                                                             *)
(***************************************************************************)
Speaks(e, said) ==
  /\ stage = "reading" /\ server.wire = "up" /\ queue = <<>> /\ ~decoder.over
  /\ server' = said
  /\ Decodes(Step(provider, decoder, e))
  /\ UNCHANGED <<provider, history, stage, heard, calls, ran>>

\* Only chat completions mix the parts of their blocks.
Mixed == provider = "completions"
Unfinished == {i \in DOMAIN server.blocks : ~server.blocks[i].closed}
Cut(block) == block.kind = "tool" /\ Len(block.body) < ArgParts

BeginMessage ==
  /\ ~server.begun /\ ~Mixed
  /\ Speaks([act |-> "begin"], [server EXCEPT !.begun = TRUE])
  /\ UNCHANGED named

OpenBlock ==
  /\ server.begun \/ Mixed
  /\ server.stop = "none" /\ named < MaxBlocks
  /\ Mixed \/ Unfinished = {}
  /\ \A i \in DOMAIN server.blocks : server.blocks[i].closed => ~Cut(server.blocks[i])
  /\ \E kind \in {"text", "thinking", "tool"} :
       /\ Mixed /\ kind # "tool" => \A i \in DOMAIN server.blocks : server.blocks[i].kind # kind
       /\ Speaks([act |-> "open", kind |-> kind, block |-> named + 1],
                 [server EXCEPT !.blocks = Append(@, Block(kind, named + 1))])
  /\ named' = named + 1

GrowBlock ==
  /\ server.stop = "none"
  /\ \E i \in Unfinished, split \in BOOLEAN :
       LET block == server.blocks[i]
           part == Len(block.body) + 1
       IN  /\ part <= ArgParts
           /\ split => provider = "anthropic" /\ part = ArgParts
           /\ Speaks([act |-> "grow", kind |-> block.kind, block |-> block.name,
                      part |-> part, split |-> split],
                     [server EXCEPT !.blocks[i].body = Append(@, part)])
  /\ UNCHANGED named

\* A call that is cut at the limit of tokens is closed too.
CloseBlock ==
  /\ ~Mixed /\ server.stop = "none"
  /\ \E i \in Unfinished :
       LET block == server.blocks[i] IN
       /\ provider = "responses" => block.body # <<>>
       /\ Speaks([act |-> "close", kind |-> block.kind, block |-> block.name, final |-> block.body],
                 [server EXCEPT !.blocks[i].closed = TRUE])
  /\ UNCHANGED named

Finish ==
  /\ server.stop = "none" /\ (server.begun \/ Mixed)
  /\ provider \in {"anthropic", "bedrock"} => Unfinished = {}
  /\ \E stop \in {"end", "tool", "length"} :
       LET tools == {i \in DOMAIN server.blocks : server.blocks[i].kind = "tool"} IN
       /\ stop = "end" => tools = {}
       /\ stop = "tool" => tools # {}
       /\ stop # "length" => \A i \in tools : ~Cut(server.blocks[i])
       /\ provider = "responses" /\ stop # "length" => Unfinished = {}
       /\ Speaks([act |-> "stop", stop |-> stop], [server EXCEPT !.stop = stop])
  /\ UNCHANGED named

SayBye ==
  /\ server.stop # "none" /\ ~server.bye
  /\ Speaks([act |-> "bye"], [server EXCEPT !.bye = TRUE])
  /\ UNCHANGED named

ReportFailure ==
  /\ server.stop = "none"
  /\ Speaks([act |-> "fail"], [server EXCEPT !.stop = "failed"])
  /\ UNCHANGED named

HangUp ==
  /\ stage = "reading" /\ server.wire = "up" /\ queue = <<>> /\ ~decoder.over
  /\ \E how \in {"closed", "torn", "reset"} :
       /\ server' = [server EXCEPT !.wire = how]
       /\ Decodes(Eof(provider, decoder, how))
  /\ UNCHANGED <<provider, history, stage, heard, calls, ran, named>>

-----------------------------------------------------------------------------
(***************************************************************************)
(* The agent loop.                                                         *)
(***************************************************************************)
CallsOf(blocks) == SelectSeq(blocks, LAMBDA b : b.kind = "tool")

\* After "length", the last call is dropped if its arguments are text.
CallsToRun(blocks, stop) ==
  LET all == CallsOf(blocks) IN
  IF stop = "length" /\ all # <<>> /\ Form(provider, Last(all)) = "string" THEN Front(all) ELSE all

EndTurn(blocks, stop, phase) ==
  LET run == IF stop \in {"error", "aborted"} THEN <<>> ELSE CallsToRun(blocks, stop) IN
  /\ history' = Append(history, Message("assistant", blocks, 0, stop))
  /\ calls' = run /\ stage' = IF run = <<>> THEN "idle" ELSE "acting"
  /\ heard' = [heard EXCEPT !.phase = phase]

Hear ==
  /\ stage = "reading" /\ queue # <<>>
  /\ LET e == Head(queue) IN
       CASE e.type \in {"done", "error"} -> EndTurn(e.content, e.stop, e.type)
         [] e.type = "begin" ->
              /\ heard' = [heard EXCEPT !.phase = "speaking", !.partial = <<e.content>>]
              /\ UNCHANGED <<history, stage, calls>>
         [] OTHER ->
              /\ heard' = [heard EXCEPT !.partial = <<e.content>>,
                             !.opened = IF e.type = "start" THEN e.at ELSE @,
                             !.closed = IF e.type = "end" THEN Append(@, e.at) ELSE @]
              /\ UNCHANGED <<history, stage, calls>>
  /\ queue' = Tail(queue)
  /\ UNCHANGED <<provider, decoder, server, ran, named>>

\* The stream ends without a word: its message is taken back.
HearSilence ==
  /\ stage = "reading" /\ queue = <<>> /\ decoder.over
  /\ stage' = "idle" /\ heard' = [heard EXCEPT !.phase = "gone"]
  /\ UNCHANGED <<provider, history, calls, ran, talk>>

\* Cancelled: what was heard so far is kept as an aborted message.
Cancel ==
  /\ stage = "reading"
  /\ IF heard.partial = <<>>
     THEN stage' = "idle" /\ heard' = [heard EXCEPT !.phase = "gone"] /\ UNCHANGED <<history, calls>>
     ELSE EndTurn(heard.partial[1], "aborted", "gone")
  /\ UNCHANGED <<provider, ran, talk>>

SaidAs(name) == server.blocks[CHOOSE i \in DOMAIN server.blocks : server.blocks[i].name = name]

\* The whole batch, and the next request.
RunCalls ==
  /\ stage = "acting"
  /\ history' = history \o [i \in DOMAIN calls |-> Message("result", <<>>, calls[i].name, "")]
  /\ ran' = {[given |-> Given(provider, calls[i]), said |-> SaidAs(calls[i].name).body,
                       stop |-> Last(history).stop, server |-> server.stop] : i \in DOMAIN calls}
  /\ calls' = <<>>
  /\ Ask /\ UNCHANGED <<provider, named>>

Next ==
  \/ Prompt \/ SendAgain \/ Refused \/ Accept
  \/ BeginMessage \/ OpenBlock \/ GrowBlock \/ CloseBlock \/ Finish \/ SayBye \/ ReportFailure \/ HangUp
  \/ Hear \/ HearSilence \/ Cancel \/ RunCalls

\* The loop and the tools are tasks that go on; and the shared HTTP client
\* gives a request 300 seconds in all, which Bedrock's own client does not.
Spec ==
  /\ Init /\ [][Next]_vars
  /\ WF_vars(Hear \/ HearSilence \/ RunCalls)
  /\ WF_vars(provider # "bedrock" /\ (HangUp \/ Refused))

-----------------------------------------------------------------------------
\* Requests, decoders and messages have their types; calls are run exactly while the loop acts
\* on a message that has some (run_loop).
TypeOK ==
  /\ stage \in {"idle", "reading", "acting"}
  /\ server.wire \in {"asked", "up", "closed", "torn", "reset"} /\ server.attempt \in 0..MaxRetries
  /\ heard.phase \in {"silent", "speaking", "done", "error", "gone"}
  /\ Range(heard.closed) \subseteq 1..MaxBlocks
  /\ decoder.began \in BOOLEAN /\ decoder.ended \in BOOLEAN /\ decoder.over \in BOOLEAN
  /\ \A i \in DOMAIN history : history[i].role \in {"user", "assistant", "result"}
  /\ named \in 0..MaxBlocks
  /\ (stage = "acting") = (calls # <<>>)

Stream == INSTANCE AssistantStream WITH
  phase <- heard.phase, opened <- heard.opened, closed <- heard.closed

\* Whichever provider answers, the events that stream_assistant_response
\* hears of one request are a well-formed stream: one beginning, blocks
\* opened in order and closed at most once, nothing after the end.
StreamsKeepTheContract == Stream!Spec

SameBlock(block, said) ==
  /\ block.kind = said.kind /\ Len(block.body) = Len(said.body)
  /\ \A n \in DOMAIN said.body :
       \/ block.body[n] = said.body[n]
       \/ block.body[n] = Spoilt /\ provider = "anthropic"

\* A message the loop takes for whole holds every part of every block the
\* server sent, in order and in the block it was sent for, though the parts
\* of blocks may come mixed; only Anthropic's decoder, which reads each chunk
\* of bytes by itself, may spoil a part.
DoneIsWhatWasSaid ==
  heard.phase = "done" =>
    LET blocks == LET m == CHOOSE i \in DOMAIN history :
                             history[i].role = "assistant" /\ \A j \in DOMAIN history :
                               history[j].role = "assistant" => j <= i
                  IN  history[m].blocks
    IN  /\ \A i \in DOMAIN server.blocks : server.blocks[i].body # <<>> =>
             \E j \in DOMAIN blocks :
               blocks[j].name = server.blocks[i].name /\ SameBlock(blocks[j], server.blocks[i])
        /\ \A j \in DOMAIN blocks : \E i \in DOMAIN server.blocks : server.blocks[i].name = blocks[j].name

\* A stream that stops short is not taken for a finished message: the loop
\* hears "done" only after the server has given its reason to stop - except
\* from Bedrock, whose decoder looks only at the connection, and from
\* Anthropic before the message has begun.
DoneMeansFinished ==
  heard.phase = "done" =>
    \/ server.stop \in {"end", "tool", "length"}
    \/ provider = "bedrock" /\ server.wire = "closed"
    \/ provider = "anthropic" /\ ~server.begun

RunAsSaid(call) == Len(call.given) = Len(call.said) /\ Len(call.said) = ArgParts

\* A tool gets all the arguments the model wrote for it, unless the message
\* was cut at the limit of tokens or by a Bedrock connection that closed.
ToolsGetWhatWasSaid ==
  \A call \in ran : RunAsSaid(call) \/ call.stop = "length" \/ (provider = "bedrock" /\ call.server = "none")

(***************************************************************************)
(* What the loop takes for the model's answer is what the server said:     *)
(* whole, finished, and with the arguments of its calls as they were sent; *)
(* where Anthropic's and Bedrock's decoders promise less, the parts say    *)
(* so.                                                                     *)
(***************************************************************************)
HeardIsSaid ==
  /\ DoneIsWhatWasSaid
  /\ DoneMeansFinished
  /\ ToolsGetWhatWasSaid

At(items, kind) ==
  {<<i, n>> \in {<<i, n>> : i \in DOMAIN items, n \in 1..(MaxBlocks + Len(Prompts) + 1)} :
     n \in DOMAIN items[i].parts /\ items[i].parts[n].kind = kind}
NameAt(items, pos) == items[pos[1]].parts[pos[2]].name

RequestPairsCalls(p) ==
  LET items == Request(p, history) IN
  /\ \A result \in At(items, "result") :
       /\ \E call \in At(items, "call") :
            /\ NameAt(items, call) = NameAt(items, result)
            /\ IF p \in {"anthropic", "bedrock"} THEN result[1] = call[1] + 1 ELSE result[1] > call[1]
       /\ \A other \in At(items, "result") :
            NameAt(items, other) = NameAt(items, result) => other = result
  /\ {NameAt(items, result) : result \in At(items, "result")} =
       {history[i].answers : i \in {i \in DOMAIN history : history[i].role = "result"}}
  /\ \/ items # <<>> /\ Last(items).role \in {"user", "tool"}
     \/ p = "completions" /\ \E i \in DOMAIN history : \E b \in DOMAIN history[i].blocks :
          history[i].blocks[b].kind = "image"

\* Whichever provider the next request goes to, all the results are in it,
\* once, and each follows the call it answers; for Anthropic and Bedrock all
\* the results of a message are in the item right after it; and the request
\* ends with the user's word or a result, unless it was an image left out.
RequestsPairCalls ==
  (stage = "reading" /\ server.wire = "asked") => \A p \in Providers : RequestPairsCalls(p)

Answered(i, call) ==
  \E j \in (i + 1)..Len(history) :
    history[j].answers = call.name /\ \A k \in (i + 1)..j : history[k].role = "result"

\* Every call of a message that ended by itself is answered before anything
\* else is said, except the last of a message cut at the limit of tokens.
FinishedCallsAreAnswered ==
  (stage = "reading" /\ server.wire = "asked") =>
    \A i \in DOMAIN history :
      history[i].role = "assistant" /\ history[i].stop \notin {"error", "aborted"} =>
        LET all == CallsOf(history[i].blocks) IN
        \A n \in DOMAIN all : \/ Answered(i, all[n])
                               \/ (n = Len(all) /\ history[i].stop = "length")

(***************************************************************************)
(* What a provider is sent, it accepts: every result is paired with its    *)
(* call in the form of the provider's protocol, and every call of a        *)
(* finished turn has a result.                                             *)
(***************************************************************************)
RequestsArePaired ==
  /\ TypeOK
  /\ RequestsPairCalls
  /\ FinishedCallsAreAnswered

\* A stream that is over does not keep the loop waiting, and no server can
\* keep it waiting for ever, except over Bedrock's client.
RequestsEnd == (stage = "reading" /\ (decoder.over \/ provider # "bedrock")) ~> (stage # "reading")
=============================================================================
