--------------------------- MODULE StreamDecoders ----------------------------
(***************************************************************************)
(* How each of the four provider protocols is turned into the events the   *)
(* agent loop hears.  A decoder is a record; one event of the server gives *)
(* the next decoder and the events it pushes.                              *)
(*                                                                         *)
(* A block of content is its kind, the server's name for it and the parts  *)
(* of text or of JSON arguments that were put in it; arguments are whole   *)
(* with ArgParts parts.  Usage, cost and response ids are left out, and so *)
(* are blocks of a type the decoders skip.                                 *)
(***************************************************************************)
EXTENDS Integers, Sequences, SequencesExt, TLC

CONSTANT ArgParts

Providers == {"anthropic", "bedrock", "completions", "responses"}

NewDecoder == [content |-> <<>>, stop |-> "stop", began |-> FALSE, ended |-> FALSE,
               index |-> <<>>, stack |-> <<>>, over |-> FALSE]

\* What a step gives: the decoder and the events pushed, each with a copy of
\* the content so far.
Tell(type, at, d) == [type |-> type, at |-> at, content |-> d.content, stop |-> d.stop]
Result(d, events) == [decoder |-> d, events |-> events]
Silent(d) == Result(d, <<>>)

\* emit_error: a new, empty message.
Fails(d, events) ==
  Result([d EXCEPT !.over = TRUE],
         Append(events, [type |-> "error", at |-> 0, content |-> <<>>, stop |-> "error"]))
FailsWithPartial(d) ==
  Result([d EXCEPT !.over = TRUE], <<Tell("error", 0, [d EXCEPT !.stop = "error"])>>)
Ends(d) == Result([d EXCEPT !.over = TRUE], <<Tell("done", 0, d)>>)

Block(kind, name) == [kind |-> kind, name |-> name, body |-> <<>>, closed |-> FALSE]
WithBlock(d, kind, name, key) ==
  [d EXCEPT !.content = Append(@, Block(kind, name)), !.index = (key :> Len(d.content) + 1) @@ @]
Grown(d, at, e) == [d EXCEPT !.content[at].body = Append(@, e.part)]
Closed(d, at) == [d EXCEPT !.content[at].closed = TRUE]
Has(d, key) == key \in DOMAIN d.index

(***************************************************************************)
(* Anthropic: every block has its number, and its index maps it.           *)
(***************************************************************************)
AnthropicStop(stop) ==
  CASE stop = "end" -> "stop" [] stop = "length" -> "length" [] stop = "tool" -> "tool" [] OTHER -> "error"

Spoilt == 0

\* A chunk of bytes is read as text by itself: a character that two chunks
\* share is replaced.
AnthropicGrow(d, e) ==
  LET at == d.index[e.block]
      grown == Grown(d, at, IF e.split THEN [e EXCEPT !.part = Spoilt] ELSE e)
  IN  Result(grown, <<Tell("delta", at, grown)>>)

AnthropicOpen(d, e) ==
  LET opened == WithBlock(d, e.kind, e.block, e.block)
  IN  Result(opened, <<Tell("start", Len(opened.content), opened)>>)

AnthropicClose(d, e) ==
  LET at == d.index[e.block] IN Result(Closed(d, at), <<Tell("end", at, Closed(d, at))>>)

AnthropicStep(d, e) ==
  CASE e.act = "begin" -> Silent([d EXCEPT !.began = TRUE])
    [] e.act = "open" -> AnthropicOpen(d, e)
    [] e.act = "grow" -> AnthropicGrow(d, e)
    [] e.act = "close" -> AnthropicClose(d, e)
    [] e.act = "stop" -> Silent([d EXCEPT !.stop = AnthropicStop(e.stop)])
    [] e.act = "bye" -> Silent([d EXCEPT !.ended = TRUE])
    [] e.act = "fail" -> Fails(d, <<>>)

\* A frame that was torn is looked at only for its name.
AnthropicRefuses(how) == how = "reset"

AnthropicEof(d, how) ==
  IF AnthropicRefuses(how) \/ (d.began /\ ~d.ended) THEN Fails(d, <<>>) ELSE Ends(d)

(***************************************************************************)
(* Bedrock: a stack of open blocks; only tools are announced, and a stop   *)
(* closes the block on top, whatever its number.                           *)
(***************************************************************************)
Topmost(d, kind) == {n \in DOMAIN d.stack : d.content[d.stack[n]].kind = kind}

BedrockOpen(d, e) ==
  LET opened == WithBlock(d, e.kind, e.block, e.block)
      at == Len(opened.content)
  IN  Result([opened EXCEPT !.stack = Append(@, at)], <<Tell("start", at, opened)>>)

BedrockGrow(d, e) ==
  LET first == IF Topmost(d, e.kind) # {} THEN Silent(d) ELSE BedrockOpen(d, e)
      known == first.decoder
      at == known.stack[CHOOSE n \in Topmost(known, e.kind) : \A m \in Topmost(known, e.kind) : m <= n]
      grown == Grown(known, at, e)
  IN  IF e.kind = "tool" /\ Topmost(d, "tool") = {} THEN Silent(d)
      ELSE Result(grown, Append(first.events, Tell("delta", at, grown)))

BedrockClose(d) ==
  IF d.stack = <<>> THEN Silent(d)
  ELSE LET at == Last(d.stack)
           rest == [Closed(d, at) EXCEPT !.stack = Front(@)]
       IN  Result(rest, <<Tell("end", at, rest)>>)

BedrockStep(d, e) ==
  CASE e.act = "begin" -> Result(d, <<Tell("begin", 0, d)>>)
    [] e.act = "open" -> IF e.kind = "tool" THEN BedrockOpen(d, e) ELSE Silent(d)
    [] e.act = "grow" -> BedrockGrow(d, e)
    [] e.act = "close" -> BedrockClose(d)
    [] e.act = "stop" -> Silent([d EXCEPT !.stop = AnthropicStop(e.stop)])
    [] e.act = "bye" -> Silent(d)
    [] e.act = "fail" -> FailsWithPartial(d)

\* Whether the message was over is not looked at.
BedrockEof(d, how) == IF how = "closed" THEN Ends(d) ELSE FailsWithPartial(d)

(***************************************************************************)
(* Chat completions: one text block, one thinking block, and a block per   *)
(* tool index; all are closed at the end.                                  *)
(***************************************************************************)
Key(e) == <<e.kind, IF e.kind = "tool" THEN e.block ELSE 0>>

Ensured(d, e) ==
  IF Has(d, Key(e)) THEN Silent(d)
  ELSE LET made == WithBlock(d, e.kind, e.block, Key(e))
       IN  Result(made, <<Tell("start", Len(made.content), made)>>)

\* Faulty variant: the text goes to the block made last.
CompletionsGrowLast(d, e) ==
  LET first == Ensured(d, e)
      at == Len(first.decoder.content)
      grown == Grown(first.decoder, at, e)
  IN  Result(grown, Append(first.events, Tell("delta", at, grown)))

CompletionsGrow(d, e) ==
  LET first == Ensured(d, e)
      at == first.decoder.index[Key(e)]
      grown == Grown(first.decoder, at, e)
  IN  Result(grown, Append(first.events, Tell("delta", at, grown)))

CompletionsStep(d, e) ==
  CASE e.act = "open" ->
         IF e.kind # "tool" THEN Silent(d)
         ELSE LET first == Ensured(d, e)
              IN  Result(first.decoder,
                         Append(first.events, Tell("delta", first.decoder.index[Key(e)], first.decoder)))
    [] e.act = "grow" -> CompletionsGrow(d, e)
    [] e.act = "stop" -> Silent([d EXCEPT !.stop = AnthropicStop(e.stop), !.ended = TRUE])
    [] e.act = "fail" -> Fails(d, <<>>)
    [] OTHER -> Silent(d)

\* A frame that was torn is no JSON.
CompletionsRefuses(how) == how # "closed"

CompletionsEof(d, how) ==
  LET ends == [at \in DOMAIN d.content |-> Tell("end", at, d)]
  IN  IF CompletionsRefuses(how) THEN Fails(d, <<>>)
      ELSE IF d.stop = "error" \/ ~d.ended THEN Fails(d, ends)
      ELSE Result([d EXCEPT !.over = TRUE], Append(ends, Tell("done", 0, d)))

(***************************************************************************)
(* Responses: blocks are made by their first delta; an item that is done   *)
(* replaces what was gathered, and forgets the text or thinking block.     *)
(* The stream begins with "created" or the first delta.                    *)
(***************************************************************************)
ResponsesBegin(d) ==
  IF d.began THEN Silent(d)
  ELSE Result([d EXCEPT !.began = TRUE], <<Tell("begin", 0, d)>>)

ResponsesGrow(d, e) ==
  LET first == ResponsesBegin(d)
      then == CompletionsGrow(first.decoder, e)
  IN  Result(then.decoder, first.events \o then.events)

\* Faulty variant: the block is not forgotten.
ResponsesCloseKeeping(d, e) ==
  IF ~Has(d, Key(e)) THEN Silent(d)
  ELSE LET at == d.index[Key(e)]
           said == [d EXCEPT !.content[at].body = e.final, !.content[at].closed = TRUE]
       IN  Result(said, <<Tell("end", at, said)>>)

\* A call nobody has heard of is added as a whole, without being opened.
ResponsesClose(d, e) ==
  LET known == Has(d, Key(e))
      at == IF known THEN d.index[Key(e)] ELSE Len(d.content) + 1
      base == IF known THEN d ELSE [d EXCEPT !.content = Append(@, Block("tool", e.block))]
      said == [base EXCEPT !.content[at].body = e.final, !.content[at].closed = TRUE,
                           !.index = [k \in DOMAIN d.index \ {Key(e)} |-> d.index[k]]]
  IN  IF ~known /\ e.kind # "tool" THEN Silent(d) ELSE Result(said, <<Tell("end", at, said)>>)

HasCall(d) == \E i \in DOMAIN d.content : d.content[i].kind = "tool"

\* After its last word the decoder goes on reading.
ResponsesStop(d, e) ==
  LET over == [d EXCEPT !.stop = IF e.stop = "length" THEN "length"
                                 ELSE IF HasCall(d) THEN "tool" ELSE "stop"]
  IN  Result(over, <<Tell("done", 0, over)>>)

ResponsesStep(d, e) ==
  CASE e.act = "begin" -> ResponsesBegin(d)
    [] e.act = "grow" -> ResponsesGrow(d, e)
    [] e.act = "close" -> ResponsesClose(d, e)
    [] e.act = "stop" -> ResponsesStop(d, e)
    [] e.act = "fail" -> Result(d, FailsWithPartial(d).events)
    [] OTHER -> Silent(d)

ResponsesRefuses(how) == how # "closed"

\* Faulty variant: the stream is kept open.
ResponsesEofWaiting(d, how) == IF ResponsesRefuses(how) THEN Fails(d, <<>>) ELSE Silent(d)

\* finish() says nothing.
ResponsesEof(d, how) ==
  IF ResponsesRefuses(how) THEN Fails(d, <<>>) ELSE Silent([d EXCEPT !.over = TRUE])

-----------------------------------------------------------------------------
Step(p, d, e) ==
  CASE p = "anthropic" -> AnthropicStep(d, e) [] p = "bedrock" -> BedrockStep(d, e)
    [] p = "completions" -> CompletionsStep(d, e) [] p = "responses" -> ResponsesStep(d, e)

Eof(p, d, how) ==
  CASE p = "anthropic" -> AnthropicEof(d, how) [] p = "bedrock" -> BedrockEof(d, how)
    [] p = "completions" -> CompletionsEof(d, how) [] p = "responses" -> ResponsesEof(d, how)

\* Two of the decoders begin as soon as the server has accepted the request.
Accepted(p) ==
  IF p \in {"anthropic", "completions"} THEN <<Tell("begin", 0, NewDecoder)>> ELSE <<>>

(***************************************************************************)
(* The arguments of a call.  Anthropic's are what can be made of the JSON  *)
(* so far; Bedrock's and Responses' are parsed when the block is closed;   *)
(* those of completions are a string until they are JSON.                  *)
(***************************************************************************)
Whole(block) == Len(block.body) = ArgParts

Form(p, block) ==
  CASE p = "anthropic" -> "object"
    [] p = "bedrock" -> IF block.closed /\ ~Whole(block) THEN "null" ELSE "object"
    [] p = "completions" -> IF Whole(block) THEN "object" ELSE "string"
    [] p = "responses" -> IF block.closed /\ Whole(block) THEN "object" ELSE "null"

\* What the tool is given: a null is an empty object.
Given(p, block) ==
  IF p \in {"bedrock", "responses"} /\ ~(block.closed /\ Whole(block)) THEN <<>> ELSE block.body
=============================================================================
