---------------------------- MODULE ModelRequests ----------------------------
(***************************************************************************)
(* The conversation as each of the four protocols puts it in a request.    *)
(*                                                                         *)
(* A message is a role and its blocks; a result also names the call it     *)
(* answers.  An item of a request is a role and its parts; a part is a     *)
(* kind and, for a call or a result, the call's name.  Text itself is left *)
(* out, except whether there is any; system prompts are left out.          *)
(***************************************************************************)
EXTENDS StreamDecoders

CONSTANT
  Vision,   \* the model reads images
  Bridge    \* requires_assistant_after_tool_result

Part(kind, name) == [kind |-> kind, name |-> name]
Item(role, parts) == [role |-> role, parts |-> parts]
ItemIfAny(role, parts) == IF parts = <<>> THEN <<>> ELSE <<Item(role, parts)>>
MapFlat(Op(_), s) == FlattenSeq([i \in DOMAIN s |-> Op(s[i])])

Blank(block) == block.body = <<>>
TextPart(block) == IF Blank(block) THEN <<>> ELSE <<Part("text", 0)>>
CallPart(block) == <<Part("call", block.name)>>

\* A thinking block has its signature from the event that closes it; without
\* one it is sent as text.
ThinkingPart(block) ==
  IF Blank(block) THEN <<>> ELSE <<Part(IF block.closed THEN "thinking" ELSE "text", 0)>>

SaidPart(block) ==
  CASE block.kind = "text" -> TextPart(block)
    [] block.kind = "thinking" -> ThinkingPart(block)
    [] block.kind = "tool" -> CallPart(block)
    [] OTHER -> <<>>

ResultPart(message) == <<Part("result", message.answers)>>

-----------------------------------------------------------------------------
(***************************************************************************)
(* Anthropic: the results that stand together are one item; images the     *)
(* model cannot see are one placeholder, and images alone get a word.      *)
(***************************************************************************)
UserPart(block) ==
  IF block.kind = "image" THEN <<Part(IF Vision THEN "image" ELSE "placeholder", 0)>>
  ELSE TextPart(block)

UserParts(blocks) ==
  LET given == MapFlat(UserPart, blocks)
      merged == FlattenSeq([i \in DOMAIN given |->
                  IF i > 1 /\ given[i].kind = "placeholder" /\ given[i - 1].kind = "placeholder"
                  THEN <<>> ELSE <<given[i]>>])
  IN  IF merged # <<>> /\ \A i \in DOMAIN merged : merged[i].kind = "image"
      THEN <<Part("text", 0)>> \o merged ELSE merged

ResultsFrom(history, i) ==
  LET last == CHOOSE j \in i..Len(history) :
                 /\ \A k \in i..j : history[k].role = "result"
                 /\ j = Len(history) \/ history[j + 1].role # "result"
  IN  MapFlat(ResultPart, SubSeq(history, i, last))

\* Faulty variant: the results that follow the first are passed over.
AnthropicItemOfFirst(history, i) ==
  LET m == history[i] IN
  CASE m.role = "user" -> ItemIfAny("user", UserParts(m.blocks))
    [] m.role = "assistant" -> ItemIfAny("assistant", MapFlat(SaidPart, m.blocks))
    [] m.role = "result" ->
         IF i > 1 /\ history[i - 1].role = "result" THEN <<>> ELSE <<Item("user", ResultPart(m))>>

AnthropicItem(history, i) ==
  LET m == history[i] IN
  CASE m.role = "user" -> ItemIfAny("user", UserParts(m.blocks))
    [] m.role = "assistant" -> ItemIfAny("assistant", MapFlat(SaidPart, m.blocks))
    [] m.role = "result" ->
         IF i > 1 /\ history[i - 1].role = "result" THEN <<>>
         ELSE <<Item("user", ResultsFrom(history, i))>>

AnthropicRequest(history) == FlattenSeq([i \in DOMAIN history |-> AnthropicItem(history, i)])

-----------------------------------------------------------------------------
(***************************************************************************)
(* Bedrock: a result joins the item before it if that is the user's.       *)
(***************************************************************************)
BedrockUserPart(block) == <<Part(block.kind, 0)>>

BedrockAdd(items, message) ==
  CASE message.role = "user" -> items \o ItemIfAny("user", MapFlat(BedrockUserPart, message.blocks))
    [] message.role = "assistant" -> items \o ItemIfAny("assistant", MapFlat(SaidPart, message.blocks))
    [] message.role = "result" ->
         IF items # <<>> /\ Last(items).role = "user"
         THEN [items EXCEPT ![Len(items)].parts = @ \o ResultPart(message)]
         ELSE Append(items, Item("user", ResultPart(message)))

BedrockRequest(history) == FoldLeft(BedrockAdd, <<>>, history)

-----------------------------------------------------------------------------
(***************************************************************************)
(* Chat completions: an item for every message; thinking goes as a field   *)
(* and only some servers want a word between results and the user.         *)
(***************************************************************************)
CompletionsUserPart(block) ==
  IF block.kind = "image" /\ ~Vision THEN <<>> ELSE <<Part(block.kind, 0)>>

CompletionsSaidPart(block) ==
  CASE block.kind = "tool" -> CallPart(block)
    [] block.kind = "thinking" -> IF Blank(block) THEN <<>> ELSE <<Part("thinking", 0)>>
    [] OTHER -> TextPart(block)

CompletionsItem(history, i) ==
  LET m == history[i]
      bridge == IF Bridge /\ i > 1 /\ history[i - 1].role = "result"
                THEN <<Item("assistant", <<Part("text", 0)>>)>> ELSE <<>>
  IN  CASE m.role = "user" -> bridge \o ItemIfAny("user", MapFlat(CompletionsUserPart, m.blocks))
        [] m.role = "assistant" -> ItemIfAny("assistant", MapFlat(CompletionsSaidPart, m.blocks))
        [] m.role = "result" -> <<Item("tool", ResultPart(m))>>

CompletionsRequest(history) == FlattenSeq([i \in DOMAIN history |-> CompletionsItem(history, i)])

-----------------------------------------------------------------------------
(***************************************************************************)
(* Responses: an item for every block; thinking always as thinking.        *)
(***************************************************************************)
ResponsesSaidItem(block) ==
  <<Item("assistant", <<Part(IF block.kind = "tool" THEN "call" ELSE block.kind,
                             IF block.kind = "tool" THEN block.name ELSE 0)>>)>>

ResponsesItem(message) ==
  CASE message.role = "user" -> <<Item("user", MapFlat(BedrockUserPart, message.blocks))>>
    [] message.role = "assistant" -> MapFlat(ResponsesSaidItem, message.blocks)
    [] message.role = "result" -> <<Item("tool", ResultPart(message))>>

ResponsesRequest(history) == MapFlat(ResponsesItem, history)

-----------------------------------------------------------------------------
Request(p, history) ==
  CASE p = "anthropic" -> AnthropicRequest(history)
    [] p = "bedrock" -> BedrockRequest(history)
    [] p = "completions" -> CompletionsRequest(history)
    [] p = "responses" -> ResponsesRequest(history)
=============================================================================
