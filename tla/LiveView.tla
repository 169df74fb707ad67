------------------------------ MODULE LiveView ------------------------------
(***************************************************************************)
(* LiveState of crates/rozsa-gui/src/state.rs, what a GUI tab shows of its *)
(* session, and what the session file is read for: pure operators.         *)
(*                                                                         *)
(* A message is its kind and the number of the prompt it belongs to.  The  *)
(* tools of a run are told of, and saved, with its reply: what a run       *)
(* changed is known by the number of its prompt.                           *)
(***************************************************************************)
EXTENDS Selection, SequencesExt

Said(kind, n) == [kind |-> kind, n |-> n]
Event(type, messages) == [type |-> type, messages |-> messages]
IsAssistant(m) == m.kind \in {"partial", "reply", "error"}

\* The first place of x in q; the last of an entry of a kind, 0 if there is none.
FirstOf(q, x) == SelectInSeq(q, LAMBDA y : y = x)
LastOf(file, kind) == SelectLastInSeq(file, LAMBDA e : e.kind = kind)

\* An optional value is a set of none or one.
EmptyView ==
  [messages |-> <<>>, streaming |-> FALSE, base |-> 0, at |-> 0, interaction |-> FALSE,
   activity |-> {}, summary |-> {}, queue |-> <<>>, steering |-> <<>>]

Begun(v) == [v EXCEPT !.interaction = TRUE, !.activity = {}, !.summary = {}]
Finished(v, changes) ==
  [v EXCEPT !.interaction = FALSE, !.streaming = FALSE, !.activity = changes,
            !.summary = {changes}]

(***************************************************************************)
(* apply, by the kind of event; the prompt's own message comes with the    *)
(* start.  A message that grows or ends replaces the one it began as or,   *)
(* when that is not known, the last assistant message.                     *)
(***************************************************************************)
Begins(v) ==
  [(IF v.interaction THEN v ELSE Begun(v)) EXCEPT !.base = Len(v.messages),
     !.streaming = TRUE, !.at = 0]

Shows(v, m) ==
  [v EXCEPT !.messages = Append(@, m),
            !.at = IF IsAssistant(m) THEN Len(v.messages) + 1 ELSE @]

PlaceOf(v) ==
  IF v.at \in 1..Len(v.messages) THEN v.at
  ELSE SelectLastInSeq(v.messages, IsAssistant)

Replaces(v, m) ==
  [v EXCEPT !.messages = IF PlaceOf(v) = 0 THEN @ ELSE [@ EXCEPT ![PlaceOf(v)] = m],
            !.activity = @ \cup {m.n}, !.at = 0]

\* The end of a user message: nothing, or the end of waiting of a steered one.
Heard(v, m) ==
  [v EXCEPT !.messages = Append(@, m), !.at = 0,
            !.steering = IF m.kind = "steer" /\ Contains(@, m.n)
                         THEN RemoveAt(@, FirstOf(@, m.n)) ELSE @]

Ends(v, messages) ==
  [v EXCEPT !.messages = SubSeq(@, 1, IF v.base < Len(@) THEN v.base ELSE Len(@)) \o messages,
            !.streaming = v.queue # <<>>, !.at = 0]

Apply(v, e) ==
  CASE e.type = "start"   -> Heard(Begins(v), e.messages[1])
    [] e.type = "user"    -> Heard(v, e.messages[1])
    [] e.type = "partial" -> Shows(v, e.messages[1])
    [] e.type = "reply"   -> Replaces(v, e.messages[1])
    [] e.type = "end"     -> Ends(v, e.messages)

(***************************************************************************)
(* The session file, its entries in the order they were written.           *)
(***************************************************************************)
IsMessage(e) == e.kind \in {"user", "reply", "error"}
Loaded(file) == Kept(file, {e \in ToSet(file) : IsMessage(e)})

Since(file, kind) == SubSeq(file, LastOf(file, kind) + 1, Len(file))

\* Faulty variant: what the last prompt changed, not the interaction.
ChangesOfTurn(file) == {e.n : e \in {x \in ToSet(Since(file, "user")) : x.kind = "reply"}}

Changes(file) == {e.n : e \in {x \in ToSet(Since(file, "started")) : x.kind = "reply"}}

\* The latest summary, unless an interaction has started since.
LastSummary(file) ==
  LET last == LastOf(file, "summary") IN
  IF last = 0 \/ last < LastOf(file, "started") THEN {}
  ELSE {file[last].changes}
=============================================================================
