--------------------------- MODULE AssistantStream ---------------------------
(***************************************************************************)
(* What an agent loop may rely on, whichever provider answers: the stream  *)
(* begins once; a block of content is opened at the next free position,    *)
(* is closed at most once, and only when it was opened; and what ends the  *)
(* stream is the last the loop hears of it.                                *)
(***************************************************************************)
EXTENDS Naturals, Sequences

VARIABLES
  phase,
  opened,   \* how many blocks were opened
  closed    \* the positions closed, in order

streamVars == <<phase, opened, closed>>

Init == phase = "silent" /\ opened = 0 /\ closed = <<>>

Begin == phase = "silent" /\ phase' = "speaking" /\ UNCHANGED <<opened, closed>>

Open == phase = "speaking" /\ opened' = opened + 1 /\ UNCHANGED <<phase, closed>>

\* A block that grows changes nothing here: that is a stuttering step.
Close ==
  /\ phase = "speaking"
  /\ \E i \in 1..opened : (\A n \in DOMAIN closed : closed[n] # i) /\ closed' = Append(closed, i)
  /\ UNCHANGED <<phase, opened>>

\* Done, an error, or a stream that is dropped without a word.
End ==
  /\ phase \in {"silent", "speaking"}
  /\ phase' \in {"done", "error", "gone"}
  /\ UNCHANGED <<opened, closed>>

\* The next stream.
Again ==
  /\ phase \notin {"silent", "speaking"}
  /\ phase' = "silent" /\ opened' = 0 /\ closed' = <<>>

Next == Begin \/ Open \/ Close \/ End \/ Again
Spec == Init /\ [][Next]_streamVars
=============================================================================
