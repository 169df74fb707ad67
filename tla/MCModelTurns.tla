----------------------------- MODULE MCModelTurns -----------------------------
(***************************************************************************)
(* Each provider; a prompt of text and one of two images, to a model that  *)
(* reads none.                                                             *)
(***************************************************************************)
EXTENDS ModelTurns

Sent(kind) == [kind |-> kind, name |-> 0, body |-> <<1>>, closed |-> TRUE]
MCPrompts == <<<<Sent("text")>>, <<Sent("image"), Sent("image")>>>>
=============================================================================
