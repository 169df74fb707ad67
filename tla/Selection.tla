------------------------------- MODULE Selection -------------------------------
(***************************************************************************)
(* The filter of Rust's iterators over a sequence, with the set of what    *)
(* passes for the closure: SelectSeq, written as a recursive function that *)
(* the provers can expand.                                                 *)
(***************************************************************************)
EXTENDS Integers, Sequences

\* The elements of s that are in S, in their order.
Kept(s, S) ==
  LET upTo[n \in 0..Len(s)] ==
        IF n = 0 THEN <<>>
        ELSE IF s[n] \in S THEN Append(upTo[n - 1], s[n]) ELSE upTo[n - 1]
  IN upTo[Len(s)]
=============================================================================
