------------------------------ MODULE MCFiles -------------------------------
(***************************************************************************)
(* Files that are written a step at a time: the file of a session and its  *)
(* two managers, by itself the branch that compaction shortens, and the    *)
(* working files that the tools write.  They share no state here: one      *)
(* moves, the others stay at their start.                                  *)
(***************************************************************************)
EXTENDS SessionLog, CompactionHistory, FileTools, TLC
CONSTANTS w1, w2, w3

VARIABLE part \* the one that moves

MCWeight(e) == e.weight

\* a.rs has two spellings, and the temporary file of a.md as well, which is a file of its own.
MCFileCalls == {w1, w2, w3}
MCSymmetry == Permutations(MCFileCalls)
MCFileAt == [p \in {"a.rs", "./a.rs", "a.md", "a.tmp", "b.rs"} |-> IF p = "./a.rs" THEN "a.rs" ELSE p]
MCTemporary == [p \in DOMAIN MCFileAt |-> IF p = "b.rs" THEN "b.tmp" ELSE "a.tmp"]
MCFirst ==
  [c \in MCFileCalls |->
    [tool |-> "write", path |-> "a.rs", at |-> "asked", aborted |-> FALSE, read |-> {}, file |-> None]]

MCInit ==
  /\ part \in {"log", "branch", "files"}
  /\ LogInit /\ Init /\ FilesInit
  /\ part # "log" => agent = Lazy("c1")
  /\ part = "files" => Held("a.md") = None /\ Held("a.tmp") = None
  /\ part # "files" => call = MCFirst /\ \A p \in Places : disk[p] = None
MCNext ==
  \/ part = "log" /\ LogNext /\ UNCHANGED <<vars, fileVars, part>>
  \/ part = "branch" /\ Next /\ UNCHANGED <<logVars, fileVars, part>>
  \/ part = "files" /\ FilesNext /\ UNCHANGED <<logVars, vars, part>>
MCSpec == MCInit /\ [][MCNext]_<<logVars, vars, fileVars, part>>
=============================================================================
