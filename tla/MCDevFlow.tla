----------------------------- MODULE MCDevFlow -----------------------------
(***************************************************************************)
(* Two sessions over a repository with two branches, of which one has a    *)
(* status file, and a directory outside git; room for one dashboard.  The  *)
(* registry and the feed of one snapshot share no state: one of them moves *)
(* and the other stays as it was at the start.                             *)
(***************************************************************************)
EXTENDS DevFlowRegistry, DashboardFeed, TLC
CONSTANTS s1, s2, j1, j2

MCSessions == {s1, s2}
MCCallers == {j1, j2}
MCSymmetry == Permutations(MCCallers)
Branch(name) ==
  [root |-> "repo", git |-> "yes", branch |-> name, names |-> {"main", "dev"}, commit |-> "oid",
   files |-> [x \in {"main"} |-> "readable"], status |-> "object"]
Folder ==
  [root |-> "folder", git |-> "no", branch |-> None, names |-> {}, commit |-> None,
   files |-> [x \in {"one"} |-> "readable"], status |-> "object"]
MCFound == [c \in {"c1", "c2"} |-> IF c = "c1" THEN Branch("main") ELSE Folder]
MCDirectories ==
  [c \in {"c1", "c2"} |-> IF c = "c1" THEN {Branch("main"), Branch("dev")} ELSE {Folder}]
MCHomes == [s \in MCSessions |-> IF s = s1 THEN {"c1"} ELSE {"c1", "c2"}]
MCMachine ==
  [works |-> {"brewed"}, links |-> [path \in {"old"} |-> "broken"],
   sources |-> <<[name |-> "path", places |-> <<"broken">>],
                 [name |-> "homebrew", places |-> <<"broken", "brewed">>]>>]
MCPaths == {None, "old"}

MCInit == Init /\ FeedInit
MCNext == (FeedInit /\ Next /\ UNCHANGED feedVars) \/ (Init /\ FeedNext /\ UNCHANGED registryVars)
MCSpec == MCInit /\ [][MCNext]_<<registryVars, feedVars>>
=============================================================================
