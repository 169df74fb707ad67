----------------------------- MODULE MCApprovals -----------------------------
(* Two sessions; the calls of the one are its own loop's, those of the     *)
(* other its subagent's.  A command, one that a rule denies, a question,   *)
(* and a compound command that shares a part with the first.               *)
EXTENDS Approvals

Bash(text) == [tool |-> "Bash", text |-> text, plain |-> TRUE, nested |-> {}]
File(dir, name) == [dir |-> dir, name |-> name, ext |-> "rs"]

MCSessions == {"s1", "s2"}
MCAgents == {"main1", "sub1", "sub2"}
MCSessionOf == [a \in MCAgents |-> IF a = "sub2" THEN "s2" ELSE "s1"]
MCMains == {"main1"}
MCMaxPrompts == [s \in MCSessions |-> IF s = "s1" THEN 1 ELSE 0]
MCMaxCalls == [a \in MCAgents |-> 1]
MCSlots == {"k1", "k2"}
Test == Bash(<<"cargo", "test">>)
Pipe == Bash(<<"cargo", "test", "|", "head", "a">>)
Push == Bash(<<"git", "push">>)
Question == [tool |-> "askUserQuestion"]
MCRequestsOf == [a \in MCAgents |->
  CASE a = "main1" -> {Test, Question} [] a = "sub1" -> {Pipe} [] OTHER -> {Test}]
MCSamples == {Push, Bash(<<"cargo", "publish">>),
  Bash(<<"cargo", "test", "&&", "git", "push">>),
  Bash(<<"cargo", "test", "&&", "sudo", "ls">>),
  Bash(<<"cargo", "test", "&&", "make">>),
  [tool |-> "Edit", path |-> File(<<"src">>, "a")]}
MCTrustable == {[tool |-> "Bash", words |-> <<w>>] : w \in {"cargo"}}
MCOptions == {"-f"}
MCConfig == [mode |-> "approve", deny |-> {ShellRule(<<"git", "push">>, "glued"),
                                           ShellRule(<<"cargo", "publish">>, "glued")},
             ask |-> {}, allow |-> DefaultRules]
=============================================================================
