----------------------------- MODULE Permissions -----------------------------
(***************************************************************************)
(* What the permission controller says of one tool call: the hardcoded     *)
(* block, the reads that are safe by themselves, and the deny, ask and     *)
(* allow rules, which a user's trust extends.                              *)
(*                                                                         *)
(* A shell command is the sequence of the words of its first effective     *)
(* line, separators included; "plain" says that the command is that one    *)
(* line and has none of the characters the read-only classifier refuses,   *)
(* and "nested" holds what stands in $(...) and backticks.  A file is its  *)
(* directory, a path from the workspace root (".." leads out of it), its   *)
(* name and its extension.                                                 *)
(***************************************************************************)
EXTENDS Integers, FiniteSets, Sequences, SequencesExt

CONSTANTS
  Outside,    \* words of a command that are paths outside the workspace
  Options,    \* words that begin with a dash
  Secrets     \* words that expand a sensitive environment variable

Separators == {"|", "||", "&&", ";"}
Leakers == {"echo", "printf", "curl", "wget", "cat", "tee"}
ReadOnly == {"cat", "head", "tail", "grep", "sort", "ls", "diff"}

IsBash(q) == q.tool = "Bash"
HasPath(q) == "path" \in DOMAIN q

(***************************************************************************)
(* Commands and their segments.  Only the last segment is dropped when it  *)
(* is empty.                                                               *)
(***************************************************************************)
SegmentBounds(text) ==
  LET n == Len(text)
      Cut(i) == i \in {0, n + 1} \/ text[i] \in Separators
  IN  {b \in (0..n - 1) \X (1..n + 1) :
         b[1] < b[2] /\ Cut(b[1]) /\ Cut(b[2]) /\ \A i \in (b[1] + 1)..(b[2] - 1) : ~Cut(i)}

SplitShellSegments(text) == {SubSeq(text, b[1] + 1, b[2] - 1) : b \in SegmentBounds(text)}
Segments(q) == SplitShellSegments(q.text)

\* What a session's trust is compared with: an empty command is one segment.
TrustTargets(q) == IF Cardinality(SegmentBounds(q.text)) > 1
                   THEN Segments(q) ELSE {q.text}

Has(words, w) == \E i \in DOMAIN words : words[i] = w
HasInOrder(words, first, rest) ==
  \E i, j \in DOMAIN words : i < j /\ words[i] = first /\ words[j] \in rest

(***************************************************************************)
(* The hardcoded block list, on the whole command, on each of its          *)
(* segments and on the commands nested in it.                              *)
(***************************************************************************)
Blacklisted(words) ==
  \/ HasInOrder(words, "rm", {"*", "."})
  \/ /\ HasInOrder(words, "rm", {"-rf"})
     /\ HasInOrder(words, "-rf", {"/", "~", ".", "*"})
  \/ words # <<>> /\ Head(words) = "sudo"
  \/ \E i \in 1..(Len(words) - 2) :
       SubSeq(words, i, i + 2) \in {<<"git", "reset", "--hard">>, <<"git", "clean", "-fd">>}
  \/ \E i \in 1..(Len(words) - 1) :
       /\ SubSeq(words, i, i + 1) = <<"git", "push">>
       /\ \E j \in (i + 2)..Len(words) : words[j] \in {"--force", "-f"}
  \/ Has(words, "dd") \/ Has(words, "mkfs")
  \/ \E i \in 1..(Len(words) - 1) : SubSeq(words, i, i + 1) = <<"diskutil", "erase">>

LeaksSecret(q) ==
  /\ \E i \in DOMAIN q.text : q.text[i] \in Secrets
  /\ \E i \in DOMAIN q.text : q.text[i] \in Leakers

BlockedByList(q) ==
  /\ IsBash(q)
  /\ \/ Blacklisted(q.text)
     \/ \E s \in Segments(q) : Blacklisted(s)
     \/ \E s \in q.nested : Blacklisted(s)
     \/ LeaksSecret(q)

(***************************************************************************)
(* Commands that only read, and only in the workspace.  Of the words after *)
(* the program, one is an option, the value of the one before it, the end  *)
(* of the options, or an argument.                                         *)
(***************************************************************************)
PathWithin(w) == w = "-" \/ w \notin Outside
WriteOptions(exe) == IF exe = "sort" THEN {"-o", "--output", "-T"} ELSE {}

Roles(words) ==
  LET role[i \in DOMAIN words] ==
        IF i = 1 THEN "program"
        ELSE IF role[i - 1] = "takes value" THEN "value"
        ELSE IF \E j \in 1..(i - 1) : role[j] = "end" THEN "argument"
        ELSE IF words[i] = "--" THEN "end"
        ELSE IF words[i] \notin Options THEN "argument"
        ELSE IF words[1] = "grep" /\ words[i] \in {"-f", "--file"} THEN "takes value"
        ELSE "option"
  IN  role

SafeReadonlySegment(words) ==
  /\ words # <<>> /\ Head(words) \in ReadOnly
  /\ LET role == Roles(words)
         arguments == {i \in DOMAIN words : role[i] = "argument"}
         pattern == {i \in arguments : words[1] = "grep" /\ \A j \in arguments : i <= j}
     IN  /\ \A i \in 2..Len(words) :
              /\ words[i] \notin WriteOptions(words[1])
              /\ words[1] = "tail" => words[i] \notin {"-f", "-F", "--follow"}
              /\ role[i] = "value" \/ i \in arguments \ pattern => PathWithin(words[i])
         /\ role[Len(words)] # "takes value"

\* The classifier splits at every "|": "a || b" has an empty part and is refused.
SafeReadonlyBash(q) ==
  /\ IsBash(q) /\ q.plain /\ q.text # <<>>
  /\ \A i \in DOMAIN q.text : q.text[i] \notin {"||", "&&", ";"}
  /\ Last(q.text) # "|"
  /\ \A s \in Segments(q) : SafeReadonlySegment(s)

InWorkspace(path) == path.dir = <<>> \/ Head(path.dir) # ".."
WorkspaceRead(q) == q.tool = "Read" /\ InWorkspace(q.path)

(***************************************************************************)
(* Rules.  A shell pattern is the words before its wildcard: "glued" is    *)
(* the wildcard right after the last word, as in the default rules,        *)
(* "spaced" the wildcard after a space.  A file pattern's wildcard does    *)
(* not cross a directory.                                                  *)
(***************************************************************************)
ShellRule(words, tail) == [tool |-> "Bash", words |-> words, tail |-> tail]
FileRule(tool, dir, name, ext) == [tool |-> tool, dir |-> dir, name |-> name, ext |-> ext]
DefaultRules == {ShellRule(<<exe>>, "glued") : exe \in ReadOnly}

MatchesShell(rule, words) ==
  /\ IsPrefix(rule.words, words)
  /\ rule.tail = "exact" => Len(words) = Len(rule.words)
  /\ rule.tail = "spaced" => Len(words) > Len(rule.words)

MatchesFile(rule, path) ==
  /\ rule.dir = path.dir
  /\ rule.name \in {"*", path.name}
  /\ rule.ext \in {"*", path.ext}

\* Rules for every tool at once are left out.
RuleMatches(rule, tool, target) ==
  /\ rule.tool = tool
  /\ \/ "all" \in DOMAIN rule
     \/ "words" \in DOMAIN rule /\ MatchesShell(rule, target)
     \/ "dir" \in DOMAIN rule /\ MatchesFile(rule, target)

RequestTargets(q) ==
  IF IsBash(q) THEN Segments(q) ELSE IF HasPath(q) THEN {q.path} ELSE {}

\* A request without a target (an empty command) is matched as the empty one.
MatchedTargets(q) == IF RequestTargets(q) = {} THEN {<<>>} ELSE RequestTargets(q)

RulesMatchAny(rules, q) ==
  \E t \in MatchedTargets(q), r \in rules : RuleMatches(r, q.tool, t)

\* A default rule covers only what the classifier accepts.
Applies(rule, q) == rule \in DefaultRules => SafeReadonlyBash(q)

\* Faulty variant: one part that is covered is enough.
RulesCoverSome(rules, q) ==
  \E t \in MatchedTargets(q) : \E r \in rules : RuleMatches(r, q.tool, t) /\ Applies(r, q)

RulesCover(rules, q) ==
  \A t \in MatchedTargets(q) : \E r \in rules :
    RuleMatches(r, q.tool, t) /\ Applies(r, q)

(***************************************************************************)
(* Trust.  A key is a tool and a target; keys the user may choose are      *)
(* offered per segment, from the command itself to its first word, or per  *)
(* file, from the file to the files of the workspace's root.               *)
(***************************************************************************)
CommandLevels(words) ==
  {[tool |-> "Bash", words |-> SubSeq(words, 1, n)] : n \in 1..Len(words)}

FileLevels(tool, path) ==
  LET Level(dir, name, ext) == FileRule(tool, dir, name, ext)
  IN  {Level(path.dir, path.name, path.ext)} \cup
      {l \in {Level(path.dir, "*", path.ext), Level(path.dir, "*", "*"),
              Level(<<>>, "*", "*")} : InWorkspace(path)}

ExactKey(q) == FileRule(q.tool, q.path.dir, q.path.name, q.path.ext)

\* A shell key becomes the rule "key *": more words must follow.
RuleOfKey(key) ==
  IF "words" \in DOMAIN key THEN ShellRule(key.words, "spaced") ELSE key

\* Session trust accepts the key itself and what follows it.
TrustedBySession(keys, words) ==
  \E k \in keys : "words" \in DOMAIN k /\ IsPrefix(k.words, words)

\* Of a file, the very file or a directory above it.
MatchesSession(keys, q) ==
  IF IsBash(q) THEN \A s \in TrustTargets(q) : TrustedBySession(keys, s)
  ELSE HasPath(q) /\ \E k \in keys :
         /\ k.tool = q.tool
         /\ \/ "under" \in DOMAIN k /\ IsPrefix(k.under, q.path.dir)
            \/ "dir" \in DOMAIN k /\ k = ExactKey(q)

(***************************************************************************)
(* One target per part of the request that is not trusted yet, with the    *)
(* keys that may be chosen for it.                                         *)
(***************************************************************************)
TrustGroups(settings, keys, q) ==
  IF ~IsBash(q) THEN {FileLevels(p.tool, p.path) : p \in {r \in {q} : HasPath(r)}}
  ELSE {CommandLevels(s) : s \in {t \in Segments(q) :
          /\ ~TrustedBySession(keys, t)
          /\ \A r \in settings.allow : ~(RuleMatches(r, "Bash", t) /\ Applies(r, q))}}

(***************************************************************************)
(* The verdict of PermissionPolicy, and of the controller around it.       *)
(***************************************************************************)
PolicyAllows(mode, q) == mode = "yolo" \/ WorkspaceRead(q) \/ SafeReadonlyBash(q)

\* A safe read whose rule was removed from the settings is asked about.
IntrinsicAllow(settings, q) ==
  /\ PolicyAllows(settings.mode, q)
  /\ settings.mode # "yolo" /\ SafeReadonlyBash(q) => RulesCover(settings.allow, q)

Evaluate(settings, keys, q) ==
  IF BlockedByList(q) \/ RulesMatchAny(settings.deny, q) THEN "block"
  ELSE IF MatchesSession(keys, q) THEN "allow"
  ELSE IF RulesMatchAny(settings.ask, q) THEN "ask"
  ELSE IF RulesCover(settings.allow, q) \/ IntrinsicAllow(settings, q) THEN "allow"
  ELSE "ask"

RecordProjectApproval(settings, key) ==
  [settings EXCEPT !.allow = @ \cup {RuleOfKey(key)}]
=============================================================================
