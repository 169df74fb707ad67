--------------------------- MODULE ApprovalsProofs ---------------------------
(***************************************************************************)
(* What the approvals promise, for every number of sessions, agents, calls *)
(* and commands at work, and for all rules, requests and keys of trust: a  *)
(* call that waits can be answered, is answered once and by what concerns  *)
(* its session, and runs with permission only; and trust is narrow.        *)
(***************************************************************************)
EXTENDS Approvals, FunctionTheorems, SequenceTheorems, FiniteSetTheorems, TLAPS

(***************************************************************************)
(* The inductive invariant.  Types first: what a command at work is about, *)
(* and that the rules in memory are those of the start and the keys that   *)
(* the user may trust.                                                     *)
(***************************************************************************)
Outcomes == {"none", "waiting", "ruled in", "blocked", "allowed", "denied", "dropped"}
Answers == {"allow", "deny"}
Sweeps == {<<>>, <<"question">>, DeniedKinds}

Responding == [op : {"respond"}, call : Calls, reply : Answers, keys : SUBSET Trustable]
Preparing == [op : {"prepare"}, call : Calls, reply : Answers]
Denying == [op : {"deny"}, session : Sessions, fires : BOOLEAN, todo : Sweeps]

RunTypes ==
  /\ running \subseteq Sessions
  /\ prompts \in [Sessions -> Nat] /\ \A s \in Sessions : prompts[s] <= MaxPrompts[s]
  /\ cancelled \in [Sessions -> BOOLEAN]

CallTypes ==
  /\ made \in [Agents -> Nat] /\ \A a \in Agents : made[a] <= MaxCalls[a]
  /\ request \in [Calls -> Requests \cup {NoRequest}]
  /\ outcome \in [Calls -> Outcomes]
  /\ reply \in [Calls -> Answers \cup {"none"}]

AskTypes ==
  /\ pending \subseteq Calls /\ contexts \subseteq Calls /\ approved \subseteq Calls
  /\ channel \in [Kinds -> Seq(Calls)]
  /\ offered \in [Calls -> SUBSET Trustable]

UserTypes ==
  /\ config \in Configs
  /\ command \in [Workers -> {NoCommand} \cup Responding \cup Preparing \cup Denying]
  /\ commands \in 0..MaxCommands

Types == RunTypes /\ CallTypes /\ AskTypes /\ UserTypes

(***************************************************************************)
(* Only a call that was made is known to anybody.                          *)
(***************************************************************************)
Known == {c \in Calls : c[2] <= made[c[1]]}
Answering(w) == command[w].op \in {"respond", "prepare"}

OnlyMadeAreKnown ==
  /\ pending \cup contexts \cup approved \subseteq Known
  /\ \A kind \in Kinds : ToSet(channel[kind]) \subseteq Known
  /\ \A w \in Workers : Answering(w) => command[w].call \in Known
  /\ \A c \in Calls \ Known : outcome[c] = "none" /\ reply[c] = "none"

(***************************************************************************)
(* A call that waits without an answer can be answered, whether or not its *)
(* token is cancelled; a question is on its way once, and then not to be   *)
(* found yet; and who can be found and waits has no answer.                *)
(***************************************************************************)
Unanswered(c) == outcome[c] = "waiting" /\ reply[c] = "none"
Questions == ToSet(channel.question)
Asked == pending \cup Questions

WaitingAreAsked ==
  \A c \in Calls : Unanswered(c) =>
    \/ IsQuestion(c) /\ c \in Asked
    \/ ~IsQuestion(c) /\ c \in pending /\ c \in ToSet(channel.permission) \cup contexts

AskedAreUnanswered ==
  /\ \A c \in Asked : outcome[c] = "waiting" => reply[c] = "none"
  /\ pending \cap Questions = {}
  /\ \A i, j \in DOMAIN channel.question : channel.question[i] = channel.question[j] => i = j

(***************************************************************************)
(* What lets a call run, is on its way to it, or is about to be sent.      *)
(***************************************************************************)
Permitted(c) == c \in approved \/ Says(config, request[c], "allow")

YesIsPermission ==
  /\ \A c \in Calls : outcome[c] \in {"ruled in", "allowed"} \/ reply[c] = "allow" => Permitted(c)
  /\ \A w \in Workers : Answering(w) /\ command[w].reply = "allow" => Permitted(command[w].call)

ApprovalIInv ==
  Types /\ OnlyMadeAreKnown /\ WaitingAreAsked /\ AskedAreUnanswered /\ YesIsPermission

-----------------------------------------------------------------------------
(***************************************************************************)
(* Rules.  Those in memory are a record that differs from those of the     *)
(* start in what it allows; a key the user trusts adds to that.            *)
(***************************************************************************)
Widens(old, new) ==
  /\ new.mode = old.mode /\ new.deny = old.deny /\ new.ask = old.ask
  /\ old.allow \subseteq new.allow

LEMMA ConfigsAreRules ==
  ASSUME NEW rules \in Configs
  PROVE  /\ rules = [mode |-> rules.mode, deny |-> rules.deny,
                     ask |-> rules.ask, allow |-> rules.allow]
         /\ \E keys \in SUBSET Trustable :
              /\ rules = [FirstConfig EXCEPT !.allow = @ \cup {RuleOfKey(k) : k \in keys}]
              /\ rules.allow = FirstConfig.allow \cup {RuleOfKey(k) : k \in keys}
         /\ rules.mode = FirstConfig.mode /\ rules.deny = FirstConfig.deny
         /\ rules.ask = FirstConfig.ask
<1>1. PICK keys \in SUBSET Trustable :
        rules = [FirstConfig EXCEPT !.allow = @ \cup {RuleOfKey(k) : k \in keys}]
  BY DEF Configs
<1> DEFINE first == [mode |-> FirstConfig.mode, deny |-> FirstConfig.deny,
                     ask |-> FirstConfig.ask, allow |-> FirstConfig.allow]
<1>2. FirstConfig = first
  BY ApprovalAssumption
<1>3. rules = [first EXCEPT !.allow = first.allow \cup {RuleOfKey(k) : k \in keys}]
  BY <1>1, <1>2
<1>4. /\ rules = [mode |-> rules.mode, deny |-> rules.deny,
                  ask |-> rules.ask, allow |-> rules.allow]
      /\ rules.allow = FirstConfig.allow \cup {RuleOfKey(k) : k \in keys}
      /\ rules.mode = FirstConfig.mode /\ rules.deny = FirstConfig.deny
      /\ rules.ask = FirstConfig.ask
  BY <1>3
<1> QED
  BY <1>1, <1>4

LEMMA TrustWidens ==
  ASSUME NEW rules \in Configs, NEW key \in Trustable
  PROVE  /\ RecordProjectApproval(rules, key) \in Configs
         /\ Widens(rules, RecordProjectApproval(rules, key))
<1> DEFINE old == [mode |-> rules.mode, deny |-> rules.deny,
                   ask |-> rules.ask, allow |-> rules.allow]
           new == RecordProjectApproval(rules, key)
<1>1. rules = old
  BY ConfigsAreRules
<1>2. new = [old EXCEPT !.allow = old.allow \cup {RuleOfKey(key)}]
  BY <1>1 DEF RecordProjectApproval
<1>3. /\ new = [mode |-> rules.mode, deny |-> rules.deny, ask |-> rules.ask,
                allow |-> rules.allow \cup {RuleOfKey(key)}]
      /\ Widens(rules, new)
  BY <1>2 DEF Widens
<1>4. PICK keys \in SUBSET Trustable :
        rules.allow = FirstConfig.allow \cup {RuleOfKey(k) : k \in keys}
  BY ConfigsAreRules
<1> DEFINE more == keys \cup {key}
           first == [mode |-> FirstConfig.mode, deny |-> FirstConfig.deny,
                     ask |-> FirstConfig.ask, allow |-> FirstConfig.allow]
<1>5. more \in SUBSET Trustable
  OBVIOUS
<1>6. rules.allow \cup {RuleOfKey(key)} = FirstConfig.allow \cup {RuleOfKey(k) : k \in more}
  BY <1>4
<1>7. FirstConfig = first
  BY ApprovalAssumption
<1>8. rules.mode = FirstConfig.mode /\ rules.deny = FirstConfig.deny
      /\ rules.ask = FirstConfig.ask
  BY ConfigsAreRules
<1>9. [first EXCEPT !.allow = first.allow \cup {RuleOfKey(k) : k \in more}]
        = [mode |-> FirstConfig.mode, deny |-> FirstConfig.deny, ask |-> FirstConfig.ask,
           allow |-> FirstConfig.allow \cup {RuleOfKey(k) : k \in more}]
  OBVIOUS
<1>10. new = [FirstConfig EXCEPT !.allow = @ \cup {RuleOfKey(k) : k \in more}]
  <2> HIDE DEF more, new
  <2> QED
    BY <1>3, <1>6, <1>7, <1>8, <1>9, Zenon
<1>11. new \in Configs
  <2> HIDE DEF more, new
  <2> QED
    BY <1>5, <1>10, Zenon DEF Configs
<1> QED
  BY <1>3, <1>11

(***************************************************************************)
(* More allow rules cover more, and change a verdict only from asking to   *)
(* allowing, by a rule that was added.                                     *)
(***************************************************************************)
LEMMA CoverWidens ==
  ASSUME NEW old, NEW new, NEW q, old \subseteq new
  PROVE  /\ RulesCover(old, q) => RulesCover(new, q)
         /\ RulesCover(new, q) /\ ~RulesCover(old, q) => RulesMatchAny(new \ old, q)
<1>1. RulesCover(old, q) => RulesCover(new, q)
  BY Zenon DEF RulesCover
<1>2. ASSUME RulesCover(new, q), ~RulesCover(old, q) PROVE RulesMatchAny(new \ old, q)
  <2>1. PICK t \in MatchedTargets(q) : \A r \in old : ~(RuleMatches(r, q.tool, t) /\ Applies(r, q))
    BY <1>2, Zenon DEF RulesCover
  <2>2. PICK r \in new : RuleMatches(r, q.tool, t) /\ Applies(r, q)
    BY <1>2, Zenon DEF RulesCover
  <2>3. r \in new \ old
    BY <2>1, <2>2, Zenon
  <2> QED
    BY <2>1, <2>2, <2>3, Zenon DEF RulesMatchAny
<1> QED
  BY <1>1, <1>2

LEMMA VerdictsWiden ==
  ASSUME NEW old, NEW new, NEW q, Widens(old, new)
  PROVE  /\ Evaluate(old, {}, q) \in {"allow", "ask", "block"}
         /\ Evaluate(old, {}, q) = "allow" => Evaluate(new, {}, q) = "allow"
         /\ \/ Evaluate(new, {}, q) = Evaluate(old, {}, q)
            \/ /\ Evaluate(old, {}, q) = "ask" /\ Evaluate(new, {}, q) = "allow"
               /\ RulesMatchAny(new.allow \ old.allow, q)
<1>1. /\ RulesCover(old.allow, q) => RulesCover(new.allow, q)
      /\ RulesCover(new.allow, q) /\ ~RulesCover(old.allow, q)
           => RulesMatchAny(new.allow \ old.allow, q)
  BY CoverWidens DEF Widens
<1>2. new.mode = old.mode /\ new.deny = old.deny /\ new.ask = old.ask
  BY DEF Widens
<1>3. /\ IntrinsicAllow(old, q) => IntrinsicAllow(new, q)
      /\ IntrinsicAllow(new, q) /\ ~IntrinsicAllow(old, q)
           => RulesCover(new.allow, q) /\ ~RulesCover(old.allow, q)
  BY <1>1, <1>2, Zenon DEF IntrinsicAllow
<1> QED
  BY <1>1, <1>2, <1>3 DEF Evaluate

-----------------------------------------------------------------------------
(***************************************************************************)
(* The parts of a command.  A part holds no separator, so it is its own    *)
(* only part, or it is empty and has none.                                 *)
(***************************************************************************)
LEMMA PartsOfText ==
  ASSUME NEW W, NEW text \in Seq(W), NEW part \in SplitShellSegments(text)
  PROVE  /\ part \in Seq(W)
         /\ \A i \in DOMAIN part : part[i] \notin Separators /\ \E j \in DOMAIN text : text[j] = part[i]
<1> DEFINE n == Len(text)
           Cut(i) == i \in {0, n + 1} \/ text[i] \in Separators
<1>1. PICK b \in (0..n - 1) \X (1..n + 1) :
        /\ b[1] < b[2] /\ \A i \in (b[1] + 1)..(b[2] - 1) : ~Cut(i)
        /\ part = SubSeq(text, b[1] + 1, b[2] - 1)
  BY DEF SplitShellSegments, SegmentBounds
<1> DEFINE first == b[1] + 1
           final == b[2] - 1
<1>2. n \in Nat /\ first \in 1..n /\ final \in 0..n
  BY <1>1
<1>3. part = SubSeq(text, first, final) /\ \A i \in first..final : text[i] \notin Separators
  BY <1>1
<1> HIDE DEF first, final
<1>4. /\ part \in Seq(W) /\ DOMAIN part = 1..Len(part)
      /\ Len(part) = IF first <= final THEN final - first + 1 ELSE 0
      /\ \A i \in 1..Len(part) : part[i] = text[first + i - 1]
  <2>1. first \in 1..(n + 1) /\ n = Len(text)
    BY <1>2
  <2> QED
    BY <1>2, <1>3, <2>1, SubSeqProperties
<1>5. ASSUME NEW i \in DOMAIN part
      PROVE  part[i] \notin Separators /\ \E j \in DOMAIN text : text[j] = part[i]
  <2>1. i \in 1..Len(part) /\ first <= final /\ Len(part) = final - first + 1
    BY <1>2, <1>4
  <2>2. first + i - 1 \in first..final /\ first + i - 1 \in 1..n
    BY <1>2, <2>1, SMTT(30)
  <2>3. text[first + i - 1] \notin Separators
    BY <1>3, <2>2
  <2>4. part[i] = text[first + i - 1]
    BY <1>4, <2>1
  <2> QED
    BY <2>2, <2>3, <2>4
<1> QED
  BY <1>4, <1>5

LEMMA PartsAreWhole ==
  ASSUME NEW W, NEW part \in Seq(W), \A i \in DOMAIN part : part[i] \notin Separators
  PROVE  /\ part = <<>> => SplitShellSegments(part) = {}
         /\ part # <<>> => SplitShellSegments(part) = {part}
<1> DEFINE n == Len(part)
           Cut(i) == i \in {0, n + 1} \/ part[i] \in Separators
           Bound(b) == /\ b[1] < b[2] /\ Cut(b[1]) /\ Cut(b[2])
                       /\ \A i \in (b[1] + 1)..(b[2] - 1) : ~Cut(i)
<1>1. n \in Nat /\ DOMAIN part = 1..n
  OBVIOUS
<1>2. SegmentBounds(part) = {b \in (0..n - 1) \X (1..n + 1) : Bound(b)}
  BY DEF SegmentBounds
<1>3. ASSUME part = <<>> PROVE SplitShellSegments(part) = {}
  <2>1. 0..n - 1 = {}
    BY <1>3
  <2> QED
    BY <1>2, <2>1 DEF SplitShellSegments
<1>4. ASSUME part # <<>> PROVE SplitShellSegments(part) = {part}
  <2>1. n > 0
    BY <1>4
  <2>2. \A i \in 1..n : ~Cut(i)
    BY <1>1
  <2>3. \A b \in (0..n - 1) \X (1..n + 1) : Bound(b) <=> b = <<0, n + 1>>
    <3> TAKE b \in (0..n - 1) \X (1..n + 1)
    <3>1. b = <<b[1], b[2]>> /\ b[1] \in 0..n - 1 /\ b[2] \in 1..n + 1
      OBVIOUS
    <3>2. Bound(b) => b[1] \notin 1..n /\ b[2] \notin 1..n
      BY <2>2
    <3>3. Bound(b) => b[1] = 0 /\ b[2] = n + 1
      BY <1>1, <3>1, <3>2
    <3>4. b[1] = 0 /\ b[2] = n + 1 => Bound(b)
      BY <1>1, <2>1, <2>2
    <3> QED
      BY <3>1, <3>3, <3>4
  <2>4. <<0, n + 1>> \in (0..n - 1) \X (1..n + 1)
    BY <1>1, <2>1
  <2>5. SegmentBounds(part) = {<<0, n + 1>>}
    BY <1>2, <2>3, <2>4
  <2>6. SplitShellSegments(part) = {SubSeq(part, 0 + 1, (n + 1) - 1)}
    BY <2>5 DEF SplitShellSegments
  <2>7. SubSeq(part, 0 + 1, (n + 1) - 1) = part
    <3>1. 0 + 1 = 1 /\ (n + 1) - 1 = n
      BY <1>1
    <3>2. SubSeq(part, 1, n) = part
      OBVIOUS
    <3> QED
      BY <3>1, <3>2
  <2> QED
    BY <2>6, <2>7
<1> QED
  BY <1>3, <1>4

(***************************************************************************)
(* What allows a compound command allows each of its parts by itself.      *)
(***************************************************************************)
LEMMA NoSessionTrust == ASSUME NEW q, IsBash(q) PROVE ~MatchesSession({}, q)
<1>1. \A s : ~TrustedBySession({}, s)
  BY DEF TrustedBySession
<1>2. TrustTargets(q) # {}
  <2>1. CASE Cardinality(SegmentBounds(q.text)) > 1
    <3>1. SegmentBounds(q.text) # {}
      BY <2>1, FS_EmptySet
    <3>2. Segments(q) # {}
      BY <3>1 DEF Segments, SplitShellSegments
    <3> QED
      BY <2>1, <3>2 DEF TrustTargets
  <2>2. CASE ~(Cardinality(SegmentBounds(q.text)) > 1)
    BY <2>2 DEF TrustTargets
  <2> QED
    BY <2>1, <2>2
<1> QED
  BY <1>1, <1>2 DEF MatchesSession

LEMMA PartsFollow ==
  ASSUME NEW rules, NEW q, IsBash(q),
         q = [tool |-> q.tool, text |-> q.text, plain |-> q.plain, nested |-> q.nested],
         q.text \in Seq(ToSet(q.text)), NEW part \in Segments(q),
         Evaluate(rules, {}, q) = "allow"
  PROVE  Evaluate(rules, {}, [q EXCEPT !.text = part]) = "allow"
<1> DEFINE p == [q EXCEPT !.text = part]
<1>1. p.tool = q.tool /\ p.text = part /\ p.plain = q.plain /\ p.nested = q.nested
  OBVIOUS
<1>2. /\ part \in Seq(ToSet(q.text))
      /\ \A i \in DOMAIN part :
           part[i] \notin Separators /\ \E j \in DOMAIN q.text : q.text[j] = part[i]
  BY PartsOfText DEF Segments
<1>3. /\ part = <<>> => Segments(p) = {}
      /\ part # <<>> => Segments(p) = {part}
  BY <1>1, <1>2, PartsAreWhole DEF Segments
<1>4. IsBash(p)
  BY <1>1 DEF IsBash
<1> HIDE DEF p
<1>5. MatchedTargets(p) = {part} /\ MatchedTargets(q) = Segments(q)
  <2>1. RequestTargets(p) = Segments(p) /\ RequestTargets(q) = Segments(q)
    BY <1>4 DEF RequestTargets
  <2>2. Segments(q) # {}
    OBVIOUS
  <2> QED
    BY <1>3, <2>1, <2>2 DEF MatchedTargets
<1>6. \A set : RulesMatchAny(set, p) => RulesMatchAny(set, q)
  BY <1>1, <1>5 DEF RulesMatchAny
<1>7. SafeReadonlyBash(q) => SafeReadonlyBash(p)
  <2> SUFFICES ASSUME SafeReadonlyBash(q) PROVE SafeReadonlyBash(p)
    OBVIOUS
  <2>1. SafeReadonlySegment(part) /\ p.plain
    BY <1>1 DEF SafeReadonlyBash
  <2>2. part # <<>>
    BY <2>1 DEF SafeReadonlySegment
  <2>3. \A s \in Segments(p) : SafeReadonlySegment(s)
    BY <1>3, <2>1, <2>2
  <2>4. \A i \in DOMAIN p.text : p.text[i] \notin {"||", "&&", ";"}
    BY <1>1, <1>2 DEF Separators
  <2>5. Last(p.text) # "|"
    <3>1. Len(part) \in DOMAIN part
      BY <1>2, <2>2
    <3> QED
      BY <1>1, <1>2, <3>1 DEF Last, Separators
  <2> QED
    BY <1>1, <1>4, <2>1, <2>2, <2>3, <2>4, <2>5 DEF SafeReadonlyBash
<1>8. \A set : RulesCover(set, q) => RulesCover(set, p)
  <2> SUFFICES ASSUME NEW set, RulesCover(set, q) PROVE RulesCover(set, p)
    OBVIOUS
  <2>1. PICK r \in set : RuleMatches(r, q.tool, part) /\ Applies(r, q)
    BY <1>5 DEF RulesCover
  <2>2. Applies(r, p)
    BY <1>7, <2>1 DEF Applies
  <2> QED
    BY <1>1, <1>5, <2>1, <2>2 DEF RulesCover
<1>9. BlockedByList(p) => BlockedByList(q)
  <2>1. LeaksSecret(p) => LeaksSecret(q)
    BY <1>1, <1>2 DEF LeaksSecret
  <2>2. (\E s \in Segments(p) : Blacklisted(s)) => \E s \in Segments(q) : Blacklisted(s)
    BY <1>3
  <2>3. Blacklisted(p.text) => \E s \in Segments(q) : Blacklisted(s)
    BY <1>1
  <2> QED
    BY <1>1, <2>1, <2>2, <2>3 DEF BlockedByList
<1>10. /\ ~BlockedByList(q) /\ ~RulesMatchAny(rules.deny, q) /\ ~RulesMatchAny(rules.ask, q)
       /\ RulesCover(rules.allow, q) \/ IntrinsicAllow(rules, q)
  BY NoSessionTrust DEF Evaluate
<1>11. ~WorkspaceRead(q)
  BY DEF WorkspaceRead, IsBash
<1>12. IntrinsicAllow(rules, q) => IntrinsicAllow(rules, p)
  BY <1>7, <1>8, <1>11, Zenon DEF IntrinsicAllow, PolicyAllows
<1>13. ~MatchesSession({}, p)
  BY <1>4, NoSessionTrust
<1>14. Evaluate(rules, {}, p) = "allow"
  BY <1>6, <1>8, <1>9, <1>10, <1>12, <1>13 DEF Evaluate
<1> QED
  BY <1>14 DEF p

-----------------------------------------------------------------------------
(***************************************************************************)
(* Calls and verdicts.                                                     *)
(***************************************************************************)
LEMMA CallsAreNumbered ==
  /\ \A c \in Calls : /\ c = <<c[1], c[2]>> /\ c[1] \in Agents
                      /\ c[2] \in Nat /\ c[2] > 0 /\ c[2] <= MaxCalls[c[1]]
  /\ \A a \in Agents, n \in Nat : n > 0 /\ n <= MaxCalls[a] => <<a, n>> \in Calls
<1>1. MaxCalls \in [Agents -> Nat]
  BY ApprovalAssumption
<1>2. \A a \in Agents : MaxCalls[a] \in Nat
  BY <1>1
<1> QED
  BY <1>2 DEF Calls

LEMMA SaysIsTheVerdict ==
  ASSUME NEW rules \in Configs, NEW q \in Requests, NEW v
  PROVE  Says(rules, q, v) <=> Evaluate(rules, {}, q) = v
BY DEF Says, Verdicts

LEMMA SaidOfRequests ==
  ASSUME NEW rules, NEW q, NEW v, Says(rules, q, v)
  PROVE  rules \in Configs /\ q \in Requests
BY DEF Says, Verdicts

LEMMA AllowStays ==
  ASSUME NEW old \in Configs, NEW new \in Configs, Widens(old, new), NEW q, Says(old, q, "allow")
  PROVE  Says(new, q, "allow")
<1>1. q \in Requests
  BY SaidOfRequests
<1>2. Evaluate(old, {}, q) = "allow"
  BY <1>1, SaysIsTheVerdict
<1>3. Evaluate(new, {}, q) = "allow"
  BY <1>2, VerdictsWiden
<1> QED
  BY <1>1, <1>3, SaysIsTheVerdict

(***************************************************************************)
(* Types.                                                                  *)
(***************************************************************************)
LEMMA NoCommandIsNone == NoCommand.op = "none"
BY DEF NoCommand

LEMMA CommandFields ==
  ASSUME UserTypes, NEW w \in Workers
  PROVE  /\ command[w].op = "respond" => command[w] \in Responding
         /\ command[w].op = "prepare" => command[w] \in Preparing
         /\ command[w].op = "deny" => command[w] \in Denying
         /\ command[w].op = "none" => command[w] = NoCommand
         /\ command[w].op \in {"none", "respond", "prepare", "deny"}
BY NoCommandIsNone DEF UserTypes, Responding, Preparing, Denying

LEMMA TypesInit == Init => Types
<1> SUFFICES ASSUME Init PROVE Types
  OBVIOUS
<1>1. RunTypes
  BY ApprovalAssumption DEF Init, RunTypes
<1>2. CallTypes
  BY ApprovalAssumption DEF Init, CallTypes, Outcomes, Answers
<1>3. AskTypes
  BY DEF Init, AskTypes
<1>4. UserTypes
  <2>1. config \in Configs
    <3>1. Configs = {[FirstConfig EXCEPT !.allow = @ \cup {RuleOfKey(k) : k \in keys}] :
                       keys \in SUBSET Trustable}
      BY DEF Configs
    <3>2. FirstConfig = [FirstConfig EXCEPT !.allow = @ \cup {RuleOfKey(k) : k \in {}}]
      <4> DEFINE first == [mode |-> FirstConfig.mode, deny |-> FirstConfig.deny,
                           ask |-> FirstConfig.ask, allow |-> FirstConfig.allow]
      <4>1. FirstConfig = first
        BY ApprovalAssumption
      <4>2. first = [first EXCEPT !.allow = first.allow \cup {RuleOfKey(k) : k \in {}}]
        OBVIOUS
      <4> HIDE DEF first
      <4> QED
        BY <4>1, <4>2, Zenon
    <3>3. {} \in SUBSET Trustable
      OBVIOUS
    <3> QED
      BY <3>1, <3>2, <3>3, Zenon DEF Init
  <2> QED
    BY <2>1, ApprovalAssumption DEF Init, UserTypes
<1> QED
  BY <1>1, <1>2, <1>3, <1>4 DEF Types

LEMMA StartsTypes ==
  ASSUME UserTypes, NEW k \in Slots, NEW cmd, Starts(k, cmd), config' = config,
         cmd \in {NoCommand} \cup Responding \cup Preparing \cup Denying
  PROVE  UserTypes'
<1>1. k \in Workers
  BY DEF Workers
<1>2. commands' \in 0..MaxCommands
  BY ApprovalAssumption DEF Starts, UserTypes
<1>3. command' = [command EXCEPT ![k] = cmd]
  BY DEF Starts
<1> QED
  BY <1>1, <1>2, <1>3, Zenon DEF UserTypes

LEMMA EndsTypes ==
  ASSUME UserTypes, NEW w \in Workers, Ends(w), config' \in Configs
  PROVE  UserTypes'
BY DEF UserTypes, Ends

LEMMA BeginsTypes ==
  ASSUME CallTypes, NEW a \in Agents, NEW q \in RequestsOf[a], Begins(a, q), reply' = reply,
         outcome' \in [Calls -> Outcomes]
  PROVE  CallTypes' /\ <<a, made[a] + 1>> \in Calls
<1>1. q \in Requests
  BY DEF Requests
<1>2. made[a] \in Nat /\ MaxCalls[a] \in Nat /\ made[a] < MaxCalls[a]
  BY ApprovalAssumption DEF CallTypes, Begins
<1>3. <<a, made[a] + 1>> \in Calls
  BY <1>2, CallsAreNumbered
<1>4. made' \in [Agents -> Nat] /\ \A b \in Agents : made'[b] <= MaxCalls[b]
  <2>1. made' = [made EXCEPT ![a] = made[a] + 1]
    BY DEF Begins
  <2> QED
    BY <1>2, <2>1 DEF CallTypes
<1>5. request' \in [Calls -> Requests \cup {NoRequest}]
  BY <1>1, <1>3 DEF Begins, CallTypes
<1> QED
  BY <1>3, <1>4, <1>5 DEF CallTypes

LEMMA SweepsGoOn == \A todo \in Sweeps : todo # <<>> => Tail(todo) \in Sweeps /\ Head(todo) \in Kinds
<1>1. /\ Tail(<<"question">>) = <<>> /\ Head(<<"question">>) = "question"
      /\ Tail(DeniedKinds) = <<"question">> /\ Head(DeniedKinds) = "permission"
  BY DEF DeniedKinds
<1> QED
  BY <1>1 DEF Sweeps, Kinds

LEMMA SentTypes ==
  ASSUME CallTypes, NEW c \in Calls, NEW r \in Answers
  PROVE  Sent(c, r) \in [Calls -> Answers \cup {"none"}]
BY DEF Sent, CallTypes

LEMMA TypesStep == Types /\ [Next]_vars => Types'
<1> SUFFICES ASSUME Types, [Next]_vars PROVE Types'
  OBVIOUS
<1>0. RunTypes /\ CallTypes /\ AskTypes /\ UserTypes
  BY DEF Types
<1>1. ASSUME NEW s \in Sessions, StartRun(s) PROVE Types'
  <2>1. RunTypes'
    <3>1. prompts[s] \in Nat /\ MaxPrompts[s] \in Nat /\ prompts[s] + 1 <= MaxPrompts[s]
      <4>1. prompts[s] \in Nat /\ prompts[s] < MaxPrompts[s]
        BY <1>0, <1>1 DEF StartRun, RunTypes
      <4>2. MaxPrompts[s] \in Nat
        BY ApprovalAssumption
      <4> QED
        BY <4>1, <4>2
    <3>2. prompts' = [prompts EXCEPT ![s] = prompts[s] + 1]
      BY <1>1 DEF StartRun
    <3>3. prompts' \in [Sessions -> Nat] /\ \A t \in Sessions : prompts'[t] <= MaxPrompts[t]
      BY <1>0, <3>1, <3>2 DEF RunTypes
    <3> QED
      BY <1>0, <1>1, <3>3 DEF StartRun, RunTypes
  <2> QED
    BY <1>0, <1>1, <2>1 DEF StartRun, Types, CallTypes, AskTypes, UserTypes, userVars
<1>2. ASSUME NEW s \in Sessions, EndRun(s) PROVE Types'
  <2>1. s \in Workers /\ Denial(s, FALSE) \in Denying
    BY DEF Workers, Denial, Denying, Sweeps
  <2>2. UserTypes'
    BY <1>0, <1>2, <2>1 DEF EndRun, UserTypes
  <2>3. RunTypes'
    BY <1>0, <1>2 DEF EndRun, RunTypes
  <2> QED
    BY <1>0, <1>2, <2>2, <2>3 DEF EndRun, Types, CallTypes, AskTypes
<1>3. ASSUME NEW w \in Workers, DenySweeps(w) PROVE Types'
  <2>1. command[w] \in Denying
    BY <1>0, <1>3, CommandFields DEF DenySweeps
  <2>2. /\ command[w] = [op |-> "deny", session |-> command[w].session,
                         fires |-> command[w].fires, todo |-> command[w].todo]
        /\ command[w].todo \in Sweeps /\ command[w].todo # <<>>
    BY <1>3, <2>1 DEF Denying, DenySweeps
  <2>3. [command[w] EXCEPT !.todo = Tail(command[w].todo)] \in Denying
    BY <2>1, <2>2, SweepsGoOn DEF Denying
  <2>4. command' = [command EXCEPT ![w] = [command[w] EXCEPT !.todo = Tail(command[w].todo)]]
    BY <1>3 DEF DenySweeps
  <2>5. UserTypes'
    BY <1>0, <1>3, <2>3, <2>4 DEF DenySweeps, UserTypes
  <2>6. CallTypes' /\ AskTypes'
    BY <1>0, <1>3 DEF DenySweeps, CallTypes, AskTypes, Answers
  <2> QED
    BY <1>0, <1>3, <2>5, <2>6 DEF DenySweeps, Types, RunTypes, runVars
<1>4. ASSUME NEW w \in Workers, DenyOver(w) PROVE Types'
  <2>1. command[w] \in Denying
    BY <1>0, <1>4, CommandFields DEF DenyOver
  <2>2. RunTypes'
    BY <1>0, <1>4, <2>1 DEF DenyOver, RunTypes, Denying
  <2>3. UserTypes'
    BY <1>0, <1>4, EndsTypes DEF DenyOver, UserTypes
  <2> QED
    BY <1>0, <1>4, <2>2, <2>3 DEF DenyOver, Types, CallTypes, AskTypes
<1>5. ASSUME NEW a \in Agents, NEW q \in RequestsOf[a], StartCall(a, q) PROVE Types'
  <2> DEFINE c == <<a, made[a] + 1>>
  <2>1. outcome' \in [Calls -> Outcomes]
    BY <1>0, <1>5 DEF StartCall, CallTypes, Outcomes
  <2>2. CallTypes' /\ c \in Calls
    BY <1>0, <1>5, <2>1, BeginsTypes DEF StartCall
  <2>3. Offer(config, q) \subseteq Trustable
    BY DEF Offer
  <2>4. AskTypes'
    <3>1. channel' \in [Kinds -> Seq(Calls)]
      <4>1. Append(channel.permission, c) \in Seq(Calls)
        BY <1>0, <2>2 DEF AskTypes, Kinds
      <4> QED
        BY <1>0, <1>5, <4>1 DEF StartCall, AskTypes
    <3>2. offered' \in [Calls -> SUBSET Trustable]
      BY <1>0, <1>5, <2>3 DEF StartCall, AskTypes
    <3>3. pending' \subseteq Calls /\ UNCHANGED <<contexts, approved>>
      BY <1>0, <1>5, <2>2 DEF StartCall, AskTypes, userVars
    <3> QED
      BY <1>0, <3>1, <3>2, <3>3 DEF AskTypes
  <2> QED
    BY <1>0, <1>5, <2>2, <2>4 DEF StartCall, Types, RunTypes, UserTypes, runVars, userVars
<1>6. ASSUME NEW a \in Agents, NEW q \in RequestsOf[a], StartQuestion(a, q) PROVE Types'
  <2> DEFINE c == <<a, made[a] + 1>>
  <2>1. outcome' \in [Calls -> Outcomes]
    BY <1>0, <1>6 DEF StartQuestion, CallTypes, Outcomes
  <2>2. CallTypes' /\ c \in Calls
    BY <1>0, <1>6, <2>1, BeginsTypes DEF StartQuestion
  <2>4. AskTypes'
    <3>1. channel' \in [Kinds -> Seq(Calls)]
      <4>1. Append(channel.question, c) \in Seq(Calls)
        BY <1>0, <2>2 DEF AskTypes, Kinds
      <4> QED
        BY <1>0, <1>6, <4>1 DEF StartQuestion, AskTypes
    <3>2. UNCHANGED <<pending, offered, contexts, approved>>
      BY <1>6 DEF StartQuestion, userVars
    <3> QED
      BY <1>0, <3>1, <3>2 DEF AskTypes
  <2> QED
    BY <1>0, <1>6, <2>2, <2>4 DEF StartQuestion, Types, RunTypes, UserTypes, runVars, userVars
<1>7. ASSUME NEW a \in Agents, Loop(a) PROVE Types'
  <2>1. outcome' \in [Calls -> Outcomes] /\ UNCHANGED <<made, request, reply>>
    BY <1>0, <1>7 DEF Loop, CallCancelled, CallAnswered, CallTypes, Outcomes
  <2>2. pending' \subseteq pending /\ UNCHANGED <<channel, contexts, offered, approved>>
    BY <1>7 DEF Loop, CallCancelled, CallAnswered, Taken, userVars
  <2>3. CallTypes'
    BY <1>0, <2>1 DEF CallTypes
  <2>4. AskTypes'
    BY <1>0, <2>2 DEF AskTypes
  <2> QED
    BY <1>0, <1>7, <2>3, <2>4 DEF Loop, CallCancelled, CallAnswered, Types, RunTypes, UserTypes,
                                  runVars, userVars
<1>8. ASSUME Listener PROVE Types'
  <2>1. /\ channel.permission \in Seq(Calls) /\ channel.question \in Seq(Calls)
    BY <1>0 DEF AskTypes, Kinds
  <2>2. \A kind \in Kinds : channel[kind] # <<>> =>
          Head(channel[kind]) \in Calls /\ Tail(channel[kind]) \in Seq(Calls)
    BY <2>1 DEF Kinds
  <2>3. channel' \in [Kinds -> Seq(Calls)]
    BY <1>0, <1>8, <2>2 DEF Listener, ListenPermission, ListenQuestion, AskTypes, Kinds
  <2>4. pending' \subseteq Calls /\ contexts' \subseteq Calls
    BY <1>0, <1>8, <2>2 DEF Listener, ListenPermission, ListenQuestion, AskTypes, Kinds
  <2>5. reply' \in [Calls -> Answers \cup {"none"}]
    BY <1>0, <1>8 DEF Listener, ListenPermission, ListenQuestion, CallTypes, Answers
  <2>6. UNCHANGED <<made, request, outcome, offered, approved>>
    BY <1>8 DEF Listener, ListenPermission, ListenQuestion, userVars
  <2>7. AskTypes' /\ CallTypes'
    BY <1>0, <2>3, <2>4, <2>5, <2>6 DEF AskTypes, CallTypes
  <2> QED
    BY <1>0, <1>8, <2>7 DEF Listener, ListenPermission, ListenQuestion, Types, RunTypes,
                            UserTypes, runVars, userVars
<1>9. ASSUME NEW k \in Slots, RecordTrust(k) PROVE Types'
  <2>1. k \in Workers /\ command[k] \in Responding
    BY <1>0, <1>9, CommandFields DEF RecordTrust, Workers
  <2>2. PICK key \in command[k].keys :
          /\ config' = RecordProjectApproval(config, key)
          /\ \/ command' = [command EXCEPT ![k].keys = @ \ {key}] /\ UNCHANGED commands
             \/ Ends(k)
    BY <1>9 DEF RecordTrust
  <2>3. key \in Trustable /\ config' \in Configs
    BY <1>0, <2>1, <2>2, TrustWidens DEF Responding, UserTypes
  <2>4. [command[k] EXCEPT !.keys = command[k].keys \ {key}] \in Responding
    BY <2>1 DEF Responding
  <2>5. UserTypes'
    <3>1. CASE command' = [command EXCEPT ![k].keys = @ \ {key}] /\ UNCHANGED commands
      <4>1. command' = [command EXCEPT ![k] = [command[k] EXCEPT !.keys = command[k].keys \ {key}]]
        BY <3>1
      <4> QED
        BY <1>0, <2>1, <2>3, <2>4, <3>1, <4>1 DEF UserTypes
    <3>2. CASE Ends(k)
      BY <1>0, <2>1, <2>3, <3>2, EndsTypes
    <3> QED
      BY <2>2, <3>1, <3>2
  <2> QED
    BY <1>0, <1>9, <2>5 DEF RecordTrust, Types, RunTypes, CallTypes, AskTypes, runVars
<1>10. ASSUME NEW k \in Slots, RespondSends(k) \/ PrepareSends(k) PROVE Types'
  <2>1. k \in Workers /\ command[k] \in Responding \cup Preparing
    BY <1>0, <1>10, CommandFields DEF RespondSends, PrepareSends, Workers
  <2>2. command[k].call \in Calls /\ command[k].reply \in Answers
    BY <2>1 DEF Responding, Preparing
  <2>3. CallTypes' /\ AskTypes'
    BY <1>0, <1>10, <2>2, SentTypes DEF RespondSends, PrepareSends, CallTypes, AskTypes, Taken
  <2>4. UserTypes'
    BY <1>0, <1>10, <2>1, EndsTypes DEF RespondSends, PrepareSends, UserTypes
  <2> QED
    BY <1>0, <1>10, <2>3, <2>4 DEF RespondSends, PrepareSends, Types, RunTypes, runVars
<1>11. ASSUME NEW k \in Slots, User(k) PROVE Types'
  <2>1. ASSUME NEW c \in Calls, NEW answer \in {"allow", "deny"}, Respond(k, c, answer)
        PROVE  UserTypes'
    <3>1. [op |-> "respond", call |-> c, reply |-> answer, keys |-> {}] \in Responding
      BY DEF Responding, Answers
    <3> QED
      BY <1>0, <2>1, <3>1, StartsTypes DEF Respond
  <2>2. ASSUME NEW c \in Calls, NEW keys \in (SUBSET offered[c]) \ {{}}, RespondTrusting(k, c, keys)
        PROVE  UserTypes'
    <3>1. offered[c] \subseteq Trustable
      BY <1>0 DEF AskTypes
    <3>2. [op |-> "respond", call |-> c, reply |-> "allow", keys |-> keys] \in Responding
      BY <3>1 DEF Responding, Answers
    <3> QED
      BY <1>0, <2>2, <3>2, StartsTypes DEF RespondTrusting
  <2>3. ASSUME NEW c \in Calls, RespondQuestion(k, c) PROVE UserTypes'
    <3>1. [op |-> "respond", call |-> c, reply |-> "allow", keys |-> {}] \in Responding
      BY DEF Responding, Answers
    <3> QED
      BY <1>0, <2>3, <3>1, StartsTypes DEF RespondQuestion
  <2>4. ASSUME NEW c \in Calls, Prepare(k, c) PROVE UserTypes' /\ AskTypes'
    <3> DEFINE r == IF Says(config, request[c], "allow") THEN "allow" ELSE "deny"
               cmd == [op |-> "prepare", call |-> c, reply |-> r]
    <3>1. cmd \in Preparing
      BY DEF Preparing, Answers
    <3>2. Starts(k, NoCommand) \/ Starts(k, cmd)
      BY <2>4 DEF Prepare
    <3> HIDE DEF cmd
    <3>3. UserTypes'
      BY <1>0, <2>4, <3>1, <3>2, StartsTypes DEF Prepare
    <3>4. Offer(config, request[c]) \subseteq Trustable
      BY DEF Offer
    <3>5. offered' \in [Calls -> SUBSET Trustable]
      BY <1>0, <2>4, <3>4 DEF Prepare, AskTypes
    <3> QED
      BY <1>0, <2>4, <3>3, <3>5 DEF Prepare, AskTypes
  <2>5. ASSUME NEW s \in Sessions, Abort(k, s) \/ TurnedDown(k, s) PROVE UserTypes'
    <3>1. Denial(s, TRUE) \in Denying /\ Denial(s, FALSE) \in Denying
      BY DEF Denial, Denying, Sweeps
    <3> QED
      BY <1>0, <2>5, <3>1, StartsTypes DEF Abort, TurnedDown
  <2>6. UNCHANGED <<running, prompts, cancelled, made, request, outcome, reply>>
    BY <1>11 DEF User, Respond, RespondTrusting, RespondQuestion, Prepare, Abort, TurnedDown,
                 runVars
  <2>7. RunTypes' /\ CallTypes'
    BY <1>0, <2>6 DEF RunTypes, CallTypes
  <2>8. ASSUME NEW c \in Calls,
               \/ \E answer \in {"allow", "deny"} : Respond(k, c, answer)
               \/ \E keys \in (SUBSET offered[c]) \ {{}} : RespondTrusting(k, c, keys)
               \/ RespondQuestion(k, c)
        PROVE  AskTypes'
    <3>1. UNCHANGED <<pending, channel, contexts, offered>>
      BY <2>8 DEF Respond, RespondTrusting, RespondQuestion
    <3>2. approved' \subseteq approved \cup {c}
      BY <2>8 DEF Respond, RespondTrusting, RespondQuestion
    <3> QED
      BY <1>0, <3>1, <3>2 DEF AskTypes
  <2>9. ASSUME NEW s \in Sessions, Abort(k, s) \/ TurnedDown(k, s) PROVE AskTypes'
    BY <1>0, <2>9 DEF Abort, TurnedDown, AskTypes
  <2> QED
    BY <1>11, <2>1, <2>2, <2>3, <2>4, <2>5, <2>7, <2>8, <2>9 DEF User, Types
<1>12. ASSUME UNCHANGED vars PROVE Types'
  BY <1>0, <1>12 DEF vars, Types, RunTypes, CallTypes, AskTypes, UserTypes
<1> QED
  <2>1. Slots \subseteq Workers /\ Sessions \subseteq Workers
    BY DEF Workers
  <2> QED
    BY <1>1, <1>2, <1>3, <1>4, <1>5, <1>6, <1>7, <1>8, <1>9, <1>10, <1>11, <1>12, <2>1
       DEF Next, Deny, CommandStep

-----------------------------------------------------------------------------
(***************************************************************************)
(* What a step leaves: known calls stay known and keep their request, what *)
(* was approved stays so, and what the rules allow stays allowed.          *)
(***************************************************************************)
Keeps ==
  /\ \A a \in Agents : made'[a] >= made[a]
  /\ Known \subseteq Known'
  /\ \A c \in Known : request'[c] = request[c]
  /\ approved \subseteq approved'
  /\ \A q : Says(config, q, "allow") => Says(config', q, "allow")

LEMMA BeginsKeeps ==
  ASSUME CallTypes, NEW a \in Agents, NEW q, Begins(a, q), NEW c, c = <<a, made[a] + 1>>
  PROVE  /\ c \in Calls \ Known /\ Known' = Known \cup {c}
         /\ request' = [request EXCEPT ![c] = q] /\ request'[c] = q
         /\ \A d \in Known : request'[d] = request[d]
         /\ \A b \in Agents : made'[b] >= made[b]
<1>1. made[a] \in Nat /\ MaxCalls[a] \in Nat /\ made[a] < MaxCalls[a]
  <2>1. MaxCalls[a] \in Nat
    BY ApprovalAssumption
  <2> QED
    BY <2>1 DEF CallTypes, Begins
<1>2. c \in Calls /\ c[1] = a /\ c[2] = made[a] + 1
  BY <1>1, CallsAreNumbered
<1>3. c \notin Known
  BY <1>1, <1>2 DEF Known
<1>4. /\ made'[a] = made[a] + 1 /\ \A b \in Agents : b # a => made'[b] = made[b]
      /\ \A b \in Agents : made[b] \in Nat
  BY DEF Begins, CallTypes
<1>5. \A d \in Calls : d \in Known' <=> d \in Known \/ d = c
  <2> TAKE d \in Calls
  <2>1. d = <<d[1], d[2]>> /\ d[1] \in Agents /\ d[2] \in Nat
    BY CallsAreNumbered
  <2>2. d \in Known' <=> d[2] <= made'[d[1]]
    BY DEF Known
  <2>3. d \in Known <=> d[2] <= made[d[1]]
    BY DEF Known
  <2>4. CASE d[1] = a
    <3>1. d = c <=> d[2] = made[a] + 1
      BY <1>2, <2>1, <2>4
    <3> QED
      BY <1>1, <1>4, <2>1, <2>2, <2>3, <2>4, <3>1
  <2>5. CASE d[1] # a
    BY <1>2, <1>4, <2>1, <2>2, <2>3, <2>5
  <2> QED
    BY <2>4, <2>5
<1>6. Known' = Known \cup {c}
  BY <1>2, <1>5 DEF Known
<1>7. request' = [request EXCEPT ![c] = q] /\ request'[c] = q
  BY <1>2 DEF Begins, CallTypes
<1>8. \A d \in Known : request'[d] = request[d]
  BY <1>3, <1>7 DEF Known, CallTypes
<1> QED
  BY <1>1, <1>2, <1>3, <1>4, <1>6, <1>7, <1>8

LEMMA ConfigStep ==
  ASSUME Types, [Next]_vars
  PROVE  \/ config' = config
         \/ Widens(config, config') /\ config \in Configs /\ config' \in Configs
<1>1. ASSUME NEW k \in Slots, RecordTrust(k)
      PROVE  Widens(config, config') /\ config \in Configs /\ config' \in Configs
  <2>1. k \in Workers /\ UserTypes
    BY DEF Workers, Types
  <2>2. PICK key \in command[k].keys : config' = RecordProjectApproval(config, key)
    BY <1>1 DEF RecordTrust
  <2>3. key \in Trustable /\ config \in Configs
    BY <1>1, <2>1, <2>2, CommandFields DEF RecordTrust, Responding, UserTypes
  <2> QED
    BY <2>2, <2>3, TrustWidens
<1>2. CASE UNCHANGED vars
  BY <1>2 DEF vars
<1>3. ASSUME NEW k \in Slots, CommandStep(k), ~RecordTrust(k) PROVE config' = config
  BY <1>3 DEF CommandStep, RespondSends, PrepareSends, Deny, DenySweeps, DenyOver
<1>4. ASSUME NEW k \in Slots, User(k) PROVE config' = config
  BY <1>4 DEF User, Respond, RespondTrusting, RespondQuestion, Prepare, Abort, TurnedDown
<1>5. ASSUME NEW s \in Sessions, StartRun(s) \/ EndRun(s) \/ Deny(s) PROVE config' = config
  BY <1>5 DEF StartRun, EndRun, Deny, DenySweeps, DenyOver
<1>6. ASSUME NEW a \in Agents, Loop(a) \/ \E q \in RequestsOf[a] : StartCall(a, q) \/ StartQuestion(a, q)
      PROVE  config' = config
  BY <1>6 DEF Loop, CallCancelled, CallAnswered, StartCall, StartQuestion
<1>7. ASSUME Listener PROVE config' = config
  BY <1>7 DEF Listener, ListenPermission, ListenQuestion
<1> QED
  BY <1>1, <1>2, <1>3, <1>4, <1>5, <1>6, <1>7 DEF Next

LEMMA StepKeeps == ASSUME Types, [Next]_vars PROVE Keeps
<1>1. \A q : Says(config, q, "allow") => Says(config', q, "allow")
  BY ConfigStep, AllowStays
<1>2. approved \subseteq approved'
  BY ZenonT(60) DEF Next, vars, StartRun, EndRun, Deny, DenySweeps, DenyOver, StartCall, StartQuestion, Loop,
     CallCancelled, CallAnswered, Listener, ListenPermission, ListenQuestion, CommandStep,
     RecordTrust, RespondSends, PrepareSends, User, Respond, RespondTrusting, RespondQuestion,
     Prepare, Abort, TurnedDown, userVars
<1>3. CASE \E a \in Agents : \E q \in RequestsOf[a] : StartCall(a, q) \/ StartQuestion(a, q)
  <2>1. PICK a \in Agents : \E q \in RequestsOf[a] : Begins(a, q)
    BY <1>3 DEF StartCall, StartQuestion
  <2> QED
    BY <1>1, <1>2, <2>1, BeginsKeeps DEF Keeps, Types
<1>4. CASE ~\E a \in Agents : \E q \in RequestsOf[a] : StartCall(a, q) \/ StartQuestion(a, q)
  <2>1. UNCHANGED <<made, request>>
    BY <1>4
       DEF Next, vars, StartRun, EndRun, Deny, DenySweeps, DenyOver, Loop, CallCancelled,
       CallAnswered, Listener, ListenPermission, ListenQuestion, CommandStep, RecordTrust,
       RespondSends, PrepareSends, User, Respond, RespondTrusting, RespondQuestion, Prepare,
       Abort, TurnedDown
  <2>2. Known' = Known /\ \A a \in Agents : made[a] \in Nat
    BY <2>1 DEF Known, Types, CallTypes
  <2> QED
    BY <1>1, <1>2, <2>1, <2>2 DEF Keeps
<1> QED
  BY <1>3, <1>4

-----------------------------------------------------------------------------
(***************************************************************************)
(* Requests on their way.                                                  *)
(***************************************************************************)
Distinct(s) == \A i, j \in DOMAIN s : s[i] = s[j] => i = j

LEMMA FirstOfMany ==
  ASSUME NEW X, NEW s \in Seq(X), s # <<>>
  PROVE  /\ Head(s) \in X /\ Tail(s) \in Seq(X)
         /\ ToSet(s) = {Head(s)} \cup ToSet(Tail(s))
         /\ Distinct(s) => Distinct(Tail(s)) /\ Head(s) \notin ToSet(Tail(s))
<1> DEFINE t == Tail(s)
<1>1. /\ Head(s) = s[1] /\ Head(s) \in X /\ t \in Seq(X)
      /\ Len(s) \in Nat /\ Len(s) > 0 /\ Len(t) = Len(s) - 1
      /\ \A i \in 1..Len(t) : t[i] = s[i + 1]
  OBVIOUS
<1>2. DOMAIN s = 1..Len(s) /\ DOMAIN t = 1..Len(t)
  BY <1>1
<1> HIDE DEF t
<1>3. ASSUME NEW x PROVE x \in ToSet(s) <=> x = s[1] \/ x \in ToSet(t)
  <2>1. x \in ToSet(s) <=> \E i \in 1..Len(s) : x = s[i]
    BY <1>2 DEF ToSet
  <2>2. x \in ToSet(t) <=> \E i \in 1..Len(t) : x = t[i]
    BY <1>2 DEF ToSet
  <2>3. ASSUME NEW i \in 1..Len(s), x = s[i] PROVE x = s[1] \/ x \in ToSet(t)
    <3>1. i = 1 \/ (i - 1 \in 1..Len(t) /\ t[i - 1] = s[(i - 1) + 1])
      BY <1>1
    <3> QED
      BY <2>2, <2>3, <3>1
  <2>4. ASSUME NEW i \in 1..Len(t), x = t[i] PROVE x \in ToSet(s)
    <3>1. i + 1 \in 1..Len(s) /\ t[i] = s[i + 1]
      BY <1>1
    <3> QED
      BY <2>1, <2>4, <3>1
  <2>5. x = s[1] => x \in ToSet(s)
    BY <1>1, <2>1
  <2> QED
    BY <2>1, <2>2, <2>3, <2>4, <2>5
<1>4. ASSUME Distinct(s) PROVE Distinct(t) /\ s[1] \notin ToSet(t)
  <2>1. \A i \in 1..Len(t) : i + 1 \in 1..Len(s) /\ t[i] = s[i + 1]
    BY <1>1
  <2>2. \A i, j \in 1..Len(s) : s[i] = s[j] => i = j
    BY <1>2, <1>4 DEF Distinct
  <2>3. \A i, j \in 1..Len(t) : t[i] = t[j] => i = j
    BY <2>1, <2>2
  <2>4. \A i \in 1..Len(t) : t[i] # s[1]
    BY <1>1, <2>1, <2>2
  <2> QED
    BY <1>2, <2>3, <2>4 DEF Distinct, ToSet
<1> QED
  BY <1>1, <1>3, <1>4 DEF t

LEMMA OneMore ==
  ASSUME NEW X, NEW s \in Seq(X), NEW x \in X
  PROVE  /\ ToSet(Append(s, x)) = ToSet(s) \cup {x}
         /\ Distinct(s) /\ x \notin ToSet(s) => Distinct(Append(s, x))
<1> DEFINE t == Append(s, x)
<1>1. /\ Len(s) \in Nat /\ Len(t) = Len(s) + 1 /\ t[Len(s) + 1] = x
      /\ \A i \in 1..Len(s) : t[i] = s[i]
      /\ DOMAIN s = 1..Len(s) /\ DOMAIN t = 1..Len(t)
  OBVIOUS
<1> HIDE DEF t
<1>2. DOMAIN t = (1..Len(s)) \cup {Len(s) + 1}
  BY <1>1
<1>3. ToSet(t) = ToSet(s) \cup {x}
  BY <1>1, <1>2 DEF ToSet
<1>4. ASSUME Distinct(s), x \notin ToSet(s) PROVE Distinct(t)
  <2>1. \A i \in 1..Len(s) : s[i] # x
    BY <1>1, <1>4 DEF ToSet
  <2> QED
    BY <1>1, <1>2, <1>4, <2>1 DEF Distinct
<1> QED
  BY <1>3, <1>4 DEF t

LEMMA ChannelTypes ==
  ASSUME AskTypes
  PROVE  channel.permission \in Seq(Calls) /\ channel.question \in Seq(Calls)
BY DEF AskTypes, Kinds

LEMMA ListenStep ==
  ASSUME AskTypes, NEW kind \in Kinds, channel[kind] # <<>>,
         channel' = [channel EXCEPT ![kind] = Tail(channel[kind])]
  PROVE  /\ Head(channel[kind]) \in Calls
         /\ ToSet(channel[kind]) = {Head(channel[kind])} \cup ToSet(channel'[kind])
         /\ \A other \in Kinds : other # kind => channel'[other] = channel[other]
         /\ Distinct(channel[kind]) =>
              Distinct(channel'[kind]) /\ Head(channel[kind]) \notin ToSet(channel'[kind])
<1>1. channel[kind] \in Seq(Calls) /\ channel \in [Kinds -> Seq(Calls)]
  BY DEF AskTypes
<1>2. channel'[kind] = Tail(channel[kind])
  BY <1>1
<1>3. \A other \in Kinds : other # kind => channel'[other] = channel[other]
  BY <1>1
<1> QED
  BY <1>1, <1>2, <1>3, FirstOfMany

LEMMA SendStep ==
  ASSUME AskTypes, NEW kind \in Kinds, NEW c \in Calls,
         channel' = [channel EXCEPT ![kind] = Append(channel[kind], c)]
  PROVE  /\ ToSet(channel'[kind]) = ToSet(channel[kind]) \cup {c}
         /\ \A other \in Kinds : other # kind => channel'[other] = channel[other]
         /\ Distinct(channel[kind]) /\ c \notin ToSet(channel[kind]) => Distinct(channel'[kind])
<1>1. channel[kind] \in Seq(Calls) /\ channel \in [Kinds -> Seq(Calls)]
  BY DEF AskTypes
<1>2. channel'[kind] = Append(channel[kind], c)
  BY <1>1
<1>3. \A other \in Kinds : other # kind => channel'[other] = channel[other]
  BY <1>1
<1> QED
  BY <1>1, <1>2, <1>3, OneMore

-----------------------------------------------------------------------------
(***************************************************************************)
(* A reply goes to a call that waits, that could be found or whose         *)
(* question was on its way, and that is neither afterwards.                *)
(***************************************************************************)
Concerns(c) ==
  \A w \in Workers : command[w].op = "deny" /\ command[w] # command'[w] =>
    command[w].session = Session(c)

RepliesTo(c) ==
  /\ outcome[c] = "waiting" /\ c \in Asked /\ c \notin Asked'
  /\ Concerns(c) /\ outcome' = outcome

LEMMA TakenStep ==
  ASSUME Types, NEW w \in Workers, NEW c, NEW r, Answering(w),
         reply' = Sent(c, r), pending' = Taken(c), Ends(w),
         UNCHANGED <<channel, outcome>>, pending \cap Questions = {},
         NEW d \in Calls, reply'[d] # reply[d]
  PROVE  RepliesTo(d)
<1>1. d = c /\ c \in pending /\ outcome[c] = "waiting"
  BY DEF Sent, Types, CallTypes
<1>2. d \in Asked /\ d \notin Asked'
  BY <1>1 DEF Asked, Questions, Taken
<1>3. command' = [command EXCEPT ![w] = NoCommand] /\ command[w].op # "deny"
  BY DEF Ends, Answering
<1>4. Concerns(d)
  BY <1>3 DEF Concerns, Types, UserTypes
<1> QED
  BY <1>1, <1>2, <1>4 DEF RepliesTo

LEMMA RepliesAreToTheAsked ==
  ASSUME Types, AskedAreUnanswered, [Next]_vars, NEW d \in Calls, reply'[d] # reply[d]
  PROVE  RepliesTo(d)
<1>0. RunTypes /\ CallTypes /\ AskTypes /\ UserTypes /\ pending \cap Questions = {}
  BY DEF Types, AskedAreUnanswered
<1>1. ASSUME NEW w \in Workers, DenySweeps(w) PROVE RepliesTo(d)
  <2> DEFINE swept == PendingOf(command[w].session, Head(command[w].todo))
  <2>1. /\ reply' = [c \in Calls |->
                      IF c \in swept /\ outcome[c] = "waiting" THEN "deny" ELSE reply[c]]
        /\ pending' = pending \ swept /\ UNCHANGED <<outcome, channel>>
    BY <1>1 DEF DenySweeps
  <2>2. d \in swept /\ outcome[d] = "waiting"
    BY <2>1
  <2>3. d \in pending /\ Session(d) = command[w].session
    BY <2>2 DEF PendingOf
  <2>4. d \in Asked /\ d \notin Asked'
    BY <1>0, <2>1, <2>2, <2>3 DEF Asked, Questions
  <2>5. \A v \in Workers : v # w => command'[v] = command[v]
    BY <1>0, <1>1 DEF DenySweeps, UserTypes
  <2>6. Concerns(d)
    BY <2>3, <2>5 DEF Concerns
  <2> QED
    BY <2>1, <2>2, <2>4, <2>6 DEF RepliesTo
<1>2. ASSUME ListenQuestion PROVE RepliesTo(d)
  <2> DEFINE c == Head(channel.question)
  <2>1. /\ pending' = pending /\ d = c /\ outcome[c] = "waiting"
        /\ channel' = [channel EXCEPT !.question = Tail(channel.question)]
        /\ UNCHANGED <<outcome, command>> /\ channel.question # <<>>
    BY <1>0, <1>2 DEF ListenQuestion, CallTypes, userVars
  <2>2. "question" \in Kinds
    BY DEF Kinds
  <2>3. Distinct(channel.question)
    BY DEF AskedAreUnanswered, Distinct
  <2>4. c \in Questions /\ c \notin Questions'
    BY <1>0, <2>1, <2>2, <2>3, ListenStep DEF Questions
  <2>5. d \in Asked /\ d \notin Asked'
    BY <1>0, <2>1, <2>4 DEF Asked
  <2> QED
    BY <2>1, <2>5 DEF RepliesTo, Concerns
<1>3. ASSUME NEW k \in Slots, RespondSends(k) \/ PrepareSends(k) PROVE RepliesTo(d)
  <2> DEFINE c == command[k].call
  <2>1. /\ Answering(k) /\ reply' = Sent(c, command[k].reply) /\ pending' = Taken(c) /\ Ends(k)
        /\ UNCHANGED <<channel, outcome>>
    BY <1>3 DEF RespondSends, PrepareSends, Answering
  <2>2. k \in Workers
    BY DEF Workers
  <2> QED
    BY <1>0, <2>1, <2>2, TakenStep DEF Types
<1>4. ASSUME NEW w \in Workers, DenyOver(w) PROVE FALSE
  BY <1>4 DEF DenyOver
<1>5. ASSUME NEW k \in Slots, User(k) \/ RecordTrust(k) PROVE FALSE
  BY <1>5 DEF User, Respond, RespondTrusting, RespondQuestion, Prepare, Abort, TurnedDown,
              RecordTrust
<1>6. ASSUME NEW s \in Sessions, StartRun(s) \/ EndRun(s) PROVE FALSE
  BY <1>6 DEF StartRun, EndRun
<1>7. ASSUME NEW a \in Agents, Loop(a) \/ \E q \in RequestsOf[a] : StartCall(a, q) \/ StartQuestion(a, q)
      PROVE  FALSE
  BY <1>7 DEF Loop, CallCancelled, CallAnswered, StartCall, StartQuestion
<1>8. ASSUME ListenPermission \/ UNCHANGED vars PROVE FALSE
  BY <1>8 DEF ListenPermission, vars
<1> QED
  <2>1. Slots \subseteq Workers /\ Sessions \subseteq Workers
    BY DEF Workers
  <2> QED
    BY <1>1, <1>2, <1>3, <1>4, <1>5, <1>6, <1>7, <1>8, <2>1 DEF Next, Deny, CommandStep, Listener

(***************************************************************************)
(* What the user sets going: an answer, about a call that is shown or can  *)
(* be found and with the user's word or that of the rules; or a denial.    *)
(***************************************************************************)
AnswerIsMeant(cmd) ==
  /\ cmd.call \in contexts \cup pending
  /\ approved' \subseteq approved \cup {cmd.call}
  /\ cmd.reply = "allow" =>
       cmd.call \in approved' \/ Says(config, request[cmd.call], "allow")

LEMMA UserStep ==
  ASSUME NEW k \in Slots, User(k)
  PROVE  /\ UNCHANGED <<made, request, outcome, pending, reply, channel, contexts, config>>
         /\ approved \subseteq approved'
         /\ \E cmd : /\ command' = [command EXCEPT ![k] = cmd]
                     /\ \/ cmd.op \in {"none", "deny"} /\ approved' = approved
                        \/ cmd.op \in {"respond", "prepare"} /\ AnswerIsMeant(cmd)
<1> DEFINE Set == \E cmd : /\ command' = [command EXCEPT ![k] = cmd]
                           /\ \/ cmd.op \in {"none", "deny"} /\ approved' = approved
                              \/ cmd.op \in {"respond", "prepare"} /\ AnswerIsMeant(cmd)
<1>1. UNCHANGED <<made, request, outcome, pending, reply, channel, contexts, config>>
      /\ approved \subseteq approved'
  BY DEF User, Respond, RespondTrusting, RespondQuestion, Prepare, Abort, TurnedDown, runVars
<1>2. ASSUME NEW c \in Calls, NEW answer \in {"allow", "deny"}, Respond(k, c, answer) PROVE Set
  <2> DEFINE cmd == [op |-> "respond", call |-> c, reply |-> answer, keys |-> {}]
  <2>1. command' = [command EXCEPT ![k] = cmd] /\ c \in contexts
        /\ approved' = IF answer = "allow" THEN approved \cup {c} ELSE approved
    BY <1>2 DEF Respond, Starts
  <2>2. cmd.op = "respond" /\ cmd.call = c /\ cmd.reply = answer
    OBVIOUS
  <2> HIDE DEF cmd
  <2>3. AnswerIsMeant(cmd)
    BY <2>1, <2>2 DEF AnswerIsMeant
  <2> QED
    BY <2>1, <2>2, <2>3
<1>3. ASSUME NEW c \in Calls, NEW keys, RespondTrusting(k, c, keys) PROVE Set
  <2> DEFINE cmd == [op |-> "respond", call |-> c, reply |-> "allow", keys |-> keys]
  <2>1. command' = [command EXCEPT ![k] = cmd] /\ c \in contexts /\ approved' = approved \cup {c}
    BY <1>3 DEF RespondTrusting, Starts
  <2>2. cmd.op = "respond" /\ cmd.call = c
    OBVIOUS
  <2> HIDE DEF cmd
  <2>3. AnswerIsMeant(cmd)
    BY <2>1, <2>2 DEF AnswerIsMeant
  <2> QED
    BY <2>1, <2>2, <2>3
<1>4. ASSUME NEW c \in Calls, RespondQuestion(k, c) PROVE Set
  <2> DEFINE cmd == [op |-> "respond", call |-> c, reply |-> "allow", keys |-> {}]
  <2>1. command' = [command EXCEPT ![k] = cmd] /\ c \in pending /\ approved' = approved \cup {c}
    BY <1>4 DEF RespondQuestion, Starts
  <2>2. cmd.op = "respond" /\ cmd.call = c
    OBVIOUS
  <2> HIDE DEF cmd
  <2>3. AnswerIsMeant(cmd)
    BY <2>1, <2>2 DEF AnswerIsMeant
  <2> QED
    BY <2>1, <2>2, <2>3
<1>5. ASSUME NEW c \in Calls, Prepare(k, c) PROVE Set
  <2> DEFINE answer == IF Says(config, request[c], "allow") THEN "allow" ELSE "deny"
             cmd == [op |-> "prepare", call |-> c, reply |-> answer]
  <2>1. /\ Starts(k, NoCommand) \/ Starts(k, cmd)
        /\ c \in contexts /\ approved' = approved
    BY <1>5 DEF Prepare
  <2>2. cmd.op = "prepare" /\ cmd.call = c
        /\ (cmd.reply = "allow" => Says(config, request[c], "allow"))
    OBVIOUS
  <2> HIDE DEF cmd
  <2>3. AnswerIsMeant(cmd)
    BY <2>1, <2>2 DEF AnswerIsMeant
  <2> QED
    BY <2>1, <2>2, <2>3, NoCommandIsNone DEF Starts
<1>6. ASSUME NEW s \in Sessions, Abort(k, s) \/ TurnedDown(k, s) PROVE Set
  <2>1. \E fires \in BOOLEAN : command' = [command EXCEPT ![k] = Denial(s, fires)]
    BY <1>6 DEF Abort, TurnedDown, Starts
  <2>2. \A fires : Denial(s, fires).op = "deny"
    BY DEF Denial
  <2>3. approved' = approved
    BY <1>6 DEF Abort, TurnedDown
  <2> QED
    BY <2>1, <2>2, <2>3
<1> QED
  BY <1>1, <1>2, <1>3, <1>4, <1>5, <1>6 DEF User

-----------------------------------------------------------------------------
(***************************************************************************)
(* Only calls that were made are known.                                    *)
(***************************************************************************)
LEMMA OnlyMadeStep ==
  ASSUME Types, OnlyMadeAreKnown, AskedAreUnanswered, [Next]_vars
  PROVE  OnlyMadeAreKnown'
<1>0. RunTypes /\ CallTypes /\ AskTypes /\ UserTypes /\ Keeps
  BY StepKeeps DEF Types
<1>1. /\ pending \subseteq Known /\ contexts \subseteq Known /\ approved \subseteq Known
      /\ \A kind \in Kinds : ToSet(channel[kind]) \subseteq Known
      /\ \A w \in Workers : Answering(w) => command[w].call \in Known
      /\ \A c \in Calls \ Known : outcome[c] = "none" /\ reply[c] = "none"
      /\ Known \subseteq Known' /\ Known \subseteq Calls
  BY <1>0 DEF OnlyMadeAreKnown, Keeps, Known
<1> DEFINE Silent == \A c \in Calls \ Known' : outcome'[c] = "none"
           Hidden == /\ pending' \subseteq Known' /\ contexts' \subseteq Known'
                     /\ approved' \subseteq Known'
           Sendings == \A kind \in Kinds : ToSet(channel'[kind]) \subseteq Known'
           Commands == \A w \in Workers : Answering(w)' => command'[w].call \in Known'
<1>2. \A c \in Calls \ Known' : reply'[c] = "none"
  <2> TAKE c \in Calls \ Known'
  <2>1. c \in Calls \ Known /\ outcome[c] = "none" /\ reply[c] = "none"
    BY <1>1
  <2>2. reply'[c] # reply[c] => outcome[c] = "waiting"
    BY <2>1, RepliesAreToTheAsked DEF RepliesTo
  <2> QED
    BY <2>1, <2>2
<1>3. Silent
  <2>1. ASSUME NEW a \in Agents, NEW q \in RequestsOf[a], StartCall(a, q) \/ StartQuestion(a, q)
        PROVE  Silent
    <3> DEFINE c == <<a, made[a] + 1>>
    <3>1. Begins(a, q)
      BY <2>1 DEF StartCall, StartQuestion
    <3>2. c \in Calls \ Known /\ Known' = Known \cup {c}
      BY <1>0, <3>1, BeginsKeeps
    <3>3. \A d \in Calls : d # c => outcome'[d] = outcome[d]
      BY <1>0, <2>1 DEF StartCall, StartQuestion, CallTypes
    <3> QED
      BY <1>1, <3>2, <3>3
  <2>2. ASSUME NEW a \in Agents, Loop(a) PROVE Silent
    <3>1. \A c \in Calls : outcome'[c] # outcome[c] => outcome[c] = "waiting"
      BY <1>0, <2>2 DEF Loop, CallCancelled, CallAnswered, CallTypes, Waiting
    <3> QED
      BY <1>1, <3>1
  <2>3. ASSUME outcome' = outcome PROVE Silent
    BY <1>1, <2>3
  <2>4. \/ outcome' = outcome
        \/ \E a \in Agents : Loop(a) \/ \E q \in RequestsOf[a] : StartCall(a, q) \/ StartQuestion(a, q)
    BY DEF Next, vars, StartRun, EndRun, Deny, DenySweeps, DenyOver, Listener, ListenPermission,
           ListenQuestion, CommandStep, RecordTrust, RespondSends, PrepareSends, User, Respond,
           RespondTrusting, RespondQuestion, Prepare, Abort, TurnedDown
  <2> QED
    BY <2>1, <2>2, <2>3, <2>4
<1>4. Hidden /\ Sendings /\ Commands
  <2>1. ASSUME NEW a \in Agents, NEW q \in RequestsOf[a], StartCall(a, q) \/ StartQuestion(a, q)
        PROVE  Hidden /\ Sendings /\ Commands
    <3> DEFINE c == <<a, made[a] + 1>>
    <3>1. Begins(a, q) /\ UNCHANGED <<contexts, approved, command>>
      BY <2>1 DEF StartCall, StartQuestion, userVars
    <3>2. c \in Calls /\ Known' = Known \cup {c}
      BY <1>0, <3>1, BeginsKeeps
    <3>3. pending' \subseteq pending \cup {c}
      BY <2>1 DEF StartCall, StartQuestion
    <3>4. \/ channel' = channel
          \/ channel' = [channel EXCEPT !["permission"] = Append(channel["permission"], c)]
          \/ channel' = [channel EXCEPT !["question"] = Append(channel["question"], c)]
      BY <2>1 DEF StartCall, StartQuestion
    <3>5. "permission" \in Kinds /\ "question" \in Kinds
      BY DEF Kinds
    <3> HIDE DEF c
    <3>6. \A kind \in Kinds : ToSet(channel'[kind]) \subseteq ToSet(channel[kind]) \cup {c}
      BY <1>0, <3>2, <3>4, <3>5, SendStep
    <3>7. Commands
      BY <1>1, <3>1 DEF Answering
    <3> QED
      BY <1>1, <3>1, <3>2, <3>3, <3>6, <3>7
  <2>2. ASSUME Listener PROVE Hidden /\ Sendings /\ Commands
    <3>1. PICK kind \in Kinds :
            /\ channel[kind] # <<>> /\ channel' = [channel EXCEPT ![kind] = Tail(channel[kind])]
            /\ pending' \cup contexts' \subseteq pending \cup contexts \cup {Head(channel[kind])}
            /\ UNCHANGED <<approved, command>>
      BY <2>2 DEF Listener, ListenPermission, ListenQuestion, Kinds, userVars
    <3>2. ToSet(channel[kind]) = {Head(channel[kind])} \cup ToSet(channel'[kind])
          /\ \A other \in Kinds : other # kind => channel'[other] = channel[other]
      BY <1>0, <3>1, ListenStep
    <3>3. Commands
      BY <1>1, <3>1 DEF Answering
    <3> QED
      BY <1>1, <3>1, <3>2, <3>3
  <2>3. ASSUME NEW k \in Slots, User(k) PROVE Hidden /\ Sendings /\ Commands
    <3>1. PICK cmd : /\ command' = [command EXCEPT ![k] = cmd]
                     /\ \/ cmd.op \in {"none", "deny"} /\ approved' = approved
                        \/ cmd.op \in {"respond", "prepare"} /\ AnswerIsMeant(cmd)
      BY <2>3, UserStep
    <3>2. UNCHANGED <<pending, channel, contexts>>
      BY <2>3, UserStep
    <3>3. cmd.op \in {"respond", "prepare"} => cmd.call \in Known
      BY <1>1, <3>1 DEF AnswerIsMeant
    <3>4. Commands
      BY <1>0, <1>1, <3>1, <3>3 DEF Answering, UserTypes
    <3>5. approved' \subseteq Known
      BY <1>1, <3>1, <3>3 DEF AnswerIsMeant
    <3> QED
      BY <1>1, <3>2, <3>4, <3>5
  <2>4. ASSUME NEW w \in Workers,
               \/ command' = [command EXCEPT ![w] = NoCommand]
               \/ \E new : new.op = command[w].op /\ command' = [command EXCEPT ![w] = new]
                           /\ (Answering(w) => new.call = command[w].call)
               \/ \E new : new.op = "deny" /\ command' = [command EXCEPT ![w] = new],
               UNCHANGED <<channel, approved>>,
               pending' \subseteq pending, contexts' \subseteq contexts
        PROVE  Hidden /\ Sendings /\ Commands
    <3>1. Commands
      BY <1>0, <1>1, <2>4, NoCommandIsNone DEF Answering, UserTypes
    <3> QED
      BY <1>1, <2>4, <3>1
  <2>5. ASSUME NEW w \in Workers, DenySweeps(w) \/ DenyOver(w) PROVE Hidden /\ Sendings /\ Commands
    <3>1. UNCHANGED <<channel, approved, contexts>> /\ pending' \subseteq pending
      BY <2>5 DEF DenySweeps, DenyOver
    <3>2. command[w] \in Denying
      BY <1>0, <2>5, CommandFields DEF DenySweeps, DenyOver
    <3>3. \/ command' = [command EXCEPT ![w] = NoCommand]
          \/ command' = [command EXCEPT ![w] = [command[w] EXCEPT !.todo = Tail(command[w].todo)]]
      BY <2>5 DEF DenySweeps, DenyOver, Ends
    <3>4. [command[w] EXCEPT !.todo = Tail(command[w].todo)].op = "deny"
      BY <3>2 DEF Denying
    <3> QED
      BY <2>4, <3>1, <3>3, <3>4
  <2>6. ASSUME NEW s \in Sessions, EndRun(s) PROVE Hidden /\ Sendings /\ Commands
    <3>1. /\ UNCHANGED <<channel, approved, contexts, pending>> /\ s \in Workers
          /\ command' = [command EXCEPT ![s] = Denial(s, FALSE)]
      BY <2>6 DEF EndRun, Workers
    <3>2. Denial(s, FALSE).op = "deny"
      BY DEF Denial
    <3> QED
      BY <2>4, <3>1, <3>2
  <2>7. ASSUME NEW k \in Slots, RecordTrust(k) PROVE Hidden /\ Sendings /\ Commands
    <3>1. k \in Workers /\ command[k] \in Responding
      BY <1>0, <2>7, CommandFields DEF RecordTrust, Workers
    <3>2. UNCHANGED <<channel, approved, contexts, pending>>
      BY <2>7 DEF RecordTrust
    <3>3. \/ command' = [command EXCEPT ![k] = NoCommand]
          \/ \E key : command' = [command EXCEPT ![k] = [command[k] EXCEPT !.keys = command[k].keys \ {key}]]
      BY <2>7 DEF RecordTrust, Ends
    <3>4. ASSUME NEW key
          PROVE  /\ [command[k] EXCEPT !.keys = command[k].keys \ {key}].op = command[k].op
                 /\ [command[k] EXCEPT !.keys = command[k].keys \ {key}].call = command[k].call
      BY <3>1 DEF Responding
    <3> QED
      BY <2>4, <3>1, <3>2, <3>3, <3>4
  <2>8. ASSUME NEW k \in Slots, RespondSends(k) \/ PrepareSends(k) PROVE Hidden /\ Sendings /\ Commands
    <3>1. /\ UNCHANGED <<channel, approved>> /\ k \in Workers
          /\ command' = [command EXCEPT ![k] = NoCommand]
          /\ pending' \subseteq pending /\ contexts' \subseteq contexts
      BY <2>8 DEF RespondSends, PrepareSends, Workers, Ends, Taken
    <3> QED
      BY <2>4, <3>1
  <2>9. ASSUME NEW a \in Agents, Loop(a) PROVE Hidden /\ Sendings /\ Commands
    <3>1. UNCHANGED <<channel, approved, contexts, command>> /\ pending' \subseteq pending
      BY <2>9 DEF Loop, CallCancelled, CallAnswered, userVars, Taken
    <3> QED
      BY <1>1, <3>1 DEF Answering
  <2>10. ASSUME (\E s \in Sessions : StartRun(s)) \/ UNCHANGED vars PROVE Hidden /\ Sendings /\ Commands
    <3>1. UNCHANGED <<channel, approved, contexts, command, pending>>
      BY <2>10 DEF StartRun, vars, userVars
    <3> QED
      BY <1>1, <3>1 DEF Answering
  <2>11. Slots \subseteq Workers /\ Sessions \subseteq Workers
    BY DEF Workers
  <2> HIDE DEF Hidden, Sendings, Commands
  <2> QED
    BY <2>1, <2>2, <2>3, <2>5, <2>6, <2>7, <2>8, <2>9, <2>10, <2>11 DEF Next, Deny, CommandStep
<1> QED
  BY <1>1, <1>2, <1>3, <1>4 DEF OnlyMadeAreKnown

-----------------------------------------------------------------------------
(***************************************************************************)
(* Who waits is asked about, and who is asked about has no answer.         *)
(***************************************************************************)
Start == \E a \in Agents : \E q \in RequestsOf[a] : StartCall(a, q) \/ StartQuestion(a, q)

LEMMA StartsByAgents ==
  [Next]_vars =>
    \/ Start
    \/ UNCHANGED request /\ (outcome' = outcome \/ \E a \in Agents : Loop(a))
BY DEF Next, vars, Start, StartRun, EndRun, Deny, DenySweeps, DenyOver, Loop, CallCancelled,
   CallAnswered, Listener, ListenPermission, ListenQuestion, CommandStep, RecordTrust,
   RespondSends, PrepareSends, User, Respond, RespondTrusting, RespondQuestion, Prepare,
   Abort, TurnedDown

LEMMA KnownOutcomes ==
  ASSUME Types, [Next]_vars, NEW c \in Known, outcome'[c] # outcome[c]
  PROVE  outcome[c] = "waiting" /\ outcome'[c] # "waiting"
<1>1. CASE Start
  <2>1. PICK a \in Agents : \E q \in RequestsOf[a] : StartCall(a, q) \/ StartQuestion(a, q)
    BY <1>1 DEF Start
  <2>2. PICK q \in RequestsOf[a] : StartCall(a, q) \/ StartQuestion(a, q)
    BY <2>1
  <2>3. Begins(a, q)
    BY <2>2 DEF StartCall, StartQuestion
  <2>4. <<a, made[a] + 1>> \notin Known
    BY <2>3, BeginsKeeps DEF Types
  <2>5. c # <<a, made[a] + 1>>
    BY <2>4
  <2>6. outcome'[c] = outcome[c]
    BY <2>2, <2>5 DEF StartCall, StartQuestion, Types, CallTypes, Known
  <2> QED
    BY <2>6
<1>2. ASSUME NEW a \in Agents, Loop(a) PROVE outcome[c] = "waiting" /\ outcome'[c] # "waiting"
  BY <1>2 DEF Loop, CallCancelled, CallAnswered, Types, CallTypes, Waiting, Known
<1> QED
  BY <1>1, <1>2, StartsByAgents

\* What pending and the questions on their way become.
AskedStays == pending' \subseteq pending /\ channel'.question = channel.question
AskedNow(c) ==
  /\ c \in Calls \ Known /\ pending' \cup Questions' \subseteq Asked \cup {c}
  /\ pending' \cap Questions' = {} /\ Distinct(channel'.question)
AskedMoves ==
  /\ pending' \cup Questions' \subseteq Asked
  /\ pending' \cap Questions' = {} /\ Distinct(channel'.question)

LEMMA AskedStep ==
  ASSUME Types, OnlyMadeAreKnown, AskedAreUnanswered, [Next]_vars
  PROVE  AskedStays \/ (\E c : AskedNow(c)) \/ AskedMoves
<1>0. /\ CallTypes /\ AskTypes /\ pending \cap Questions = {} /\ Distinct(channel.question)
      /\ pending \subseteq Known /\ Questions \subseteq Known
      /\ "question" \in Kinds /\ "permission" \in Kinds
  BY DEF Types, AskedAreUnanswered, OnlyMadeAreKnown, Questions, Kinds, Distinct
<1>1. ASSUME NEW a \in Agents, NEW q \in RequestsOf[a], StartCall(a, q)
      PROVE  AskedStays \/ \E c : AskedNow(c)
  <2> DEFINE c == <<a, made[a] + 1>>
  <2>1. Begins(a, q) /\ channel'.question = channel.question
        /\ (pending' = pending \/ pending' = pending \cup {c})
    BY <1>0, <1>1 DEF StartCall, AskTypes, Kinds
  <2>2. c \in Calls \ Known
    BY <1>0, <2>1, BeginsKeeps
  <2> HIDE DEF c
  <2>3. CASE pending' = pending
    BY <2>1, <2>3 DEF AskedStays
  <2>4. CASE pending' = pending \cup {c}
    <3>1. Questions' = Questions
      BY <2>1 DEF Questions
    <3>2. AskedNow(c)
      BY <1>0, <2>1, <2>2, <2>4, <3>1 DEF AskedNow, Asked
    <3> QED
      BY <3>2
  <2> QED
    BY <2>1, <2>3, <2>4
<1>2. ASSUME NEW a \in Agents, NEW q \in RequestsOf[a], StartQuestion(a, q)
      PROVE  \E c : AskedNow(c)
  <2> DEFINE c == <<a, made[a] + 1>>
  <2>1. Begins(a, q) /\ pending' = pending
        /\ channel' = [channel EXCEPT !["question"] = Append(channel["question"], c)]
    BY <1>2 DEF StartQuestion
  <2>2. c \in Calls \ Known
    BY <1>0, <2>1, BeginsKeeps
  <2> HIDE DEF c
  <2>3. Questions' = Questions \cup {c} /\ Distinct(channel'.question)
    BY <1>0, <2>1, <2>2, SendStep DEF Questions
  <2>4. AskedNow(c)
    BY <1>0, <2>1, <2>2, <2>3 DEF AskedNow, Asked
  <2> QED
    BY <2>4
<1>3. ASSUME ListenQuestion PROVE AskedMoves
  <2> DEFINE c == Head(channel.question)
  <2>1. /\ pending' \subseteq pending \cup {c} /\ channel.question # <<>>
        /\ channel' = [channel EXCEPT !["question"] = Tail(channel["question"])]
    BY <1>3 DEF ListenQuestion
  <2>2. Questions = {c} \cup Questions' /\ c \notin Questions' /\ Distinct(channel'.question)
    BY <1>0, <2>1, ListenStep DEF Questions
  <2> QED
    BY <1>0, <2>1, <2>2 DEF AskedMoves, Asked
<1>4. ASSUME ListenPermission PROVE AskedStays
  BY <1>0, <1>4 DEF ListenPermission, AskedStays, AskTypes, Kinds
<1>5. ASSUME ~Start, ~Listener PROVE AskedStays
  BY <1>5 DEF Next, vars, AskedStays, Start, StartRun, EndRun, Deny, DenySweeps, DenyOver, Loop,
     CallCancelled, CallAnswered, CommandStep, RecordTrust, RespondSends, PrepareSends, User,
     Respond, RespondTrusting, RespondQuestion, Prepare, Abort, TurnedDown, Taken
<1> QED
  BY <1>1, <1>2, <1>3, <1>4, <1>5 DEF Start, Listener

LEMMA AskedAreUnansweredStep ==
  ASSUME Types, OnlyMadeAreKnown, AskedAreUnanswered, [Next]_vars
  PROVE  AskedAreUnanswered'
<1>1. pending' \cap Questions' = {} /\ Distinct(channel'.question)
  <2>1. CASE AskedStays
    <3>1. Questions' = Questions
      BY <2>1 DEF AskedStays, Questions
    <3> QED
      BY <2>1, <3>1 DEF AskedStays, AskedAreUnanswered, Distinct
  <2> QED
    BY <2>1, AskedStep DEF AskedNow, AskedMoves
<1>2. Asked' \subseteq Asked \cup (Calls \ Known)
  <2>1. CASE AskedStays
    BY <2>1 DEF AskedStays, Questions, Asked
  <2> QED
    BY <2>1, AskedStep DEF AskedNow, AskedMoves, Asked
<1>3. ASSUME NEW c \in Asked', outcome'[c] = "waiting" PROVE reply'[c] = "none"
  <2>1. c \in Calls
    BY <1>2 DEF Asked, Questions, OnlyMadeAreKnown, Known, Kinds
  <2>2. reply'[c] = reply[c]
    BY <1>3, <2>1, RepliesAreToTheAsked DEF RepliesTo
  <2>3. CASE c \in Known
    <3>1. outcome[c] = "waiting"
      BY <1>3, <2>3, KnownOutcomes
    <3>2. c \in Asked
      BY <1>2, <2>3
    <3> QED
      BY <2>2, <3>1, <3>2 DEF AskedAreUnanswered
  <2>4. CASE c \notin Known
    BY <2>1, <2>2, <2>4 DEF OnlyMadeAreKnown
  <2> QED
    BY <2>3, <2>4
<1> QED
  BY <1>1, <1>3 DEF AskedAreUnanswered, Distinct

\* Who is found no more has an answer, or waits no more.
LEMMA WhoLeavesIsAnswered ==
  ASSUME Types, OnlyMadeAreKnown, AskedAreUnanswered, [Next]_vars,
         NEW c \in Known, Unanswered(c), Unanswered(c)'
  PROVE  /\ c \in pending => c \in pending'
         /\ c \in Asked => c \in Asked'
         /\ c \in pending /\ c \in ToSet(channel.permission) \cup contexts =>
              c \in ToSet(channel'.permission) \cup contexts'
<1>0. /\ CallTypes /\ AskTypes /\ UserTypes /\ "question" \in Kinds /\ "permission" \in Kinds
      /\ reply'[c] = reply[c] /\ outcome'[c] = "waiting" /\ outcome[c] = "waiting"
      /\ reply[c] = "none" /\ c \in Calls
  BY DEF Types, Unanswered, Kinds, Known
<1> DEFINE Found == /\ c \in pending => c \in pending'
                    /\ c \in Asked => c \in Asked'
                    /\ c \in pending /\ c \in ToSet(channel.permission) \cup contexts =>
                         c \in ToSet(channel'.permission) \cup contexts'
<1>1. ASSUME pending \subseteq pending', UNCHANGED <<channel, contexts>> PROVE Found
  BY <1>1 DEF Asked, Questions
<1>2. ASSUME NEW a \in Agents, NEW q \in RequestsOf[a], StartCall(a, q) \/ StartQuestion(a, q)
      PROVE  Found
  <2> DEFINE d == <<a, made[a] + 1>>
  <2>1. Begins(a, q) /\ UNCHANGED contexts /\ pending \subseteq pending'
        /\ \/ channel' = channel
           \/ channel' = [channel EXCEPT !["permission"] = Append(channel["permission"], d)]
           \/ channel' = [channel EXCEPT !["question"] = Append(channel["question"], d)]
    BY <1>2 DEF StartCall, StartQuestion
  <2>2. d \in Calls
    BY <1>0, <2>1, BeginsKeeps
  <2> HIDE DEF d
  <2>3. /\ ToSet(channel.permission) \subseteq ToSet(channel'.permission)
        /\ ToSet(channel.question) \subseteq ToSet(channel'.question)
    BY <1>0, <2>1, <2>2, SendStep
  <2> QED
    BY <2>1, <2>3 DEF Asked, Questions
<1>3. ASSUME ListenPermission PROVE Found
  <2>1. /\ channel["permission"] # <<>> /\ pending' = pending
        /\ channel' = [channel EXCEPT !["permission"] = Tail(channel["permission"])]
        /\ contexts' = contexts \cup {Head(channel["permission"])}
    BY <1>3 DEF ListenPermission
  <2>2. /\ ToSet(channel.permission) = {Head(channel.permission)} \cup ToSet(channel'.permission)
        /\ channel'["question"] = channel["question"]
    BY <1>0, <2>1, ListenStep
  <2> QED
    BY <2>1, <2>2 DEF Asked, Questions
<1>4. ASSUME ListenQuestion PROVE Found
  <2> DEFINE d == Head(channel["question"])
  <2>1. /\ channel["question"] # <<>> /\ contexts' = contexts
        /\ channel' = [channel EXCEPT !["question"] = Tail(channel["question"])]
        /\ \/ pending' = pending \cup {d}
           \/ pending' = pending
              /\ reply' = IF outcome[d] = "waiting" THEN [reply EXCEPT ![d] = "deny"] ELSE reply
    BY <1>4 DEF ListenQuestion
  <2>2. /\ ToSet(channel.question) = {d} \cup ToSet(channel'.question)
        /\ channel'["permission"] = channel["permission"]
    BY <1>0, <2>1, ListenStep
  <2>3. d # c \/ c \in pending'
    BY <1>0, <2>1 DEF CallTypes
  <2> QED
    BY <2>1, <2>2, <2>3 DEF Asked, Questions
<1>5. ASSUME NEW w \in Workers, DenySweeps(w) PROVE Found
  <2>1. UNCHANGED <<channel, contexts>>
    BY <1>5 DEF DenySweeps
  <2>2. c \in pending => c \in pending'
    BY <1>0, <1>5 DEF DenySweeps
  <2> QED
    BY <2>1, <2>2 DEF Asked, Questions
<1>6. ASSUME NEW k \in Slots, RespondSends(k) \/ PrepareSends(k) PROVE Found
  <2> DEFINE d == command[k].call
  <2>1. UNCHANGED channel /\ pending' = pending \ {d} /\ reply' = Sent(d, command[k].reply)
        /\ contexts \ {d} \subseteq contexts'
    BY <1>6 DEF RespondSends, PrepareSends, Taken
  <2>2. command[k].reply \in Answers
    <3>1. command[k] \in Responding \cup Preparing
      BY <1>0, <1>6, CommandFields DEF RespondSends, PrepareSends, Workers
    <3> QED
      BY <3>1 DEF Responding, Preparing
  <2>3. c \in pending => c # d
    BY <1>0, <2>1, <2>2 DEF Sent, CallTypes, Answers
  <2> QED
    BY <2>1, <2>3 DEF Asked, Questions
<1>7. ASSUME NEW a \in Agents, Loop(a) PROVE Found
  <2>1. UNCHANGED <<channel, contexts>>
        /\ \/ pending' = pending
           \/ /\ outcome'[<<a, made[a]>>] # "waiting"
              /\ pending' = pending \ {<<a, made[a]>>}
    <3>1. CASE CallCancelled(a)
      BY <3>1 DEF CallCancelled
    <3>2. CASE CallAnswered(a)
      <4> DEFINE d == <<a, made[a]>>
      <4>1. made[a] \in Nat /\ made[a] > 0 /\ made[a] <= MaxCalls[a]
        BY <1>0, <3>2 DEF CallAnswered, Waiting, CallTypes
      <4>2. d \in Calls
        BY <4>1, CallsAreNumbered
      <4> QED
        BY <1>0, <3>2, <4>2 DEF CallAnswered, CallTypes, Taken
    <3> QED
      BY <1>7, <3>1, <3>2 DEF Loop
  <2>2. c \in pending => c \in pending'
    BY <1>0, <2>1
  <2> QED
    BY <2>1, <2>2 DEF Asked, Questions
<1>8. ASSUME NEW k \in Slots, User(k) \/ RecordTrust(k) PROVE Found
  <2>1. UNCHANGED <<pending, channel, contexts>>
    BY <1>8, UserStep DEF RecordTrust
  <2> QED
    BY <1>1, <2>1
<1>9. ASSUME NEW w \in Workers, DenyOver(w) PROVE Found
  BY <1>1, <1>9 DEF DenyOver
<1>10. ASSUME NEW s \in Sessions, StartRun(s) \/ EndRun(s) PROVE Found
  BY <1>1, <1>10 DEF StartRun, EndRun
<1>11. ASSUME UNCHANGED vars PROVE Found
  BY <1>1, <1>11 DEF vars
<1> QED
  <2>1. Slots \subseteq Workers /\ Sessions \subseteq Workers
    BY DEF Workers
  <2> HIDE DEF Found
  <2>2. Found
    BY <1>2, <1>3, <1>4, <1>5, <1>6, <1>7, <1>8, <1>9, <1>10, <1>11, <2>1
       DEF Next, Deny, CommandStep, Listener
  <2> QED
    BY <2>2 DEF Found

LEMMA WaitingAreAskedStep ==
  ASSUME Types, OnlyMadeAreKnown, WaitingAreAsked, AskedAreUnanswered, [Next]_vars
  PROVE  WaitingAreAsked'
<1> SUFFICES ASSUME NEW c \in Calls, Unanswered(c)'
             PROVE  \/ IsQuestion(c)' /\ c \in Asked'
                    \/ ~IsQuestion(c)' /\ c \in pending'
                         /\ c \in ToSet(channel'.permission) \cup contexts'
  BY DEF WaitingAreAsked
<1>0. /\ CallTypes /\ AskTypes /\ "question" \in Kinds /\ "permission" \in Kinds
  BY DEF Types, Kinds
<1>1. CASE c \in Known
  <2>1. outcome[c] = "waiting"
    BY <1>1, KnownOutcomes DEF Unanswered
  <2>2. reply'[c] # reply[c] => reply[c] = "none"
    BY RepliesAreToTheAsked DEF RepliesTo, AskedAreUnanswered
  <2>3. Unanswered(c)
    BY <2>1, <2>2 DEF Unanswered
  <2>4. request'[c] = request[c]
    BY <1>1, StepKeeps DEF Keeps
  <2>5. \/ IsQuestion(c) /\ c \in Asked
        \/ ~IsQuestion(c) /\ c \in pending /\ c \in ToSet(channel.permission) \cup contexts
    BY <2>3 DEF WaitingAreAsked
  <2>6. /\ c \in pending => c \in pending'
        /\ c \in Asked => c \in Asked'
        /\ c \in pending /\ c \in ToSet(channel.permission) \cup contexts =>
             c \in ToSet(channel'.permission) \cup contexts'
    BY <1>1, <2>3, WhoLeavesIsAnswered
  <2>7. IsQuestion(c)' <=> IsQuestion(c)
    BY <2>4 DEF IsQuestion
  <2> QED
    BY <2>5, <2>6, <2>7
<1>2. CASE c \notin Known
  <2>1. outcome[c] = "none" /\ outcome'[c] = "waiting"
    BY <1>2 DEF OnlyMadeAreKnown, Unanswered
  <2>2. ASSUME NEW a \in Agents, Loop(a) PROVE outcome'[c] = outcome[c]
    BY <1>0, <2>1, <2>2 DEF Loop, CallCancelled, CallAnswered, CallTypes, Waiting
  <2>3. Start
    BY <2>1, <2>2, StartsByAgents
  <2>4. PICK a \in Agents : \E q \in RequestsOf[a] : StartCall(a, q) \/ StartQuestion(a, q)
    BY <2>3 DEF Start
  <2>5. PICK q \in RequestsOf[a] : StartCall(a, q) \/ StartQuestion(a, q)
    BY <2>4
  <2>6. Begins(a, q)
    BY <2>5 DEF StartCall, StartQuestion
  <2>7. c = <<a, made[a] + 1>>
    BY <1>0, <2>1, <2>5 DEF StartCall, StartQuestion, CallTypes
  <2>8. request'[c] = q
    BY <1>0, <2>6, <2>7, BeginsKeeps
  <2>9. CASE StartCall(a, q)
    <3>1. /\ q.tool # "askUserQuestion"
          /\ \/ outcome' = [outcome EXCEPT ![c] = IF Says(config, q, "allow") THEN "ruled in" ELSE "blocked"]
             \/ /\ pending' = pending \cup {c}
                /\ channel' = [channel EXCEPT !["permission"] = Append(channel["permission"], c)]
      BY <2>7, <2>9 DEF StartCall
    <3>2. outcome' # [outcome EXCEPT ![c] = IF Says(config, q, "allow") THEN "ruled in" ELSE "blocked"]
      BY <1>0, <2>1 DEF CallTypes
    <3>3. channel' = [channel EXCEPT !["permission"] = Append(channel["permission"], c)]
      BY <3>1, <3>2
    <3>4. c \in ToSet(channel'.permission)
      <4>1. ToSet(channel'["permission"]) = ToSet(channel["permission"]) \cup {c}
        BY <1>0, <3>3, SendStep, Zenon
      <4> QED
        BY <4>1
    <3> QED
      BY <2>8, <3>1, <3>2, <3>4 DEF IsQuestion
  <2>10. CASE StartQuestion(a, q)
    <3>1. q.tool = "askUserQuestion"
      BY <2>10 DEF StartQuestion
    <3>3. channel' = [channel EXCEPT !["question"] = Append(channel["question"], c)]
      BY <2>7, <2>10 DEF StartQuestion
    <3>2. c \in ToSet(channel'.question)
      <4>1. ToSet(channel'["question"]) = ToSet(channel["question"]) \cup {c}
        BY <1>0, <3>3, SendStep, Zenon
      <4> QED
        BY <4>1
    <3> QED
      BY <2>8, <3>1, <3>2 DEF IsQuestion, Asked, Questions
  <2> QED
    BY <2>5, <2>9, <2>10
<1> QED
  BY <1>1, <1>2

-----------------------------------------------------------------------------
(***************************************************************************)
(* Who is told yes was permitted.                                          *)
(***************************************************************************)
LEMMA PermittedStays ==
  ASSUME Types, [Next]_vars, NEW c \in Known, Permitted(c)
  PROVE  Permitted(c)'
BY StepKeeps DEF Keeps, Permitted

\* A command that goes on says what it said; one that begins is meant.
LEMMA CommandsAreMeant ==
  ASSUME Types, OnlyMadeAreKnown, YesIsPermission, [Next]_vars,
         NEW w \in Workers, Answering(w)', command'[w].reply = "allow"
  PROVE  Permitted(command[w].call)'
<1>0. CallTypes /\ UserTypes /\ Slots \subseteq Workers /\ Sessions \subseteq Workers
  BY DEF Types, Workers
<1> DEFINE Same == Answering(w) /\ command[w].reply = "allow" /\ command[w].call = command'[w].call
<1>1. ASSUME Same PROVE Permitted(command[w].call)'
  <2>1. command[w].call \in Known /\ Permitted(command[w].call)
    BY <1>1 DEF OnlyMadeAreKnown, YesIsPermission
  <2>2. Permitted(command[w].call)'
    <3> DEFINE c == command[w].call
    <3>1. c \in Known /\ Permitted(c)
      BY <2>1
    <3> HIDE DEF c
    <3>2. approved \subseteq approved' /\ request'[c] = request[c]
          /\ \A q : Says(config, q, "allow") => Says(config', q, "allow")
      BY <3>1, StepKeeps DEF Keeps
    <3>3. c \in approved' \/ Says(config', request'[c], "allow")
      BY <3>1, <3>2 DEF Permitted
    <3> QED
      BY <1>1, <3>3 DEF Permitted, c
  <2> QED
    BY <1>1, <2>2
<1>2. ASSUME NEW k \in Slots, User(k) PROVE Permitted(command[w].call)'
  <2>1. PICK cmd : /\ command' = [command EXCEPT ![k] = cmd]
                   /\ \/ cmd.op \in {"none", "deny"} /\ approved' = approved
                      \/ cmd.op \in {"respond", "prepare"} /\ AnswerIsMeant(cmd)
    BY <1>2, UserStep
  <2>2. UNCHANGED <<request, config>>
    BY <1>2, UserStep
  <2>3. CASE w = k
    <3>1. command'[w] = cmd
      BY <1>0, <2>1, <2>3 DEF UserTypes
    <3>2. AnswerIsMeant(cmd) /\ cmd.reply = "allow"
      BY <2>1, <3>1 DEF Answering
    <3> QED
      BY <2>2, <3>1, <3>2 DEF AnswerIsMeant, Permitted
  <2>4. CASE w # k
    <3>1. command'[w] = command[w]
      BY <1>0, <2>1, <2>4 DEF UserTypes
    <3>2. Same
      BY <3>1 DEF Answering
    <3> QED
      BY <1>1, <3>2
  <2> QED
    BY <2>3, <2>4
<1>3. ASSUME NEW v \in Workers, NEW new, command' = [command EXCEPT ![v] = new],
             new.op \in {"none", "deny"}
      PROVE  Same
  <2>1. v # w
    BY <1>0, <1>3 DEF Answering, UserTypes
  <2>2. command'[w] = command[w]
    BY <1>0, <1>3, <2>1 DEF UserTypes
  <2> QED
    BY <2>2 DEF Answering
<1>4. ASSUME NEW v \in Workers, command' = [command EXCEPT ![v] = NoCommand] PROVE Same
  BY <1>3, <1>4, NoCommandIsNone
<1>5. ASSUME NEW v \in Workers, DenySweeps(v) \/ DenyOver(v) PROVE Same
  <2>1. command[v] \in Denying
    BY <1>0, <1>5, CommandFields DEF DenySweeps, DenyOver
  <2>2. \/ command' = [command EXCEPT ![v] = NoCommand]
        \/ command' = [command EXCEPT ![v] = [command[v] EXCEPT !.todo = Tail(command[v].todo)]]
    BY <1>5 DEF DenySweeps, DenyOver, Ends
  <2>3. [command[v] EXCEPT !.todo = Tail(command[v].todo)].op = "deny"
    BY <2>1 DEF Denying
  <2> QED
    BY <1>3, <1>4, <2>2, <2>3
<1>6. ASSUME NEW s \in Sessions, EndRun(s) PROVE Same
  <2>1. command' = [command EXCEPT ![s] = Denial(s, FALSE)] /\ Denial(s, FALSE).op = "deny"
    BY <1>6 DEF EndRun, Denial
  <2> QED
    BY <1>0, <1>3, <2>1
<1>7. ASSUME NEW k \in Slots, RecordTrust(k) PROVE Same
  <2>1. command[k] \in Responding
    BY <1>0, <1>7, CommandFields DEF RecordTrust
  <2>2. CASE command' = [command EXCEPT ![k] = NoCommand]
    BY <1>0, <1>4, <2>2
  <2>3. ASSUME NEW key, command' = [command EXCEPT ![k] = [command[k] EXCEPT !.keys = command[k].keys \ {key}]]
        PROVE  Same
    <3> DEFINE new == [command[k] EXCEPT !.keys = command[k].keys \ {key}]
    <3>1. new.op = command[k].op /\ new.call = command[k].call /\ new.reply = command[k].reply
      BY <2>1 DEF Responding
    <3> HIDE DEF new
    <3>2. command'[w] = command[w] \/ (k = w /\ command'[w] = new)
      BY <1>0, <2>3 DEF UserTypes, new
    <3> QED
      BY <3>1, <3>2 DEF Answering
  <2> QED
    BY <1>7, <2>2, <2>3 DEF RecordTrust, Ends
<1>8. ASSUME NEW k \in Slots, RespondSends(k) \/ PrepareSends(k) PROVE Same
  BY <1>0, <1>4, <1>8 DEF RespondSends, PrepareSends, Ends
<1>9. ASSUME command' = command PROVE Same
  BY <1>9 DEF Answering
<1>10. ASSUME Start \/ Listener \/ (\E a \in Agents : Loop(a)) \/ (\E s \in Sessions : StartRun(s))
              \/ UNCHANGED vars
       PROVE  command' = command
  BY <1>10 DEF Start, Listener, StartCall, StartQuestion, ListenPermission, ListenQuestion, Loop,
               CallCancelled, CallAnswered, StartRun, vars, userVars
<1> HIDE DEF Same
<1> QED
  BY <1>0, <1>1, <1>2, <1>5, <1>6, <1>7, <1>8, <1>9, <1>10 DEF Next, Start, Deny, CommandStep

\* What is sent is what was meant.
LEMMA YesWasMeant ==
  ASSUME Types, OnlyMadeAreKnown, AskedAreUnanswered, YesIsPermission, [Next]_vars,
         NEW c \in Calls, reply'[c] # reply[c], reply'[c] = "allow"
  PROVE  c \in Known /\ Permitted(c)
<1>0. CallTypes /\ UserTypes
  BY DEF Types
<1>1. ASSUME NEW w \in Workers, RespondSends(w) \/ PrepareSends(w) PROVE c \in Known /\ Permitted(c)
  <2>1. Answering(w) /\ reply' = Sent(command[w].call, command[w].reply)
    BY <1>1 DEF RespondSends, PrepareSends, Answering
  <2>2. c = command[w].call /\ command[w].reply = "allow"
    BY <1>0, <2>1 DEF Sent, CallTypes
  <2> QED
    BY <2>1, <2>2 DEF OnlyMadeAreKnown, YesIsPermission
<1>2. ASSUME NEW w \in Workers, DenySweeps(w) PROVE FALSE
  BY <1>0, <1>2 DEF DenySweeps, CallTypes
<1>3. ASSUME ListenQuestion PROVE FALSE
  BY <1>0, <1>3 DEF ListenQuestion, CallTypes
<1>4. ASSUME reply' = reply PROVE FALSE
  BY <1>4
<1>5. \/ reply' = reply \/ ListenQuestion
      \/ \E w \in Slots \cup Sessions : DenySweeps(w)
      \/ \E w \in Slots : RespondSends(w) \/ PrepareSends(w)
  BY DEF Next, vars, StartRun, EndRun, Deny, DenyOver, StartCall, StartQuestion, Loop,
     CallCancelled, CallAnswered, Listener, ListenPermission, CommandStep, RecordTrust, User,
     Respond, RespondTrusting, RespondQuestion, Prepare, Abort, TurnedDown
<1> QED
  BY <1>1, <1>2, <1>3, <1>4, <1>5 DEF Workers

LEMMA YesIsPermissionStep ==
  ASSUME Types, OnlyMadeAreKnown, AskedAreUnanswered, YesIsPermission, [Next]_vars
  PROVE  YesIsPermission'
<1>0. CallTypes /\ UserTypes /\ Keeps
  BY StepKeeps DEF Types
<1>1. ASSUME NEW c \in Calls, reply'[c] = "allow" PROVE Permitted(c)'
  <2>1. c \in Known /\ Permitted(c)
    <3>1. CASE reply'[c] = reply[c]
      BY <1>1, <3>1 DEF YesIsPermission, OnlyMadeAreKnown
    <3>2. CASE reply'[c] # reply[c]
      BY <1>1, <3>2, YesWasMeant
    <3> QED
      BY <3>1, <3>2
  <2> QED
    BY <2>1, PermittedStays
<1>2. ASSUME NEW c \in Calls, outcome'[c] \in {"ruled in", "allowed"} PROVE Permitted(c)'
  <2>1. CASE outcome'[c] = outcome[c]
    <3>1. c \in Known /\ Permitted(c)
      BY <1>2, <2>1 DEF YesIsPermission, OnlyMadeAreKnown
    <3> QED
      BY <3>1, PermittedStays
  <2>2. CASE outcome'[c] # outcome[c] /\ ~Start
    <3>1. PICK a \in Agents : Loop(a)
      BY <2>2, StartsByAgents
    <3>2. reply[c] = "allow"
      BY <1>0, <1>2, <2>2, <3>1 DEF Loop, CallCancelled, CallAnswered, CallTypes
    <3>3. c \in Known /\ Permitted(c)
      BY <3>2 DEF YesIsPermission, OnlyMadeAreKnown
    <3> QED
      BY <3>3, PermittedStays
  <2>3. CASE outcome'[c] # outcome[c] /\ Start
    <3>1. PICK a \in Agents : \E q \in RequestsOf[a] : StartCall(a, q) \/ StartQuestion(a, q)
      BY <2>3 DEF Start
    <3>2. PICK q \in RequestsOf[a] : StartCall(a, q) \/ StartQuestion(a, q)
      BY <3>1
    <3>3. Begins(a, q)
      BY <3>2 DEF StartCall, StartQuestion
    <3>4. c = <<a, made[a] + 1>>
      BY <1>0, <2>3, <3>2 DEF StartCall, StartQuestion, CallTypes
    <3>5. request'[c] = q
      BY <1>0, <3>3, <3>4, BeginsKeeps
    <3>6. StartCall(a, q) /\ Says(config, q, "allow")
      BY <1>0, <1>2, <3>2, <3>4 DEF StartCall, StartQuestion, CallTypes
    <3> QED
      BY <1>0, <3>5, <3>6 DEF Keeps, Permitted
  <2> QED
    BY <2>1, <2>2, <2>3
<1>3. \A w \in Workers : Answering(w)' /\ command'[w].reply = "allow" => Permitted(command[w].call)'
  BY CommandsAreMeant
<1> QED
  BY <1>1, <1>2, <1>3 DEF YesIsPermission

-----------------------------------------------------------------------------
(***************************************************************************)
(* The invariant.                                                          *)
(***************************************************************************)
LEMMA ApprovalIInvInit == Init => ApprovalIInv
<1> SUFFICES ASSUME Init PROVE ApprovalIInv
  OBVIOUS
<1>1. Types
  BY TypesInit
<1>2. \A kind \in Kinds : channel[kind] = <<>>
  BY DEF Init
<1>3. \A kind \in Kinds : ToSet(channel[kind]) = {}
  BY <1>2 DEF ToSet
<1>4. Asked = {} /\ Questions = {} /\ channel.question = <<>>
  BY <1>2, <1>3 DEF Asked, Questions, Init, Kinds
<1>5. \A w \in Workers : ~Answering(w)
  BY NoCommandIsNone DEF Init, Answering
<1>6. \A c \in Calls : outcome[c] = "none" /\ reply[c] = "none"
  BY DEF Init
<1>7. OnlyMadeAreKnown
  BY <1>3, <1>5, <1>6 DEF OnlyMadeAreKnown, Init
<1>8. WaitingAreAsked /\ AskedAreUnanswered
  BY <1>4, <1>6 DEF WaitingAreAsked, AskedAreUnanswered, Unanswered
<1>9. YesIsPermission
  BY <1>5, <1>6 DEF YesIsPermission
<1> QED
  BY <1>1, <1>7, <1>8, <1>9 DEF ApprovalIInv

LEMMA ApprovalIInvHolds == Spec => []ApprovalIInv
<1>1. ApprovalIInv /\ [Next]_vars => ApprovalIInv'
  <2> SUFFICES ASSUME ApprovalIInv, [Next]_vars PROVE ApprovalIInv'
    OBVIOUS
  <2>1. Types'
    BY TypesStep DEF ApprovalIInv
  <2>2. OnlyMadeAreKnown' /\ WaitingAreAsked' /\ AskedAreUnanswered' /\ YesIsPermission'
    BY OnlyMadeStep, WaitingAreAskedStep, AskedAreUnansweredStep, YesIsPermissionStep
       DEF ApprovalIInv
  <2> QED
    BY <2>1, <2>2 DEF ApprovalIInv
<1> QED
  BY <1>1, ApprovalIInvInit, PTL DEF Spec

LEMMA ApprovalIInvImplies == ApprovalIInv => ApprovalInvariant
<1> SUFFICES ASSUME ApprovalIInv PROVE ApprovalInvariant
  OBVIOUS
<1>0. RunTypes /\ CallTypes /\ AskTypes /\ UserTypes
  BY DEF ApprovalIInv, Types
<1>1. TypeOK
  <2>1. \A s \in Sessions : prompts[s] \in 0..MaxPrompts[s]
    <3>1. \A s \in Sessions : MaxPrompts[s] \in Nat
      BY ApprovalAssumption
    <3> QED
      BY <1>0, <3>1 DEF RunTypes
  <2>2. \A a \in Agents : made[a] \in 0..MaxCalls[a]
    <3>1. \A a \in Agents : MaxCalls[a] \in Nat
      BY ApprovalAssumption
    <3> QED
      BY <1>0, <3>1 DEF CallTypes
  <2>3. \A kind \in Kinds : ToSet(channel[kind]) \subseteq Calls
    BY DEF ApprovalIInv, OnlyMadeAreKnown, Known
  <2>4. \A w \in Workers : command[w].op \in {"none", "respond", "prepare", "deny"}
    BY <1>0, CommandFields
  <2>5. /\ running \subseteq Sessions /\ cancelled \in [Sessions -> BOOLEAN]
        /\ request \in [Calls -> Requests \cup {NoRequest}]
        /\ outcome \in [Calls -> {"none", "waiting", "ruled in", "blocked", "allowed",
                                  "denied", "dropped"}]
        /\ reply \in [Calls -> {"none", "allow", "deny"}]
        /\ pending \cup contexts \cup approved \subseteq Calls
        /\ commands \in 0..MaxCommands
    <3>1. Answers \cup {"none"} = {"none", "allow", "deny"}
      BY DEF Answers
    <3> QED
      BY <1>0, <3>1 DEF RunTypes, CallTypes, AskTypes, UserTypes, Outcomes
  <2> QED
    BY <2>1, <2>2, <2>3, <2>4, <2>5 DEF TypeOK
<1>2. UserCanAnswer
  <2> SUFFICES ASSUME NEW a \in Agents, Waiting(a), reply[<<a, made[a]>>] = "none"
               PROVE  LET c == <<a, made[a]>>
                      IN  \/ c \in ToSet(channel[Kind(c)])
                          \/ c \in pending /\ (c \in contexts \/ IsQuestion(c))
    BY DEF UserCanAnswer
  <2> DEFINE c == <<a, made[a]>>
  <2>1. made[a] \in Nat /\ made[a] > 0 /\ made[a] <= MaxCalls[a]
    BY <1>0 DEF CallTypes, Waiting
  <2>2. c \in Calls /\ Unanswered(c)
    BY <2>1, CallsAreNumbered DEF Unanswered, Waiting
  <2> HIDE DEF c
  <2>3. \/ IsQuestion(c) /\ c \in Asked
        \/ ~IsQuestion(c) /\ c \in pending /\ c \in ToSet(channel.permission) \cup contexts
    BY <2>2 DEF ApprovalIInv, WaitingAreAsked
  <2>4. \/ c \in ToSet(channel[Kind(c)])
        \/ c \in pending /\ (c \in contexts \/ IsQuestion(c))
    BY <2>3 DEF Kind, Asked, Questions
  <2> QED
    BY <2>4 DEF c
<1>3. RunsWithPermission
  BY DEF RunsWithPermission, ApprovalIInv, YesIsPermission, Permitted
<1> QED
  BY <1>1, <1>2, <1>3 DEF ApprovalInvariant

(***************************************************************************)
(* A call that waits for the user, and has neither an answer nor a         *)
(* cancelled token, is on its way to the window or can be answered there;  *)
(* and a call runs only if the user said yes to it or the rules, with what *)
(* the user has come to trust, allow it (permission hook of run.rs, the    *)
(* commands and maps of state.rs and commands.rs).                         *)
(***************************************************************************)
THEOREM CallsAreShownAndPermitted == Spec => []ApprovalInvariant
<1> QED
  BY ApprovalIInvHolds, ApprovalIInvImplies, PTL

(***************************************************************************)
(* A call is answered once, while it waits, and what denies the calls of a *)
(* session answers that session's only (deny_pending_approvals).           *)
(***************************************************************************)
THEOREM EachIsAnsweredOnce == Spec => AnsweredOnceByItsOwn
<1>1. ApprovalIInv /\ [Next]_vars =>
        [\A c \in Calls : reply[c] # reply'[c] =>
           /\ reply[c] = "none" /\ outcome[c] = "waiting"
           /\ \A w \in Workers : command[w].op = "deny" /\ command[w] # command'[w] =>
                command[w].session = Session(c)]_vars
  <2> SUFFICES ASSUME ApprovalIInv, [Next]_vars, NEW c \in Calls, reply[c] # reply'[c]
               PROVE  /\ reply[c] = "none" /\ outcome[c] = "waiting"
                      /\ \A w \in Workers : command[w].op = "deny" /\ command[w] # command'[w] =>
                           command[w].session = Session(c)
    OBVIOUS
  <2>1. RepliesTo(c)
    BY RepliesAreToTheAsked DEF ApprovalIInv
  <2>2. reply[c] = "none"
    BY <2>1 DEF RepliesTo, ApprovalIInv, AskedAreUnanswered
  <2> QED
    BY <2>1, <2>2 DEF RepliesTo, Concerns
<1> QED
  BY <1>1, ApprovalIInvHolds, PTL DEF Spec, AnsweredOnceByItsOwn

(***************************************************************************)
(* What the user trusts is narrow, for all rules, keys and requests: a     *)
(* command of several parts is allowed only if each of them is by itself,  *)
(* and a trusted key changes a verdict only from asking to allowing, of a  *)
(* request it matches (record_project_approval, rules_cover_request).      *)
(***************************************************************************)
THEOREM TrustingIsNarrow == Spec => TrustIsNarrow
<1> DEFINE Parts == config # config' => \A q \in Requests :
                      IsBash(q) /\ Says(config', q, "allow") =>
                        \A part \in Segments(q) :
                          Evaluate(config', {}, [q EXCEPT !.text = part]) = "allow"
           Widened == config # config' => \A q \in Requests :
                        \/ \E verdict \in {"allow", "ask", "block"} :
                             Says(config, q, verdict) /\ Says(config', q, verdict)
                        \/ /\ Says(config, q, "ask") /\ Says(config', q, "allow")
                           /\ RulesMatchAny(config'.allow \ config.allow, q)
<1>1. ApprovalIInv /\ [Next]_vars => Parts
  <2> SUFFICES ASSUME ApprovalIInv, [Next]_vars, config # config', NEW q \in Requests, IsBash(q),
                      Says(config', q, "allow"), NEW part \in Segments(q)
               PROVE  Evaluate(config', {}, [q EXCEPT !.text = part]) = "allow"
    OBVIOUS
  <2>1. Evaluate(config', {}, q) = "allow"
    BY SaidOfRequests, SaysIsTheVerdict
  <2>2. /\ q = [tool |-> q.tool, text |-> q.text, plain |-> q.plain, nested |-> q.nested]
        /\ q.text \in Seq(ToSet(q.text))
    BY RequestAssumption
  <2> QED
    BY <2>1, <2>2, PartsFollow
<1>2. ApprovalIInv /\ [Next]_vars => Widened
  <2> SUFFICES ASSUME ApprovalIInv, [Next]_vars, config # config', NEW q \in Requests
               PROVE  \/ \E verdict \in {"allow", "ask", "block"} :
                           Says(config, q, verdict) /\ Says(config', q, verdict)
                      \/ /\ Says(config, q, "ask") /\ Says(config', q, "allow")
                         /\ RulesMatchAny(config'.allow \ config.allow, q)
    OBVIOUS
  <2>1. Widens(config, config') /\ config \in Configs /\ config' \in Configs
    BY ConfigStep DEF ApprovalIInv
  <2>2. \A v : /\ Says(config, q, v) <=> Evaluate(config, {}, q) = v
               /\ Says(config', q, v) <=> Evaluate(config', {}, q) = v
    BY <2>1, SaysIsTheVerdict
  <2>3. /\ Evaluate(config, {}, q) \in {"allow", "ask", "block"}
        /\ \/ Evaluate(config', {}, q) = Evaluate(config, {}, q)
           \/ /\ Evaluate(config, {}, q) = "ask" /\ Evaluate(config', {}, q) = "allow"
              /\ RulesMatchAny(config'.allow \ config.allow, q)
    BY <2>1, VerdictsWiden
  <2> QED
    BY <2>2, <2>3, Zenon
<1>3. Spec => PartsAreAllowed
  <2> HIDE DEF Parts
  <2>1. ApprovalIInv /\ [Next]_vars => [Parts]_vars
    BY <1>1
  <2>2. Spec => [][Parts]_vars
    BY <2>1, ApprovalIInvHolds, PTL DEF Spec
  <2> QED
    BY <2>2 DEF Parts, PartsAreAllowed
<1>4. Spec => TrustOnlyWidens
  <2> HIDE DEF Widened
  <2>1. ApprovalIInv /\ [Next]_vars => [Widened]_vars
    BY <1>2
  <2>2. Spec => [][Widened]_vars
    BY <2>1, ApprovalIInvHolds, PTL DEF Spec
  <2> QED
    BY <2>2 DEF Widened, TrustOnlyWidens
<1> QED
  BY <1>3, <1>4 DEF TrustIsNarrow
=============================================================================
