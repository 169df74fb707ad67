------------------------------ MODULE Approvals ------------------------------
(***************************************************************************)
(* Tool calls that need the user: the permission hook of a session, which  *)
(* its subagents share, and the askUserQuestion tool; the listeners that   *)
(* show their requests; the commands by which the user answers; and what   *)
(* denies the requests of a session when its prompt ends or is aborted.    *)
(*                                                                         *)
(* A call is known by its agent and its number.  It waits on a one-shot    *)
(* channel: "reply" is what was sent, and a sender whose call waits no     *)
(* more is dead.  The commands run concurrently, and so do the loops.      *)
(***************************************************************************)
EXTENDS Permissions, FiniteSets

CONSTANTS
  Sessions,
  Agents,           \* the loops: a session's own and its subagents'
  SessionOf,        \* [Agents -> Sessions]
  Mains,            \* the agents that are a session's own loop
  MaxCalls,         \* [Agents -> Nat]: bound on the calls of an agent
  MaxPrompts,       \* [Sessions -> Nat]: bound on the prompts that run
  RequestsOf,       \* [Agents -> sets of the calls its model may make]
  Samples,          \* further requests to compare verdicts of
  Slots,            \* bound on the commands of the user at work at a time
  MaxCommands,      \* bound on the commands of the user
  Trustable,        \* bound: the keys the user ever trusts
  FirstConfig       \* the rules at the start

ASSUME ApprovalAssumption ==
  /\ SessionOf \in [Agents -> Sessions] /\ MaxCalls \in [Agents -> Nat]
  /\ Mains \subseteq Agents /\ MaxPrompts \in [Sessions -> Nat] /\ MaxCommands \in Nat
  /\ FirstConfig = [mode |-> FirstConfig.mode, deny |-> FirstConfig.deny,
                    ask |-> FirstConfig.ask, allow |-> FirstConfig.allow]

Requests == Samples \cup UNION {RequestsOf[a] : a \in Agents}

\* A request of a shell command has its fields, and its text is a sequence of words.
ASSUME RequestAssumption ==
  \A q \in Requests : IsBash(q) =>
    /\ q = [tool |-> q.tool, text |-> q.text, plain |-> q.plain, nested |-> q.nested]
    /\ q.text \in Seq(ToSet(q.text))

VARIABLES
  running,    \* the sessions with a prompt at work
  prompts,    \* prompts that ran, per session
  cancelled,  \* the token of the session's run
  made,       \* calls made, per agent
  request,    \* what a call wants
  outcome,    \* of a call: "none", "waiting", or how it ended
  pending,    \* pending_approvals and pending_user_questions: the senders
  reply,      \* what was sent to a call
  channel,    \* requests on their way to the two listeners
  contexts,   \* pending_permission_contexts
  offered,    \* the trust keys a context holds
  config,     \* mode and rules in memory
  command,    \* the commands at work, and the ends of prompts
  commands,   \* commands started
  approved    \* history: the calls the user said yes to

vars == <<running, prompts, cancelled, made, request, outcome, pending, reply, channel,
          contexts, offered, config, command, commands, approved>>

Calls == UNION {{<<a, n>> : n \in 1..MaxCalls[a]} : a \in Agents}
Session(c) == SessionOf[c[1]]

(***************************************************************************)
(* The verdicts, and the keys offered, under every set of rules the bounds *)
(* reach: tables, so that each is computed once.  The app records no       *)
(* session trust: the controller's session keys are empty.                 *)
(***************************************************************************)
Configs ==
  {[FirstConfig EXCEPT !.allow = @ \cup {RuleOfKey(k) : k \in keys}] : keys \in SUBSET Trustable}
Verdicts == {<<rules, q, Evaluate(rules, {}, q)>> : rules \in Configs, q \in Requests}
Says(rules, q, verdict) == <<rules, q, verdict>> \in Verdicts

Offers == UNION {{<<rules, q, key>> : key \in UNION TrustGroups(rules, {}, q)} :
                   rules \in Configs, q \in Requests}
Offer(rules, q) == {key \in Trustable : <<rules, q, key>> \in Offers}

IsQuestion(c) == request[c].tool = "askUserQuestion"
Kinds == {"permission", "question"}
Kind(c) == IF IsQuestion(c) THEN "question" ELSE "permission"
Waiting(a) == made[a] > 0 /\ outcome[<<a, made[a]>>] = "waiting"
\* Faulty variants: the session's part of the key is ignored; only the
\* session's own loop is thought of.
PendingOfAny(s, kind) == {c \in pending : Kind(c) = kind}
PendingOfMain(s, kind) == {c \in pending : Session(c) = s /\ Kind(c) = kind /\ c[1] \in Mains}

PendingOf(s, kind) == {c \in pending : Session(c) = s /\ Kind(c) = kind}
Workers == Slots \cup Sessions
NoCommand == [op |-> "none"]
NoRequest == [tool |-> "none"]

Init ==
  /\ running = {} /\ approved = {}
  /\ prompts = [s \in Sessions |-> 0]
  /\ cancelled = [s \in Sessions |-> FALSE]
  /\ made = [a \in Agents |-> 0]
  /\ request = [c \in Calls |-> NoRequest]
  /\ outcome = [c \in Calls |-> "none"]
  /\ pending = {} /\ contexts = {} /\ channel = [kind \in Kinds |-> <<>>]
  /\ reply = [c \in Calls |-> "none"]
  /\ offered = [c \in Calls |-> {}]
  /\ config = FirstConfig
  /\ command = [w \in Workers |-> NoCommand] /\ commands = 0

userVars == <<command, commands, approved>>
runVars == <<running, prompts, cancelled>>

(***************************************************************************)
(* Taking a sender out of its map and sending to it.  The call gets it if  *)
(* it still waits.                                                         *)
(***************************************************************************)
Taken(c) == pending \ {c}
Sent(c, r) ==
  IF c \in pending /\ outcome[c] = "waiting" THEN [reply EXCEPT ![c] = r] ELSE reply

\* Which slot a command takes says nothing of the code.
Starts(k, cmd) ==
  /\ k = CHOOSE free \in Slots : command[free] = NoCommand
  /\ commands < MaxCommands
  /\ command' = [command EXCEPT ![k] = cmd]
  /\ commands' = commands + 1

Ends(k) ==
  /\ command' = [command EXCEPT ![k] = NoCommand]
  /\ UNCHANGED commands

-----------------------------------------------------------------------------
(* The loops.                                                              *)

StartRun(s) ==
  /\ s \notin running /\ prompts[s] < MaxPrompts[s]
  /\ running' = running \cup {s}
  /\ prompts' = [prompts EXCEPT ![s] = @ + 1]
  /\ cancelled' = [cancelled EXCEPT ![s] = FALSE]
  /\ UNCHANGED <<made, request, outcome, pending, reply, channel, contexts,
                 offered, config, userVars>>

\* A subagent's loop has a token of its own, and may outlive the prompt.
IsCancelled(a) == a \in Mains /\ cancelled[SessionOf[a]]

Begins(a, q) ==
  /\ ~Waiting(a) /\ made[a] < MaxCalls[a] /\ ~IsCancelled(a)
  /\ a \in Mains => SessionOf[a] \in running
  /\ made' = [made EXCEPT ![a] = @ + 1]
  /\ request' = [request EXCEPT ![<<a, made[a] + 1>>] = q]

\* The hook, as far as it gets without waiting.
StartCall(a, q) ==
  LET c == <<a, made[a] + 1>>
  IN  /\ Begins(a, q) /\ q.tool # "askUserQuestion"
      /\ \/ /\ ~Says(config, q, "ask")
            /\ outcome' = [outcome EXCEPT ![c] = IF Says(config, q, "allow") THEN "ruled in"
                                              ELSE "blocked"]
            /\ UNCHANGED <<pending, offered, channel>>
         \/ /\ Says(config, q, "ask")
            /\ outcome' = [outcome EXCEPT ![c] = "waiting"]
            /\ pending' = pending \cup {c}
            /\ offered' = [offered EXCEPT ![c] = Offer(config, q)]
            /\ channel' = [channel EXCEPT !.permission = Append(@, c)]
      /\ UNCHANGED <<reply, contexts, config, runVars, userVars>>

\* The tool sends its question and its sender together.
StartQuestion(a, q) ==
  LET c == <<a, made[a] + 1>> IN
  /\ Begins(a, q) /\ q.tool = "askUserQuestion" /\ a \in Mains
  /\ outcome' = [outcome EXCEPT ![c] = "waiting"]
  /\ channel' = [channel EXCEPT !.question = Append(@, c)]
  /\ UNCHANGED <<pending, offered, reply, contexts, config, runVars, userVars>>

\* The loop polls its token before the hook's future, and drops the future:
\* nothing is removed.  A question returns likewise.
CallCancelled(a) ==
  /\ Waiting(a) /\ IsCancelled(a)
  /\ outcome' = [outcome EXCEPT ![<<a, made[a]>>] = "dropped"]
  /\ UNCHANGED <<made, request, pending, reply, channel, contexts, offered,
                 config, runVars, userVars>>

CallAnswered(a) ==
  LET c == <<a, made[a]>> IN
  /\ Waiting(a) /\ ~IsCancelled(a) /\ reply[c] # "none"
  /\ outcome' = [outcome EXCEPT ![c] = IF reply[c] = "allow" THEN "allowed" ELSE "denied"]
  /\ pending' = Taken(c)
  /\ UNCHANGED <<made, request, reply, channel, contexts, offered, config,
                 runVars, userVars>>

(***************************************************************************)
(* When prompt() returns, the task that called it denies the session's     *)
(* approvals, its subagents' too, and cancels its questions.  By then the  *)
(* next prompt may run.  A prompt that is turned down because one is       *)
(* running ends the same way.  One such task of a session is at work at a  *)
(* time.  Each of the two sweeps is one step: a call is in it or not, and  *)
(* who takes a sender first answers.                                       *)
(***************************************************************************)
DeniedKinds == <<"permission", "question">>
Denial(s, fires) == [op |-> "deny", session |-> s, fires |-> fires, todo |-> DeniedKinds]

EndRun(s) ==
  /\ s \in running /\ command[s] = NoCommand
  /\ \A a \in Mains : SessionOf[a] = s => ~Waiting(a)
  /\ running' = running \ {s}
  /\ command' = [command EXCEPT ![s] = Denial(s, FALSE)]
  /\ UNCHANGED <<prompts, cancelled, made, request, outcome, pending, reply,
                 channel, contexts, offered, config, commands, approved>>

DenySweeps(w) ==
  /\ command[w].op = "deny" /\ command[w].todo # <<>>
  /\ LET swept == PendingOf(command[w].session, Head(command[w].todo)) IN
       /\ reply' = [c \in Calls |->
                     IF c \in swept /\ outcome[c] = "waiting" THEN "deny" ELSE reply[c]]
       /\ pending' = pending \ swept
  /\ command' = [command EXCEPT ![w].todo = Tail(@)]
  /\ UNCHANGED <<made, request, outcome, channel, contexts, offered, commands,
                 approved, config, runVars>>

\* abort then fires the token of the prompt that runs now.
DenyOver(w) ==
  /\ command[w].op = "deny" /\ command[w].todo = <<>>
  /\ LET s == command[w].session IN
       cancelled' = [cancelled EXCEPT ![s] = @ \/ (command[w].fires /\ s \in running)]
  /\ Ends(w)
  /\ UNCHANGED <<running, prompts, made, request, outcome, pending, reply,
                 channel, contexts, offered, approved, config>>

-----------------------------------------------------------------------------
(* The listeners.                                                          *)

ListenPermission ==
  /\ channel.permission # <<>>
  /\ contexts' = contexts \cup {Head(channel.permission)}
  /\ channel' = [channel EXCEPT !.permission = Tail(@)]
  /\ UNCHANGED <<made, request, outcome, pending, reply, offered, config,
                 runVars, userVars>>

\* If the window cannot be told, the question is cancelled at once.
ListenQuestion ==
  /\ channel.question # <<>>
  /\ LET c == Head(channel.question) IN
       \/ pending' = pending \cup {c} /\ reply' = reply
       \/ /\ pending' = pending
          /\ reply' = IF outcome[c] = "waiting" THEN [reply EXCEPT ![c] = "deny"] ELSE reply
  /\ channel' = [channel EXCEPT !.question = Tail(@)]
  /\ UNCHANGED <<made, request, outcome, contexts, offered, config, runVars,
                 userVars>>

-----------------------------------------------------------------------------
(* The commands.                                                           *)

(***************************************************************************)
(* respond_permission reads the context; then it records the keys the user *)
(* trusts, in memory and in the file, where it may fail and stop; then it  *)
(* takes the sender.                                                       *)
(***************************************************************************)
Respond(k, c, answer) ==
  /\ c \in contexts
  /\ Starts(k, [op |-> "respond", call |-> c, reply |-> answer, keys |-> {}])
  /\ approved' = IF answer = "allow" THEN approved \cup {c} ELSE approved
  /\ UNCHANGED <<made, request, outcome, pending, reply, channel, contexts,
                 offered, config, runVars>>

RespondTrusting(k, c, keys) ==
  /\ c \in contexts
  /\ Starts(k, [op |-> "respond", call |-> c, reply |-> "allow", keys |-> keys])
  /\ approved' = approved \cup {c}
  /\ UNCHANGED <<made, request, outcome, pending, reply, channel, contexts,
                 offered, config, runVars>>

\* Faulty variant: the context is gone when the settings cannot be saved.
RecordTrustForgets(k) ==
  /\ command[k].op = "respond"
  /\ \E key \in command[k].keys :
       /\ config' = RecordProjectApproval(config, key)
       /\ \/ /\ command' = [command EXCEPT ![k].keys = @ \ {key}]
             /\ UNCHANGED <<commands, contexts>>
          \/ Ends(k) /\ contexts' = contexts \ {command[k].call}
  /\ UNCHANGED <<made, request, outcome, pending, reply, channel, offered,
                 approved, runVars>>

RecordTrust(k) ==
  /\ command[k].op = "respond"
  /\ \E key \in command[k].keys :
       /\ config' = RecordProjectApproval(config, key)
       /\ \/ /\ command' = [command EXCEPT ![k].keys = @ \ {key}]
             /\ UNCHANGED commands
          \/ Ends(k)
  /\ UNCHANGED <<made, request, outcome, pending, reply, channel, contexts,
                 offered, approved, runVars>>

\* Nobody to answer is an error, and the context stays.
RespondSends(k) ==
  /\ command[k].op = "respond" /\ command[k].keys = {}
  /\ LET c == command[k].call IN
       /\ reply' = Sent(c, command[k].reply)
       /\ pending' = Taken(c)
       /\ contexts' = IF c \in pending THEN contexts \ {c} ELSE contexts
  /\ Ends(k)
  /\ UNCHANGED <<made, request, outcome, channel, offered, approved, config, runVars>>

\* respond_user_question: the answers are checked against a copy of the questions.
RespondQuestion(k, c) ==
  /\ c \in pending /\ IsQuestion(c)
  /\ Starts(k, [op |-> "respond", call |-> c, reply |-> "allow", keys |-> {}])
  /\ approved' = approved \cup {c}
  /\ UNCHANGED <<made, request, outcome, pending, reply, channel, contexts,
                 offered, config, runVars>>

(***************************************************************************)
(* prepare_permission evaluates a queued request again.  If it is still to *)
(* be asked the context gets the groups that are left; otherwise the call  *)
(* is answered.                                                            *)
(***************************************************************************)
Prepare(k, c) ==
  /\ c \in contexts
  /\ IF Says(config, request[c], "ask")
       THEN /\ offered' = [offered EXCEPT ![c] = Offer(config, request[c])]
            /\ Starts(k, NoCommand)
       ELSE /\ Starts(k, [op |-> "prepare", call |-> c,
                          reply |-> IF Says(config, request[c], "allow")
                                    THEN "allow" ELSE "deny"])
            /\ UNCHANGED offered
  /\ UNCHANGED <<made, request, outcome, pending, reply, channel, contexts,
                 approved, config, runVars>>

PrepareSends(k) ==
  /\ command[k].op = "prepare"
  /\ LET c == command[k].call IN
       /\ reply' = Sent(c, command[k].reply)
       /\ pending' = Taken(c)
       /\ contexts' = contexts \ {c}
  /\ Ends(k)
  /\ UNCHANGED <<made, request, outcome, channel, offered, approved, config, runVars>>

\* A prompt that is turned down, because one is running.
TurnedDown(k, s) ==
  /\ s \in running
  /\ Starts(k, Denial(s, FALSE))
  /\ UNCHANGED <<made, request, outcome, pending, reply, channel, contexts,
                 offered, approved, config, runVars>>

\* abort denies what the session asks; then it fires the token.
Abort(k, s) ==
  /\ Starts(k, Denial(s, TRUE))
  /\ UNCHANGED <<made, request, outcome, pending, reply, channel, contexts,
                 offered, approved, config, runVars>>

-----------------------------------------------------------------------------
Loop(a) == CallCancelled(a) \/ CallAnswered(a)
Deny(w) == DenySweeps(w) \/ DenyOver(w)
Listener == ListenPermission \/ ListenQuestion
CommandStep(k) == RecordTrust(k) \/ RespondSends(k) \/ PrepareSends(k) \/ Deny(k)

User(k) ==
  \/ \E c \in Calls : \/ \E answer \in {"allow", "deny"} : Respond(k, c, answer)
                      \/ \E keys \in (SUBSET offered[c]) \ {{}} : RespondTrusting(k, c, keys)
                      \/ RespondQuestion(k, c)
                      \/ Prepare(k, c)
  \/ \E s \in Sessions : Abort(k, s) \/ TurnedDown(k, s)

Next ==
  \/ \E s \in Sessions : StartRun(s) \/ EndRun(s) \/ Deny(s)
  \/ \E a \in Agents : \/ \E q \in RequestsOf[a] : StartCall(a, q) \/ StartQuestion(a, q)
                       \/ Loop(a)
  \/ Listener
  \/ \E k \in Slots : CommandStep(k) \/ (command[k] = NoCommand /\ User(k))

(***************************************************************************)
(* What the runtime schedules: loops, listeners, commands at work, the     *)
(* tasks that deny.  Each is scheduled for itself; that one of them goes   *)
(* on is all that is needed here, as none goes on forever.  Of the user    *)
(* nothing is assumed.                                                     *)
(***************************************************************************)
System ==
  \/ \E a \in Agents : Loop(a)
  \/ \E s \in Sessions : Deny(s)
  \/ Listener
  \/ \E k \in Slots : CommandStep(k)

Spec == Init /\ [][Next]_vars
FairSpec == Spec /\ WF_vars(System)

-----------------------------------------------------------------------------
\* Every call has one outcome and at most one reply; senders, contexts and requests are of calls
\* (PendingApprovals, PendingPermissionContexts of state.rs).
TypeOK ==
  /\ running \subseteq Sessions /\ \A s \in Sessions : prompts[s] \in 0..MaxPrompts[s]
  /\ cancelled \in [Sessions -> BOOLEAN]
  /\ \A a \in Agents : made[a] \in 0..MaxCalls[a]
  /\ request \in [Calls -> Requests \cup {NoRequest}]
  /\ outcome \in [Calls -> {"none", "waiting", "ruled in", "blocked", "allowed",
                            "denied", "dropped"}]
  /\ reply \in [Calls -> {"none", "allow", "deny"}]
  /\ pending \cup contexts \cup approved \subseteq Calls
  /\ \A kind \in Kinds : ToSet(channel[kind]) \subseteq Calls
  /\ commands \in 0..MaxCommands
  /\ \A w \in Workers : command[w].op \in {"none", "respond", "prepare", "deny"}

(***************************************************************************)
(* Somebody can always answer: a call that waits, and has no answer and    *)
(* no cancelled token, is on its way to the window or its sender can be    *)
(* found, and with a permission the context by which the window answers.   *)
(***************************************************************************)
UserCanAnswer ==
  \A a \in Agents : LET c == <<a, made[a]>> IN
    Waiting(a) /\ ~IsCancelled(a) /\ reply[c] = "none" =>
      \/ c \in ToSet(channel[Kind(c)])
      \/ c \in pending /\ (c \in contexts \/ IsQuestion(c))

(***************************************************************************)
(* A call that was asked about runs only if the user said yes to it or the *)
(* rules, with what the user has come to trust, allow it.                  *)
(***************************************************************************)
RunsWithPermission ==
  \A c \in Calls : outcome[c] \in {"ruled in", "allowed"} =>
    c \in approved \/ Says(config, request[c], "allow")

(***************************************************************************)
(* A call that waits for the user is shown and can be answered, and a call *)
(* that runs was allowed by the rules or by the user.                      *)
(***************************************************************************)
ApprovalInvariant ==
  /\ TypeOK
  /\ UserCanAnswer
  /\ RunsWithPermission

(***************************************************************************)
(* A compound command is allowed only if no part of it would be asked      *)
(* about or blocked by itself.                                             *)
(***************************************************************************)
PartsAreAllowed ==
  [][config # config' => \A q \in Requests :
       IsBash(q) /\ Says(config', q, "allow") =>
         \A part \in Segments(q) :
           Evaluate(config', {}, [q EXCEPT !.text = part]) = "allow"]_vars

(***************************************************************************)
(* What the user trusts changes a verdict only from asking to allowing,    *)
(* and only of a request with a part that matches a rule just added.       *)
(***************************************************************************)
TrustOnlyWidens ==
  [][config # config' => \A q \in Requests :
       \/ \E verdict \in {"allow", "ask", "block"} :
            Says(config, q, verdict) /\ Says(config', q, verdict)
       \/ /\ Says(config, q, "ask") /\ Says(config', q, "allow")
          /\ RulesMatchAny(config'.allow \ config.allow, q)]_vars

(***************************************************************************)
(* A rule the user trusts allows no more than what it was shown for: a     *)
(* command of several parts runs unasked only if each part is allowed, and *)
(* no trusted rule takes a permission away.                                *)
(***************************************************************************)
TrustIsNarrow ==
  /\ PartsAreAllowed
  /\ TrustOnlyWidens

(***************************************************************************)
(* A call is answered once, and not by what denies another session's       *)
(* calls: the keys of the maps begin with the session.                     *)
(***************************************************************************)
AnsweredOnceByItsOwn ==
  [][\A c \in Calls : reply[c] # reply'[c] =>
       /\ reply[c] = "none" /\ outcome[c] = "waiting"
       /\ \A w \in Workers : command[w].op = "deny" /\ command[w] # command'[w] =>
            command[w].session = Session(c)]_vars

(***************************************************************************)
(* A prompt that has ended leaves no call of a subagent waiting that was   *)
(* asked about by then, though no token of the subagent is fired.          *)
(***************************************************************************)
NobodyWaitsForever ==
  \A c \in {d \in Calls : d[1] \notin Mains} :
    (command[Session(c)].op = "deny" /\ command[Session(c)].todo = DeniedKinds
       /\ c \in pending /\ ~IsQuestion(c))
      ~> outcome[c] # "waiting"
=============================================================================
