---------------------------- MODULE SessionTabs ----------------------------
(***************************************************************************)
(* The sessions of the GUI: tabs and the active one, the commands of the   *)
(* user, the chain of prompts each message starts, the forwarder that      *)
(* applies a session's events to its tab, and the snapshots the main view  *)
(* is sent.  All of them are tasks that meet at the locks of the tabs, of  *)
(* the active index and of a session's manager; a step here is what one    *)
(* does between two of them.                                               *)
(*                                                                         *)
(* An agent is AgentSession seen from outside: a slot, a session file, and *)
(* events on a broadcast channel that keeps the latest Capacity.  A        *)
(* message is known by its number; the chain it starts has its name.       *)
(* delete_session, which no view calls, is left out.                       *)
(***************************************************************************)
EXTENDS LiveView, FiniteSets

CONSTANTS
  Sessions,
  Initial,      \* the session of the first tab
  Saved,        \* the sessions with a file
  Capacity,     \* of a broadcast channel
  MaxMessages,  \* bound on what the user types
  MaxIncidents  \* bound on moves to other sessions, failures, uses of Stop
                \* and messages sent while a chain is at work

ASSUME TabsAssumption ==
  /\ Initial \in Sessions /\ Saved \subseteq Sessions \ {Initial}
  /\ Capacity \in Nat \ {0} /\ {MaxMessages, MaxIncidents} \subseteq Nat

VARIABLES
  tabs,       \* the sessions that have a tab
  active,     \* active_tab
  phase,      \* of a session: "none", or its tab's variant "loaded" or "active"
  live,       \* what its tab shows
  file,       \* its entries
  running,    \* is_running of its agent
  steering,   \* steering_queue of its agent
  forwarder,  \* "off", "spawned", "on"
  channel,    \* the events it has not received
  chain,      \* the prompts a message led to: session, prompt and state
  emitting,   \* who found which session to be the active one, and will show it
  shown,      \* the last snapshot the main view received
  typed, incidents,
  accepted,   \* history: the messages that were queued and not given up
  mishaps     \* history: what happened to a session that its tab may not survive

agentVars == <<file, running, steering, channel>>
viewVars  == <<tabs, active, phase, forwarder, emitting, shown>>
boundVars == <<typed, incidents>>
vars == <<agentVars, viewVars, live, chain, boundVars, accepted, mishaps>>

Messages == 1..MaxMessages
Active == tabs[active]
HasTab(s) == s \in ToSet(tabs)
NoChain(s) == [session |-> s, prompt |-> 0, at |-> "off"]
ChainsOf(s) == {n \in Messages : chain[n].at # "off" /\ chain[n].session = s}

\* A chain has begun its interaction, and has not finished it.
AtWork(s) == \E n \in ChainsOf(s) : chain[n].at # "sending"

\* A prompt is at work, or is about to be.
Busy(s) == \E n \in ChainsOf(s) : chain[n].at # "finishing"
Snapshot(s, v) == [session |-> s, streaming |-> v.streaming]

Init ==
  /\ tabs = <<Initial>> /\ active = 1
  /\ phase = [s \in Sessions |-> IF s = Initial THEN "active" ELSE "none"]
  /\ live = [s \in Sessions |-> EmptyView]
  /\ file = [s \in Sessions |-> IF s \in Saved THEN <<Said("started", 0), Said("user", 0),
                                                     Said("reply", 0)>> ELSE <<>>]
  /\ running = [s \in Sessions |-> FALSE]
  /\ steering = [s \in Sessions |-> <<>>] /\ channel = [s \in Sessions |-> <<>>]
  /\ forwarder = [s \in Sessions |-> IF s = Initial THEN "on" ELSE "off"]
  /\ chain = [n \in Messages |-> NoChain(Initial)]
  /\ emitting = {} /\ shown = Snapshot(Initial, EmptyView)
  /\ typed = 0 /\ incidents = 0
  /\ accepted = {}
  /\ mishaps = [s \in Sessions |-> {}]

Happens(s, what) == mishaps' = [mishaps EXCEPT ![s] = @ \cup what]
Set(s, v) == live' = [live EXCEPT ![s] = v]
Goes(n, where) == chain' = [chain EXCEPT ![n].at = where]
Types == typed < MaxMessages /\ typed' = typed + 1 /\ UNCHANGED incidents
Incident == incidents < MaxIncidents /\ incidents' = incidents + 1 /\ UNCHANGED typed

-----------------------------------------------------------------------------
(* What an agent tells its subscriber.                                     *)

Latest(events) ==
  IF Len(events) <= Capacity THEN events
  ELSE SubSeq(events, Len(events) - Capacity + 1, Len(events))

Tells(s, events, other) ==
  LET all == channel[s] \o events IN
  IF forwarder[s] = "on"
  THEN /\ channel' = [channel EXCEPT ![s] = Latest(all)]
       /\ Happens(s, other \cup (IF Len(all) > Capacity THEN {"lagged"} ELSE {}))
  ELSE UNCHANGED channel /\ Happens(s, other \cup {"missed"})

-----------------------------------------------------------------------------
(***************************************************************************)
(* send_message.  The front end calls it when it was shown no streaming.   *)
(* A tab that was only loaded gets its agent, and its summary from the     *)
(* file.                                                                   *)
(***************************************************************************)
Send(n) ==
  /\ n = typed + 1 /\ typed < MaxMessages /\ typed' = n /\ ~shown.streaming
  /\ IF ChainsOf(Active) = {} THEN UNCHANGED incidents
     ELSE incidents < MaxIncidents /\ incidents' = incidents + 1
  /\ phase' = [phase EXCEPT ![Active] = "active"]
  /\ live' = IF phase[Active] = "active" THEN live
             ELSE [live EXCEPT ![Active] = [EmptyView EXCEPT !.messages = live[Active].messages,
                                                             !.summary = LastSummary(file[Active])]]
  /\ chain' = [chain EXCEPT ![n] = [session |-> Active, prompt |-> n, at |-> "sending"]]
  /\ Happens(Active, IF ChainsOf(Active) # {} THEN {"double"} ELSE {})
  /\ UNCHANGED <<agentVars, tabs, active, forwarder, emitting, shown, accepted>>

\* The forwarder is spawned, the interaction begins, the prompt's task is spawned.
SendBegins(n) ==
  LET s == chain[n].session IN
  /\ chain[n].at = "sending"
  /\ forwarder' = [forwarder EXCEPT ![s] = IF @ = "off" THEN "spawned" ELSE @]
  /\ file' = [file EXCEPT ![s] = Append(@, Said("started", 0))]
  /\ Set(s, Begun(live[s])) /\ Goes(n, "prompting")
  /\ UNCHANGED <<running, steering, channel, tabs, active, phase, emitting, shown,
                 boundVars, accepted, mishaps>>

\* The entry cannot be written: the command fails.  What was queued for the
\* prompt it was to start has none to wait for.
SendFails(n) ==
  LET s == chain[n].session IN
  /\ chain[n].at = "sending" /\ Incident
  /\ forwarder' = [forwarder EXCEPT ![s] = IF @ = "off" THEN "spawned" ELSE @]
  /\ Goes(n, "off")
  /\ Happens(s, IF live[s].queue # <<>> THEN {"unsent"} ELSE {})
  /\ UNCHANGED <<agentVars, tabs, active, phase, emitting, shown, live, accepted>>

-----------------------------------------------------------------------------
(***************************************************************************)
(* The agent's prompt, called by a chain.                                  *)
(***************************************************************************)
PromptStarts(n) ==
  LET s == chain[n].session
      said == Said("user", chain[n].prompt) IN
  /\ chain[n].at = "prompting" /\ ~running[s]
  /\ running' = [running EXCEPT ![s] = TRUE]
  /\ file' = [file EXCEPT ![s] = Append(@, said)]
  /\ Tells(s, <<Event("start", <<said>>)>>, {})
  /\ Goes(n, "running")
  /\ UNCHANGED <<steering, viewVars, live, boundVars, accepted>>

PromptRefused(n) ==
  /\ chain[n].at = "prompting" /\ running[chain[n].session]
  /\ Goes(n, "failed")
  /\ UNCHANGED <<agentVars, viewVars, live, boundVars, accepted, mishaps>>

\* The loop cannot be configured: the prompt is on file, nothing is told.
PromptFails(n) ==
  LET s == chain[n].session IN
  /\ chain[n].at = "prompting" /\ ~running[s]
  /\ Incident
  /\ file' = [file EXCEPT ![s] = Append(@, Said("user", chain[n].prompt))]
  /\ Goes(n, "failed")
  /\ UNCHANGED <<running, steering, channel, viewVars, live, accepted,
                 mishaps>>

\* The loop hears what was steered, answers, and reports what it added.
Answer(p, steered) ==
  LET heard == [i \in 1..Len(steered) |-> Said("steer", steered[i])] IN
  [i \in 1..Len(steered) |-> Event("user", <<heard[i]>>)]
    \o <<Event("partial", <<Said("partial", p)>>), Event("reply", <<Said("reply", p)>>),
         Event("end", <<Said("user", p)>> \o heard \o <<Said("reply", p)>>)>>

Replies(n) ==
  LET s == chain[n].session IN
  /\ chain[n].at = "running"
  /\ steering' = [steering EXCEPT ![s] = <<>>]
  /\ Tells(s, Answer(chain[n].prompt, steering[s]), {})
  /\ Goes(n, "replied")
  /\ UNCHANGED <<file, running, viewVars, live, boundVars, accepted>>

\* The last thing send_message's task does is to show its tab, if it finds
\* it active by then.
WillShow(who, s) == IF Active = s THEN emitting \cup {<<who, s>>} ELSE emitting
TaskShows(n) ==
  emitting' = IF chain[n].prompt = n THEN WillShow("task", chain[n].session) ELSE emitting

Written(n) ==
  LET s == chain[n].session IN
  /\ chain[n].at = "replied"
  /\ file' = [file EXCEPT ![s] = Append(@, Said("reply", chain[n].prompt))]
  /\ running' = [running EXCEPT ![s] = FALSE]

PromptReturns(n) ==
  /\ Written(n) /\ TaskShows(n) /\ Goes(n, "returned")
  /\ UNCHANGED <<steering, channel, tabs, active, phase, forwarder, shown, live, boundVars,
                 accepted, mishaps>>

\* A compaction, that the end of the prompt included, failed.
PromptReturnsError(n) ==
  /\ Written(n) /\ Goes(n, "failed")
  /\ Incident
  /\ UNCHANGED <<steering, channel, viewVars, live, accepted, mishaps>>

(***************************************************************************)
(* append_prompt_error: one step, under the lock of the tabs.  Its         *)
(* snapshot goes out whichever tab is active.                              *)
(***************************************************************************)
InTurn(s) == running[s] \/ channel[s] # <<>>
ReportError(n) ==
  LET s == chain[n].session
      said == Said("error", chain[n].prompt)
      messages == Append(Loaded(file[s]), said)
      v == [live[s] EXCEPT !.messages = messages, !.base = Len(messages),
                           !.streaming = live[s].queue # <<>>] IN
  /\ chain[n].at = "failed"
  /\ Set(s, v) /\ shown' = Snapshot(s, v)
  /\ file' = [file EXCEPT ![s] = Append(@, said)]
  /\ Happens(s, IF InTurn(s) THEN {"error in turn"} ELSE {})
  /\ TaskShows(n) /\ Goes(n, "returned")
  /\ UNCHANGED <<running, steering, channel, tabs, active, phase, forwarder, boundVars, accepted>>

-----------------------------------------------------------------------------
(***************************************************************************)
(* advance_interaction and finish_interaction.                             *)
(***************************************************************************)
Takes(n) ==
  LET s == chain[n].session IN
  /\ chain[n].at = "returned" /\ live[s].queue # <<>>
  /\ Set(s, [live[s] EXCEPT !.queue = Tail(@)])
  /\ chain' = [chain EXCEPT ![n].prompt = Head(live[s].queue), ![n].at = "prompting"]
  /\ UNCHANGED <<agentVars, viewVars, boundVars, accepted, mishaps>>

TakesNothing(n) ==
  /\ chain[n].at = "returned" /\ live[chain[n].session].queue = <<>>
  /\ Goes(n, IF live[chain[n].session].interaction THEN "finishing" ELSE "off")
  /\ UNCHANGED <<agentVars, viewVars, live, boundVars, accepted, mishaps>>

\* Faulty variant: nothing is shown of it.
FinishSilently(n) ==
  LET s == chain[n].session IN
  /\ chain[n].at = "finishing"
  /\ file' = [file EXCEPT ![s] = Append(@, [kind |-> "summary", changes |-> Changes(@)])]
  /\ Set(s, Finished(live[s], Changes(file[s])))
  /\ Goes(n, "off")
  /\ UNCHANGED <<running, steering, channel, viewVars, boundVars, accepted, mishaps>>

Finish(n) ==
  LET s == chain[n].session IN
  /\ chain[n].at = "finishing"
  /\ file' = [file EXCEPT ![s] = Append(@, [kind |-> "summary", changes |-> Changes(@)])]
  /\ Set(s, Finished(live[s], Changes(file[s])))
  /\ emitting' = WillShow("task", s)
  /\ Goes(n, "off")
  /\ UNCHANGED <<running, steering, channel, tabs, active, phase, forwarder, shown, boundVars,
                 accepted, mishaps>>

-----------------------------------------------------------------------------
(***************************************************************************)
(* The forwarder of a session, and the snapshots on their way.             *)
(***************************************************************************)
Subscribe(s) ==
  /\ forwarder[s] = "spawned"
  /\ forwarder' = [forwarder EXCEPT ![s] = "on"]
  /\ UNCHANGED <<agentVars, tabs, active, phase, emitting, shown, live, chain, boundVars,
                 accepted, mishaps>>

Forward(s) ==
  /\ channel[s] # <<>> /\ <<"forwarder", s>> \notin emitting
  /\ channel' = [channel EXCEPT ![s] = Tail(@)]
  /\ Set(s, Apply(live[s], Head(channel[s])))
  /\ emitting' = WillShow("forwarder", s)
  /\ Happens(s, IF Head(channel[s]).type = "start" /\ ~AtWork(s) THEN {"late"} ELSE {})
  /\ UNCHANGED <<file, running, steering, tabs, active, phase, forwarder, shown, chain,
                 boundVars, accepted>>

Show(e) ==
  /\ e \in emitting
  /\ emitting' = emitting \ {e}
  /\ shown' = Snapshot(e[2], live[e[2]])
  /\ UNCHANGED <<agentVars, tabs, active, phase, forwarder, live, chain, boundVars, accepted,
                 mishaps>>

-----------------------------------------------------------------------------
(***************************************************************************)
(* send_running_message and abort: for a view that was shown streaming.    *)
(***************************************************************************)
MayRun == shown.streaming /\ phase[Active] = "active" /\ live[Active].streaming

Queue ==
  LET v == [live[Active] EXCEPT !.queue = Append(@, typed + 1)] IN
  /\ MayRun /\ Types
  /\ Set(Active, v) /\ shown' = Snapshot(Active, v)
  /\ accepted' = accepted \cup {typed + 1}
  /\ Happens(Active, IF Busy(Active) THEN {} ELSE {"stale"})
  /\ UNCHANGED <<agentVars, tabs, active, phase, forwarder, emitting, chain>>

Steer ==
  LET v == [live[Active] EXCEPT !.steering = Append(@, typed + 1)] IN
  /\ MayRun /\ Types
  /\ steering' = [steering EXCEPT ![Active] = Append(@, typed + 1)]
  /\ Set(Active, v) /\ shown' = Snapshot(Active, v)
  /\ UNCHANGED <<file, running, channel, tabs, active, phase, forwarder, emitting, chain,
                 accepted, mishaps>>

\* The run that is cancelled still ends.  Nothing is shown.
Abort ==
  /\ shown.streaming /\ phase[Active] = "active"
  /\ Incident
  /\ Set(Active, [live[Active] EXCEPT !.queue = <<>>])
  /\ steering' = [steering EXCEPT ![Active] = <<>>]
  /\ accepted' = accepted \ ToSet(live[Active].queue)
  /\ Happens(Active, {"aborted"})
  /\ UNCHANGED <<file, running, channel, viewVars, chain>>

-----------------------------------------------------------------------------
(***************************************************************************)
(* switch_session, create_new_session and fork_session.                    *)
(***************************************************************************)
Activates(i, s) ==
  active' = i /\ shown' = Snapshot(s, live'[s]) /\ UNCHANGED emitting

\* Faulty variant: a session that has a tab is loaded anew.
SwitchAnew(s) ==
  /\ Incident /\ s # Active /\ (HasTab(s) \/ s \in Saved)
  /\ tabs' = IF HasTab(s) THEN tabs ELSE Append(tabs, s)
  /\ phase' = [phase EXCEPT ![s] = IF @ = "none" THEN "loaded" ELSE @]
  /\ Set(s, [EmptyView EXCEPT !.messages = Loaded(file[s])])
  /\ Activates(FirstOf(tabs', s), s)
  /\ UNCHANGED <<agentVars, forwarder, chain, accepted, mishaps>>

Switch(s) ==
  /\ Incident /\ s # Active /\ (HasTab(s) \/ s \in Saved)
  /\ IF HasTab(s) THEN UNCHANGED <<tabs, phase, live>>
     ELSE /\ tabs' = Append(tabs, s)
          /\ phase' = [phase EXCEPT ![s] = "loaded"]
          /\ Set(s, [EmptyView EXCEPT !.messages = Loaded(file[s])])
  /\ Activates(FirstOf(tabs', s), s)
  /\ UNCHANGED <<agentVars, forwarder, chain, accepted, mishaps>>

Opens(s, entries) ==
  /\ Incident /\ s \notin Saved /\ ~HasTab(s)
  /\ tabs' = Append(tabs, s)
  /\ phase' = [phase EXCEPT ![s] = "active"]
  /\ file' = [file EXCEPT ![s] = entries]
  /\ Set(s, [EmptyView EXCEPT !.messages = entries])
  /\ forwarder' = [forwarder EXCEPT ![s] = "spawned"]
  /\ Activates(Len(tabs) + 1, s)
  /\ UNCHANGED <<running, steering, channel, chain, accepted, mishaps>>

NewSession(s) == Opens(s, <<>>)

\* A copy of what the tab shows, up to a message of the user.
Copied(m) ==
  [m EXCEPT !.kind = CASE @ = "steer" -> "user" [] @ = "partial" -> "reply" [] OTHER -> @]
Fork(s) ==
  \E i \in 1..Len(live[Active].messages) :
    /\ live[Active].messages[i].kind \in {"user", "steer"}
    /\ Opens(s, [j \in 1..i |-> Copied(live[Active].messages[j])])

-----------------------------------------------------------------------------
ChainSteps(n) ==
  \/ SendBegins(n) \/ PromptStarts(n) \/ PromptRefused(n) \/ Replies(n) \/ PromptReturns(n)
  \/ ReportError(n) \/ Takes(n) \/ TakesNothing(n) \/ Finish(n)

Next ==
  \/ \E n \in Messages : \/ Send(n) \/ ChainSteps(n)
                         \/ SendFails(n) \/ PromptFails(n) \/ PromptReturnsError(n)
  \/ Queue \/ Steer \/ Abort
  \/ \E s \in Sessions : \/ Subscribe(s) \/ Forward(s)
                         \/ Switch(s) \/ NewSession(s) \/ Fork(s)
  \/ \E e \in emitting : Show(e)

Spec == Init /\ [][Next]_vars

-----------------------------------------------------------------------------
\* A tab is a session with a phase, one each; a prompt is at work exactly in a running session
\* (LiveState, SessionTab of state.rs).
TypeOK ==
  /\ active \in 1..Len(tabs) /\ ToSet(tabs) \subseteq Sessions
  /\ Cardinality(ToSet(tabs)) = Len(tabs)
  /\ \A s \in Sessions :
       /\ (phase[s] = "none") <=> ~HasTab(s)
       /\ forwarder[s] # "off" => phase[s] = "active"
       /\ live[s].at \in Nat /\ live[s].base <= Len(live[s].messages)
       /\ {n \in ChainsOf(s) : chain[n].at \in {"running", "replied"}} # {} <=> running[s]

Idle(s) == ChainsOf(s) = {} /\ channel[s] = <<>>
Spared(s, whats) == mishaps[s] \cap whats = {}
Lost == {"missed", "lagged"}

Unsteered(messages) == Kept(messages, {m \in ToSet(messages) : m.kind # "steer"})

\* A tab whose session is idle shows what is in the session's file, in its
\* order: through streaming, failed prompts, forks, and loading it again.
\* Steered messages never get to the file.  What a tab does not survive is an
\* event its forwarder never received, and an error reported into a turn.
ViewIsTheFile ==
  \A s \in Sessions :
    HasTab(s) /\ Idle(s) /\ Spared(s, Lost \cup {"error in turn"}) =>
      Unsteered(live[s].messages) = Loaded(file[s])

ChangedSinceStart(entries) ==
  {m.n : m \in {entries[i] : i \in {j \in 1..Len(entries) :
    entries[j].kind = "reply" /\ \A k \in j..Len(entries) : entries[k].kind # "started"}}}

\* When the last prompt of an interaction has returned the tab says so: it
\* does not stream, and its summary is what all prompts of the interaction
\* changed, the queued ones too, as one that opens the file would find.  What
\* that does not survive is the start of a run that is applied after it, and
\* what makes a second interaction of one.
InteractionIsOver ==
  \A s \in Sessions :
    Idle(s) /\ phase[s] = "active" /\ Spared(s, {"late", "stale", "double"}) =>
      /\ ~live[s].streaming /\ ~live[s].interaction
      /\ live[s].summary # {} => live[s].summary = {ChangedSinceStart(file[s])}

(***************************************************************************)
(* A tab at rest tells the truth: it shows what its session file holds,    *)
(* and no interaction of it is still shown as going on, unless it was      *)
(* passed over by events its forwarder lost or that came too late.         *)
(***************************************************************************)
IdleTabIsTrue ==
  /\ ViewIsTheFile
  /\ InteractionIsOver

\* A message that was queued waits, is about to be prompted or is in the file,
\* unless the user gave it up; none waits in an idle session.  What that does
\* not survive: being accepted when no prompt is at work any more, or for one
\* whose sending fails, and a second chain, which is refused what it takes.
Unheard == {"stale", "unsent", "double"}
QueuedIsHeard ==
  \A s \in Sessions : Spared(s, Unheard) =>
    /\ Idle(s) => live[s].queue = <<>>
    /\ \A n \in accepted :
         \/ \E t \in Sessions : Contains(live[t].queue, n) \/ Contains(file[t], Said("user", n))
         \/ \E m \in Messages : chain[m].prompt = n /\ chain[m].at = "prompting"
         \/ \E t \in Sessions : ~Spared(t, Unheard)

\* What a tab lists as steered is what its agent has still to hear, or has
\* heard and not been seen to.
SteeringShownIsWaiting ==
  \A s \in Sessions : Spared(s, Lost \cup {"aborted"}) =>
    ToSet(live[s].steering) =
      ToSet(steering[s]) \cup {m.n : m \in {x \in UNION {ToSet(e.messages) :
        e \in {y \in ToSet(channel[s]) : y.type = "user"}} : x.kind = "steer"}}

(***************************************************************************)
(* What the user queued or steered is either still waiting where the tab   *)
(* shows it or was heard by a run; switches of session in between lose     *)
(* none of it. The incidents that do are named in the parts.               *)
(***************************************************************************)
WaitingIsHeard ==
  /\ TypeOK
  /\ QueuedIsHeard
  /\ SteeringShownIsWaiting

\* When no snapshot is on its way the main view, if it shows the active
\* session, shows whether its prompts run: the front end sends or queues by that.
ScreenCatchesUp ==
  emitting = {} /\ shown.session = Active =>
    shown = Snapshot(Active, live[Active])
=============================================================================
