----------------------------- MODULE SessionLog -----------------------------
(***************************************************************************)
(* One session file and the managers that write it: SessionManager of      *)
(* crates/rozsa-app/src/session/manager.rs.  The agent of the tab keeps    *)
(* one open behind a mutex; the GUI opens a helper for one entry when it   *)
(* renames a session that no tab holds, or reports a failed prompt.        *)
(*                                                                         *)
(* An entry is a number, in the order of the timestamps; made[i] says what *)
(* entry i is.  The text of the file after its header is a sequence: a     *)
(* whole entry, 0 for an end of line, Torn for a piece of an entry.        *)
(* writeln! on a File writes the entry and its end of line one after the   *)
(* other; File::create and fs::write empty the file before they write.     *)
(***************************************************************************)
EXTENDS Absent, Integers, Sequences, FiniteSetsExt

CONSTANTS
  Folders,     \* working directories; the session is created in one of them
  MaxMade,     \* bound on the entries
  MaxIncidents \* bound on errands, changes of directory and crashes together

ASSUME LogAssumption ==
  /\ {MaxMade, MaxIncidents} \subseteq Nat
  /\ None \notin Folders \cup {"given", "automatic", "rename", "report"}

VARIABLES
  made,      \* the entries: parent, kind, name
  log,       \* the file: there, header (its cwd, None while there is none), text
  agent,     \* the manager of the tab
  helper,    \* the second manager
  errand,    \* what the helper is for: None, "rename", "report"
  title,     \* the automatic name: "free", "asked", "done"
  deleted,   \* delete_session has removed the file
  incidents,
  kept,      \* history: entries whose append has returned
  lastBranch,\* history: branch of the manager whose append returned last
  given,     \* history: the name the user gave last
  blind,     \* history: a helper renamed the session while the agent had it open
  spoiled    \* history: a write was cut short, or met another's

managerVars == <<agent, helper, errand, title>>
historyVars == <<kept, lastBranch, given, blind, spoiled>>
logVars == <<made, log, managerVars, deleted, incidents, historyVars>>

Torn == -1
NoLog == [there |-> FALSE, header |-> None, text |-> <<>>]
Closed ==
  [open |-> FALSE, known |-> {}, leaf |-> 0, cwd |-> None, materialized |-> FALSE,
   step |-> "idle", new |-> 0, copy |-> <<>>]
Lazy(c) == [Closed EXCEPT !.open = TRUE, !.cwd = c]

(***************************************************************************)
(* open: a line that is not one whole entry is skipped, a last line needs  *)
(* no end; the leaf is the last entry read.  An empty file is refused.     *)
(***************************************************************************)
EndsLine(text, i) == i \in {0, Len(text) + 1} \/ text[i] = 0
Parsed(text) ==
  {i \in 1..Len(text) : text[i] > 0 /\ EndsLine(text, i - 1) /\ EndsLine(text, i + 1)}
Ids(text) == {text[i] : i \in Parsed(text)}

Leaf(text) == IF Parsed(text) = {} THEN 0 ELSE text[Max(Parsed(text))]

Openable == log.there /\ log.header # None
Opened ==
  [Closed EXCEPT !.open = TRUE, !.known = Ids(log.text), !.leaf = Leaf(log.text),
                 !.cwd = log.header, !.materialized = TRUE]

\* entries(): from the leaf up, root first, as far as the parents are known.
Branch(known, leaf) ==
  LET up[i \in 0..Len(made)] ==
        IF i \in known THEN Append(up[made[i].parent], i) ELSE <<>>
  IN up[leaf]

\* current_name and build_session_meta: the latest session_info.
NameIn(known) ==
  LET infos == {i \in known : made[i].kind = "info"}
  IN IF infos = {} THEN None ELSE made[Max(infos)].name
-----------------------------------------------------------------------------
LogInit ==
  /\ made = <<>> /\ log = NoLog
  /\ agent \in {Lazy(c) : c \in Folders} /\ helper = Closed
  /\ errand = None /\ title = "free"
  /\ deleted = FALSE /\ incidents = 0
  /\ kept = {} /\ lastBranch = <<>> /\ given = None
  /\ blind = FALSE /\ spoiled = FALSE

Incident == incidents < MaxIncidents /\ incidents' = incidents + 1

Idle(m) == m.open /\ m.step = "idle"
Busy(m) == m.step # "idle"

\* ensure_materialized; the file that is there after it.
Materialized(m) == IF m.materialized THEN log ELSE [there |-> TRUE, header |-> m.cwd, text |-> <<>>]

\* Faulty variant: the entry follows the last one of the file.
FollowsTheFile(m, kind, name) == [parent |-> Leaf(log.text), kind |-> kind, name |-> name]

Follows(m, kind, name) == [parent |-> m.leaf, kind |-> kind, name |-> name]

ForAppend(m) == Materialized(m)

\* append_*, up to the open of the file, which must be there.  The managers
\* are named by the record's owner: m' is what m becomes.
Begins(m, mNext, kind, name) ==
  /\ Idle(m) /\ Len(made) < MaxMade
  /\ log' = ForAppend(m)
  /\ IF log'.there
       THEN /\ made' = Append(made, Follows(m, kind, name))
            /\ mNext = [m EXCEPT !.materialized = TRUE, !.step = "entry", !.new = Len(made) + 1]
       ELSE made' = made /\ mNext = [m EXCEPT !.materialized = TRUE]
  /\ UNCHANGED <<deleted, incidents, kept, lastBranch>>

\* The other manager is in the middle of a write.
Meets(other) == Busy(other) \/ spoiled
Wrote(text) == log' = IF log.there THEN [log EXCEPT !.text = @ \o text] ELSE log

WritesEntry(m, mNext, other) ==
  /\ m.step = "entry"
  /\ Wrote(<<m.new>>)
  /\ mNext = [m EXCEPT !.step = "line"]
  /\ spoiled' = Meets(other)
  /\ UNCHANGED <<made, errand, title, deleted, incidents, kept, lastBranch, given, blind>>

WritesEnd(m) == Wrote(<<0>>)

\* The append returns.
Returns(m, other) ==
  LET entry == made[m.new]
      known == m.known \cup {m.new}
  IN /\ m.step = "line"
     /\ WritesEnd(m)
     /\ kept' = kept \cup {m.new}
     /\ lastBranch' = Branch(known, m.new)
     /\ given' = IF entry.kind = "info" /\ entry.name # "automatic" THEN entry.name ELSE given
     /\ blind' = (blind \/ (errand = "rename" /\ agent.open))
     /\ spoiled' = Meets(other)
     /\ UNCHANGED <<made, title, deleted, incidents>>

AgentWrites ==
  \/ WritesEntry(agent, agent', helper) /\ UNCHANGED helper
  \/ /\ Returns(agent, helper)
     /\ agent' = [agent EXCEPT !.known = @ \cup {agent.new}, !.leaf = agent.new,
                               !.step = "idle", !.new = 0]
     /\ UNCHANGED <<helper, errand>>

\* The helper is dropped after its one entry.
HelperWrites ==
  \/ WritesEntry(helper, helper', agent) /\ UNCHANGED agent
  \/ /\ Returns(helper, agent)
     /\ helper' = Closed /\ errand' = None
     /\ UNCHANGED agent
-----------------------------------------------------------------------------
Unblamed == UNCHANGED <<given, blind, spoiled>>

\* A message, or another entry of the conversation.
Speak ==
  /\ Begins(agent, agent', "message", None)
  /\ UNCHANGED <<helper, errand, title>> /\ Unblamed

Names == {None, "given"}

\* rename_session, of a session that a tab holds.
RenameOpen ==
  /\ \E name \in Names : Begins(agent, agent', "info", name)
  /\ UNCHANGED <<helper, errand, title>> /\ Unblamed

\* generate_session_name asks the small model, with the manager unlocked.
AskTitle ==
  /\ Idle(agent) /\ title = "free" /\ NameIn(agent.known) = None
  /\ title' = "asked"
  /\ UNCHANGED <<made, log, agent, helper, errand, deleted, incidents, historyVars>>

StillUnnamed == NameIn(agent.known) = None

PersistTitle ==
  /\ title = "asked" /\ Idle(agent)
  /\ title' = "done"
  /\ IF StillUnnamed
       THEN Begins(agent, agent', "info", "automatic")
       ELSE UNCHANGED <<made, log, agent, deleted, incidents, kept, lastBranch>>
  /\ UNCHANGED <<helper, errand>> /\ Unblamed

\* rename_session finds no tab with the session, and then opens it;
\* append_prompt_error opens the file of an open session.
Errand ==
  /\ errand = None /\ Incident
  /\ \/ ~agent.open /\ ~deleted /\ errand' = "rename"
     \/ agent.open /\ errand' = "report"
  /\ UNCHANGED <<made, log, agent, helper, title, deleted, historyVars>>

HelperOpens ==
  /\ errand # None /\ ~helper.open
  /\ IF Openable
       THEN helper' = Opened /\ UNCHANGED errand
       ELSE errand' = None /\ UNCHANGED helper
  /\ UNCHANGED <<made, log, agent, title, deleted, incidents, kept, lastBranch>> /\ Unblamed

HelperSpeaks ==
  /\ \/ errand = "rename" /\ \E name \in Names : Begins(helper, helper', "info", name)
     \/ errand = "report" /\ Begins(helper, helper', "message", None)
  /\ errand' = IF Busy(helper') THEN errand ELSE None
  /\ UNCHANGED <<agent, title>> /\ Unblamed

\* The tab is shown: restore_agent.
Activate ==
  /\ ~agent.open /\ ~deleted /\ Openable
  /\ agent' = Opened /\ title' = "free"
  /\ UNCHANGED <<made, log, helper, errand, deleted, incidents, historyVars>>
-----------------------------------------------------------------------------
\* set_cwd, from the bash tool, up to the read of the file.
ChangeFolder ==
  /\ Idle(agent) /\ Incident
  /\ \E c \in Folders \ {agent.cwd} :
       /\ log' = Materialized(agent)
       /\ agent' = [agent EXCEPT !.materialized = TRUE,
                      !.step = IF log'.there /\ log'.header # None THEN "rewrite" ELSE "idle",
                      !.copy = log'.text]
  /\ UNCHANGED <<made, helper, errand, title, deleted, historyVars>>

\* fs::write creates or empties the file, then writes it from its start: over
\* what a helper may have appended meanwhile, which "spoiled" tells.
Empty ==
  /\ agent.step = "rewrite"
  /\ log' = [there |-> TRUE, header |-> None, text |-> <<>>]
  /\ agent' = [agent EXCEPT !.step = "refill"]
  /\ spoiled' = (Meets(helper) \/ log.text # agent.copy)
  /\ UNCHANGED <<made, helper, errand, title, deleted, incidents, kept, lastBranch, given, blind>>

Rest(m) == m.copy

Refill ==
  /\ agent.step = "refill"
  /\ \E c \in Folders \ {agent.cwd} :
       /\ log' = [there |-> TRUE, header |-> c, text |-> Rest(agent)]
       /\ agent' = [agent EXCEPT !.step = "idle", !.copy = <<>>, !.cwd = c]
  /\ spoiled' = Meets(helper)
  /\ UNCHANGED <<made, helper, errand, title, deleted, incidents, kept, lastBranch, given, blind>>

\* delete_session: the tab goes, a run that has the agent goes on.
Delete ==
  /\ log.there /\ ~deleted
  /\ log' = NoLog /\ deleted' = TRUE
  /\ spoiled' = (spoiled \/ agent.step \in {"rewrite", "refill"})
  /\ UNCHANGED <<made, managerVars, incidents, kept, lastBranch, given, blind>>

\* What a write cut short may leave of its text; the header of a new file is
\* in a buffer until it is whole.
Cut(m) ==
  {log} \cup
  IF m.step = "entry" /\ log.there THEN {[log EXCEPT !.text = Append(@, Torn)]}
  ELSE {}

Crash ==
  /\ Incident /\ (agent.open \/ helper.open)
  /\ log' \in IF Busy(agent) THEN Cut(agent) ELSE Cut(helper)
  /\ agent' = Closed /\ helper' = Closed /\ errand' = None /\ title' = "free"
  /\ spoiled' = (spoiled \/ Busy(agent) \/ Busy(helper))
  /\ UNCHANGED <<made, deleted, kept, lastBranch, given, blind>>

LogNext ==
  \/ Speak \/ RenameOpen \/ AskTitle \/ PersistTitle \/ AgentWrites
  \/ Errand \/ HelperOpens \/ HelperSpeaks \/ HelperWrites
  \/ Activate \/ ChangeFolder \/ Empty \/ Refill \/ Delete \/ Crash

LogSpec == LogInit /\ [][LogNext]_logVars
-----------------------------------------------------------------------------
Managers == [open : BOOLEAN, known : SUBSET (1..MaxMade), leaf : 0..MaxMade,
             cwd : Folders \cup {None}, materialized : BOOLEAN,
             step : {"idle", "entry", "line", "rewrite", "refill"}, new : 0..MaxMade,
             copy : Seq(-1..MaxMade)]

\* An entry follows an earlier one, and the leaf of an open manager is an entry it knows
\* (SessionManager::open, append_entry).
LogTypeOK ==
  /\ \A i \in DOMAIN made :
       /\ made[i].parent \in 0..(i - 1)
       /\ made[i].kind \in {"message", "info"} /\ made[i].name \in {None, "given", "automatic"}
  /\ log.there \in BOOLEAN /\ log.header \in Folders \cup {None}
  /\ log.text \in Seq(-1..Len(made))
  /\ agent \in Managers /\ helper \in Managers
  /\ errand \in {None, "rename", "report"} /\ title \in {"free", "asked", "done"}
  /\ (agent.open => agent.leaf \in agent.known \cup {0})

Still == ~Busy(agent) /\ ~Busy(helper) /\ ~spoiled

\* What an append has confirmed is in the file (append_entry returned its id),
\* through further appends, renames, prompt errors and changes of directory:
\* no write loses the work of an earlier one.
ConfirmedStays == Still /\ ~deleted => kept \subseteq Ids(log.text)

\* Whoever opens the file goes on where the last writer was: on the branch
\* that its manager had when its append returned, whatever the other wrote
\* before.
ReopenedIsTheBranch ==
  Still /\ ~deleted => Branch(Ids(log.text), Leaf(log.text)) = lastBranch

\* "A second name check before persistence ensures manual rename always wins"
\* (generate_session_name), unless a helper renamed behind the agent's back.
ManualRenameWins ==
  Still /\ ~deleted /\ ~blind /\ given # None => NameIn(Ids(log.text)) = given

\* A run that outlives its session does not bring the file back.
DeletedStaysDeleted == deleted /\ ~spoiled => ~log.there

(***************************************************************************)
(* What the file of a session promises under two managers: an entry whose  *)
(* append was confirmed stays, what is opened again is the branch of the   *)
(* last writer, the user's name is not overwritten by the automatic one,   *)
(* and a deleted session does not come back.                               *)
(***************************************************************************)
LogInvariant ==
  /\ LogTypeOK
  /\ ConfirmedStays
  /\ ReopenedIsTheBranch
  /\ ManualRenameWins
  /\ DeletedStaysDeleted

=============================================================================
