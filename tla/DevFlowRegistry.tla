-------------------------- MODULE DevFlowRegistry --------------------------
(***************************************************************************)
(* The dashboards of the dev-flow integration: DevFlowRegistry of          *)
(* rozsa-app/src/dev_flow/registry.rs, which shares one child process per  *)
(* project among sessions and reclaims the idle ones, under DevFlowRuntime *)
(* of rozsa-gui/src/dev_flow.rs, which builds a registry when the          *)
(* integration is configured and tells it of sessions.                     *)
(*                                                                         *)
(* Every call is a job that gives way where the code awaits: at the        *)
(* directory's identity, at sweep_lock (the lock of a registry below), at  *)
(* the health check, the start and the end of a child.  The state mutex is *)
(* held for one step.  A job keeps the registry it has found alive; a      *)
(* child whose handle nobody holds is killed.                              *)
(***************************************************************************)
EXTENDS DevFlowDiscovery, FiniteSetsExt

CONSTANTS
  Sessions, Callers,
  Initial,       \* the session selected at the start, and its directories then
  Found,
  Homes,         \* of a session: the directories its agent may work in
  Directories,   \* of a working directory: what it may be found to be
  Machine,       \* for discovery
  Paths,         \* what the user sets as the path of the executable
  Budget,        \* the dashboards the memory budget has room for
  Window,        \* IDLE_RECLAMATION_WINDOW
  MaxTime, MaxChildren, MaxCalls,
  MaxAtWork,     \* bound on the jobs at work together
  MaxIncidents   \* bound on failed commands and starts, and dead children

VARIABLES
  sessions,   \* of the runtime: directory, active, last stop (0: none); or None, or Deleted
  selected,   \* current_session
  installed,  \* the runtime's registry, by number; 0: none
  adopted,    \* diagnostics.executable
  cliError,
  errors,     \* project_errors, and the notifications shown for them
  regs,       \* the registries built
  children,   \* the processes started, oldest first
  jobs,
  head,       \* what each directory is now
  now, calls, incidents,
  crossed,    \* history: sessions that ran or stopped while a reconfiguration read them,
              \* or before the registry had bound them
  quiet       \* history: "settled" when a probe has ended that nobody disturbed

runtimeVars == <<sessions, selected, installed, adopted, cliError, errors>>
worldVars == <<head, now>>
boundVars == <<calls, incidents>>
registryVars == <<runtimeVars, regs, children, jobs, worldVars, boundVars, crossed, quiet>>

Keeper == "keeper"
Settings == "settings"
Workers == Callers \cup {Keeper, Settings}
Cwds == DOMAIN Directories
Projects == {ProjectOf(d) : d \in UNION {Directories[c] : c \in Cwds}} \ {None}
Probing == {"bash", "probe"}

Idle ==
  [op |-> "none", at |-> "idle", s |-> None, cwd |-> None, reg |-> 0, project |-> None,
   avail |-> None, child |-> 0, todo |-> {}, notes |-> <<>>, kept |-> {}, time |-> 0,
   found |-> None, mark |-> "none"]
EmptyRegistry ==
  [bound |-> [s \in Sessions |-> None], services |-> [p \in Projects |-> None],
   recent |-> <<>>, current |-> None, lock |-> None]
Service(c) == [child |-> c, state |-> "live", stop |-> 0]

Later(t, u) == IF t > u THEN t ELSE u
Reg(w) == regs[jobs[w].reg]
Goes(w, j) == jobs' = [jobs EXCEPT ![w] = j]
GoesAt(w, where) == jobs' = [jobs EXCEPT ![w].at = where]
SetReg(g, r) == regs' = [regs EXCEPT ![g] = r]
MayBegin(w) == jobs[w] = Idle /\ Cardinality({v \in Workers : jobs[v] # Idle}) < MaxAtWork
Incident == incidents < MaxIncidents /\ incidents' = incidents + 1 /\ UNCHANGED calls

\* A handle is held by a registry somebody holds, or by a job.
Held(c) ==
  \/ \E g \in DOMAIN regs :
       /\ g = installed \/ \E w \in Workers : jobs[w].reg = g
       /\ \/ \E p \in Projects : regs[g].services[p] # None /\ regs[g].services[p].child = c
          \/ \E s \in Sessions : regs[g].bound[s] # None /\ regs[g].bound[s].child = c
  \/ \E w \in Workers : jobs[w].child = c

\* The children after a step that has left them as `cs`: kill_on_drop.
Reaped(cs) ==
  \E dropped \in {{c \in DOMAIN cs : cs[c].running /\ ~Held(c)'}} :
    children' = [c \in DOMAIN cs |->
                   IF c \in dropped THEN [cs[c] EXCEPT !.running = FALSE] ELSE cs[c]]

\* shutdown of a handle's control: the connection loop is cancelled.
Unfollowed(c) == [children EXCEPT ![c].followed = FALSE]
Child(p, g) == [project |-> p, reg |-> g, running |-> TRUE, client |-> FALSE, followed |-> TRUE]
NextChild == Len(children) + 1

\* The application has started: the initial session is selected, and the
\* dashboard of its project runs.
Init ==
  LET cwd == CHOOSE c \in Homes[Initial] : TRUE
      p == ProjectOf(Found[cwd]) IN
  /\ head = Found
  /\ sessions = [s \in Sessions |-> IF s = Initial THEN [cwd |-> cwd, active |-> FALSE, stop |-> 0] ELSE None]
  /\ selected = Initial
  /\ installed = 1 /\ adopted = DiscoverDow(None, Machine) /\ cliError = FALSE /\ errors = {}
  /\ regs = <<[EmptyRegistry EXCEPT
                !.bound[Initial] = [cwd |-> cwd, project |-> p, avail |-> "ready", child |-> 1,
                                    active |-> FALSE, stop |-> 0],
                !.services[p] = Service(1), !.recent = <<p>>, !.current = p]>>
  /\ children = <<Child(p, 1)>>
  /\ jobs = [w \in Workers |-> Idle]
  /\ now = 1 /\ calls = 0 /\ incidents = 0
  /\ crossed = {} /\ quiet = "no"

-----------------------------------------------------------------------------
(***************************************************************************)
(* The calls of the GUI.  First the runtime's own map of sessions, then    *)
(* its registry, if there is one: session_started, session_resumed,        *)
(* session_finished, session_closed, switch_to_session, on_successful_bash *)
(* and dashboard_url.                                                      *)
(***************************************************************************)
Deleted == [cwd |-> None, active |-> FALSE, stop |-> 0]
Bound(cwd, active, stop) == [cwd |-> cwd, active |-> active, stop |-> stop]
Known(s) == sessions[s] \notin {None, Deleted}

\* The calls a session's run makes come one after another.
RunCalls == {"start", "resume", "finish", "bash"}
Running(s) == \E w \in Callers : jobs[w].s = s /\ jobs[w].op \in RunCalls

\* A reconfiguration has read the sessions and is about to tell the registry of s.
BeingRead(s) ==
  /\ jobs[Settings].op = "settings"
  /\ \/ jobs[Settings].s = s
     \/ \E e \in jobs[Settings].todo : e.s = s

Called(op, s, cwd) ==
  CASE op = "start"  -> [sessions EXCEPT ![s] = Bound(cwd, TRUE, 0)]
    [] op = "resume" -> IF Known(s) THEN [sessions EXCEPT ![s] = Bound(@.cwd, TRUE, 0)] ELSE sessions
    [] op = "finish" -> IF Known(s) THEN [sessions EXCEPT ![s] = Bound(@.cwd, FALSE, now)] ELSE sessions
    [] op = "close"  -> [sessions EXCEPT ![s] = Deleted]
    [] op \in {"switch", "bash"} ->
         [sessions EXCEPT ![s] = IF @ = None THEN Bound(cwd, FALSE, 0) ELSE Bound(cwd, @.active, @.stop)]
    [] op = "open"   -> sessions

Call(w, op, s, cwd) ==
  /\ MayBegin(w) /\ calls < MaxCalls /\ calls' = calls + 1
  /\ op \in RunCalls => ~Running(s)
  /\ op \in {"finish", "resume", "bash"} => Known(s) /\ sessions[s].active
  /\ op \in {"close", "open"} => Known(s)
  /\ sessions[s] # Deleted
  /\ sessions' = Called(op, s, cwd)
  /\ selected' = CASE op = "switch" -> s
                   [] op = "close" /\ selected = s -> None
                   [] OTHER -> selected
  /\ \/ UNCHANGED head
     \/ op = "bash" /\ \E d \in Directories[cwd] : head' = [head EXCEPT ![cwd] = d]
  /\ crossed' = crossed \cup (IF op \in RunCalls \ {"bash"} /\ BeingRead(s) THEN {s} ELSE {})
  /\ Goes(w, [Idle EXCEPT !.op = op, !.at = "reach", !.s = s, !.cwd = cwd,
                          !.time = IF op \in {"finish", "close"} THEN now ELSE 0,
                          !.mark = CASE op \in {"start", "resume"} -> "active"
                                     [] op \in {"finish", "close"} -> op
                                     [] OTHER -> "none",
                          !.todo = IF op = "start" /\ Known(s) /\ sessions[s].cwd = cwd
                                   THEN {} ELSE {[s |-> s, cwd |-> cwd]}])
  /\ UNCHANGED <<installed, adopted, cliError, errors, regs, children, now, incidents>>

\* Without a registry there is nothing to tell.
Reach(w) ==
  LET j == jobs[w] IN
  /\ j.at = "reach"
  /\ Goes(w, IF installed = 0 THEN Idle
             ELSE [j EXCEPT !.reg = installed,
                     !.at = CASE j.op \in Probing -> "collect"
                              [] j.op \in {"switch", "open"} \/ (j.op = "start" /\ j.todo # {}) -> "resolve"
                              [] OTHER -> "mark",
                     !.todo = {}])
  /\ UNCHANGED <<runtimeVars, regs, children, worldVars, boundVars, crossed>>

\* rescan_after_successful_bash: every session of the registry with the same root.
Collect(w) ==
  LET j == jobs[w]
      project == ProjectOf(head[j.cwd])
      same == {s \in Sessions : Reg(w).bound[s] # None /\ Reg(w).bound[s].project.root = project.root} IN
  /\ j.at = "collect"
  /\ IF project = None \/ same = {} THEN GoesAt(w, "sync")
     ELSE \E s \in same :
            Goes(w, [j EXCEPT !.s = s, !.cwd = Reg(w).bound[s].cwd, !.at = "resolve",
                              !.todo = {[s |-> t, cwd |-> Reg(w).bound[t].cwd] : t \in same \ {s}}])
  /\ UNCHANGED <<runtimeVars, regs, children, worldVars, boundVars, crossed>>

\* Where a job goes when the association of one session is over.
Continuations(j) ==
  IF j.op \in {"start", "switch", "open"} THEN {[j EXCEPT !.at = "note"]}
  ELSE IF j.op = "settings" /\ j.mark # "none" THEN {[j EXCEPT !.at = "mark"]}
  ELSE IF j.op = "settings" THEN {[j EXCEPT !.at = "note"]}
  ELSE IF j.todo = {} THEN {[j EXCEPT !.at = "note"]}
  ELSE {[j EXCEPT !.at = "resolve", !.s = e.s, !.cwd = e.cwd, !.todo = @ \ {e}] : e \in j.todo}

\* What reconfigure_with does for the sessions it has read, one by one.
NextOfThem(j) ==
  IF j.todo = {} THEN {[j EXCEPT !.at = "adopt"]}
  ELSE {[j EXCEPT !.at = "resolve", !.s = e.s, !.cwd = e.cwd, !.todo = @ \ {e},
                  !.mark = IF e.active THEN "active" ELSE IF e.stop # 0 THEN "finish" ELSE "none",
                  !.time = e.stop] : e \in j.todo}

AfterFailure(j) ==
  CASE j.op = "start"                        -> {[j EXCEPT !.at = "mark"]}
    [] j.op \in {"switch", "bash", "probe"}  -> {[j EXCEPT !.at = "sync", !.notes = <<>>, !.todo = {}]}
    [] j.op = "open"                         -> {Idle}
    [] j.op = "settings"                     -> NextOfThem(j)

AfterNotes(j) ==
  CASE j.op = "start"    -> {[j EXCEPT !.at = "mark"]}
    [] j.op = "settings" -> NextOfThem(j)
    [] OTHER             -> {[j EXCEPT !.at = "sync"]}

-----------------------------------------------------------------------------
(***************************************************************************)
(* associate_session, with resolve_project_with and probe_project before   *)
(* the lock: the directory may have changed when it is taken.              *)
(***************************************************************************)
Resolve(w) ==
  LET j == jobs[w]
      project == ProjectOf(head[j.cwd]) IN
  /\ j.at = "resolve" /\ project # None
  /\ Goes(w, [j EXCEPT !.at = "enter", !.project = project,
                       !.avail = AvailabilityOf(head[j.cwd], project)])
  /\ UNCHANGED <<runtimeVars, regs, children, worldVars, boundVars, crossed>>

ResolveFails(w) ==
  LET j == jobs[w] IN
  /\ j.at = "resolve"
  /\ IF ProjectOf(head[j.cwd]) = None THEN UNCHANGED boundVars ELSE Incident
  /\ \E after \in AfterFailure(j) : Goes(w, after)
  /\ UNCHANGED <<runtimeVars, regs, children, worldVars, crossed>>

\* replace_session_binding keeps what is known of the session's activity.
Binding(r, j, avail, child) ==
  LET old == r.bound[j.s] IN
  [cwd |-> j.cwd, project |-> j.project, avail |-> avail, child |-> child,
   active |-> old # None /\ old.active, stop |-> IF old = None THEN 0 ELSE old.stop]

Used(r, p) ==
  IF r.services[p] = None THEN r ELSE [r EXCEPT !.recent = Append(Remove(@, p), p)]

Entered(w) ==
  LET j == jobs[w]
      r == [Reg(w) EXCEPT !.bound[j.s] = Binding(Reg(w), j, j.avail, 0)]
      service == r.services[j.project] IN
  /\ j.at = "enter"
  /\ UNCHANGED <<runtimeVars, worldVars, boundVars, crossed>>
  /\ IF j.avail # "ready"
     THEN /\ SetReg(j.reg, [r EXCEPT !.lock = w])
          /\ Goes(w, [j EXCEPT !.at = "bind"])
     ELSE /\ SetReg(j.reg, [Used(r, j.project) EXCEPT !.lock = w])
          /\ Goes(w, IF service = None THEN [j EXCEPT !.at = "begin"]
                     ELSE [j EXCEPT !.child = service.child,
                                    !.at = IF service.state = "live" THEN "bind" ELSE "check"])
  /\ Reaped(children)

Enter(w) == jobs[w].at = "enter" /\ Reg(w).lock = None /\ Entered(w)

\* A protected child is asked for a snapshot.
Check(w) ==
  LET j == jobs[w] IN
  /\ j.at = "check"
  /\ UNCHANGED <<runtimeVars, worldVars, crossed>>
  /\ \/ /\ children[j.child].running
        /\ SetReg(j.reg, [Reg(w) EXCEPT !.services[j.project].state = "live"])
        /\ GoesAt(w, "bind") /\ UNCHANGED <<children, boundVars>>
     \/ /\ IF children[j.child].running THEN Incident ELSE UNCHANGED boundVars
        /\ SetReg(j.reg, [Reg(w) EXCEPT !.services[j.project] = None,
                                        !.recent = Remove(@, j.project)])
        /\ Goes(w, [j EXCEPT !.at = "begin", !.child = 0]) /\ Reaped(children)

Begin(w) ==
  LET j == jobs[w] IN
  /\ j.at = "begin"
  /\ \/ /\ NextChild <= MaxChildren
        /\ children' = Append(children, Child(j.project, j.reg))
        /\ Goes(w, [j EXCEPT !.at = "insert", !.child = NextChild]) /\ UNCHANGED boundVars
     \/ /\ Incident /\ Goes(w, [j EXCEPT !.at = "bind", !.avail = "failed"])
        /\ UNCHANGED children
  /\ UNCHANGED <<runtimeVars, regs, worldVars, crossed>>

StillBound(w) ==
  LET j == jobs[w]
      b == Reg(w).bound[j.s] IN
  b # None /\ b.cwd = j.cwd /\ b.project = j.project

Inserted(r, p, c) ==
  [r EXCEPT !.services[p] = Service(c), !.recent = Append(Remove(@, p), p)]

\* The service is entered and the session bound, unless the session has gone
\* or moved meanwhile: then the handle is dropped with the answer.
Bind(w) ==
  LET j == jobs[w]
      r == [Reg(w) EXCEPT !.lock = None]
      s == IF j.at = "insert" THEN Inserted(r, j.project, j.child) ELSE r
      note == [project |-> j.project, failed |-> j.avail = "failed"] IN
  /\ j.at \in {"bind", "insert"}
  /\ UNCHANGED <<runtimeVars, worldVars, boundVars, crossed>>
  /\ SetReg(j.reg, IF StillBound(w) THEN [s EXCEPT !.bound[j.s] = Binding(s, j, j.avail, j.child)] ELSE r)
  /\ \E after \in Continuations([j EXCEPT !.notes = Append(@, note),
                                          !.child = IF j.op = "open" THEN @ ELSE 0]) :
       Goes(w, after)
  /\ Reaped(children)

\* Faulty variant: what has failed once is not forgotten.
NotedForGood(n) == IF n.failed THEN errors \cup {n.project} ELSE errors

Noted(n) == IF n.failed THEN errors \cup {n.project} ELSE errors \ {n.project}

\* note_state, for each session that was associated.
Note(w) ==
  LET j == jobs[w] IN
  /\ j.at = "note"
  /\ IF j.notes = <<>> THEN UNCHANGED errors /\ \E after \in AfterNotes(j) : Goes(w, after)
     ELSE LET n == Head(j.notes) IN
          /\ errors' = Noted(n)
          /\ IF Len(j.notes) > 1 THEN Goes(w, [j EXCEPT !.notes = Tail(@)])
             ELSE \E after \in AfterNotes([j EXCEPT !.notes = <<>>]) : Goes(w, after)
  /\ UNCHANGED <<sessions, selected, installed, adopted, cliError, regs, children, worldVars,
                 boundVars, crossed>>

-----------------------------------------------------------------------------
(***************************************************************************)
(* session_active, session_finished and session_closed of the registry:    *)
(* they take the state lock only, whatever holds sweep_lock.               *)
(***************************************************************************)
Stopped(r, p, time) ==
  IF r.services[p] = None THEN r ELSE [r EXCEPT !.services[p].stop = Later(@, time)]

Marked(r, s, mark, time) ==
  LET b == r.bound[s] IN
  IF b = None THEN r
  ELSE CASE mark = "active" -> [r EXCEPT !.bound[s].active = TRUE, !.bound[s].stop = 0]
         [] mark = "finish" -> Stopped([r EXCEPT !.bound[s].active = FALSE, !.bound[s].stop = time],
                                       b.project, time)
         [] mark = "close"  -> Stopped([r EXCEPT !.bound[s] = None], b.project, time)

Mark(w) ==
  LET j == jobs[w] IN
  /\ j.at = "mark"
  /\ UNCHANGED <<runtimeVars, worldVars, boundVars>>
  /\ crossed' = crossed \cup (IF j.op # "close" /\ Reg(w).bound[j.s] = None THEN {j.s} ELSE {})
  /\ SetReg(j.reg, Marked(Reg(w), j.s, j.mark, j.time))
  /\ Goes(w, CASE j.op = "close"    -> [j EXCEPT !.at = "sync"]
               [] j.op = "settings" -> [j EXCEPT !.at = "note"]
               [] OTHER             -> Idle)
  /\ Reaped(children)

\* sync_current_project finds the registry and the project of the selected
\* session, then tells the one of the other.
Sync(w) ==
  LET b == IF selected = None THEN None ELSE regs[installed].bound[selected] IN
  /\ jobs[w].at = "sync"
  /\ UNCHANGED <<runtimeVars, regs, worldVars, boundVars, crossed>>
  /\ Goes(w, IF installed = 0 THEN Idle
             ELSE [jobs[w] EXCEPT !.at = "set", !.reg = installed,
                                  !.project = IF b = None THEN None ELSE b.project])
  /\ Reaped(children)

\* A dashboard that was asked for is opened in the browser.
SetCurrent(w) ==
  LET j == jobs[w] IN
  /\ j.at = "set"
  /\ UNCHANGED <<runtimeVars, worldVars, boundVars, crossed>>
  /\ SetReg(j.reg, [Reg(w) EXCEPT !.current = j.project]) /\ Goes(w, Idle)
  /\ Reaped(IF j.op = "open" /\ j.child # 0 /\ children[j.child].running
            THEN [children EXCEPT ![j.child].client = TRUE] ELSE children)

-----------------------------------------------------------------------------
(***************************************************************************)
(* sweep.  A dashboard is a candidate when no active or current session    *)
(* has its project; one that was stopped a Window ago goes first, then the *)
(* least recently used while the budget is exceeded.                       *)
(***************************************************************************)
Live(r) == {p \in Projects : r.services[p] # None /\ r.services[p].state = "live"}
Protected(r) == {p \in Projects : r.services[p] # None /\ r.services[p].state = "protected"}
Required(r, p) ==
  r.current = p \/ \E s \in Sessions : r.bound[s] # None /\ r.bound[s].active /\ r.bound[s].project = p

\* refresh_stop_times
Stops(r, p) == {r.bound[s].stop : s \in {t \in Sessions : r.bound[t] # None /\ r.bound[t].project = p}}
Refreshed(r) ==
  [r EXCEPT !.services = [p \in Projects |->
     IF @[p] = None THEN None
     ELSE [@[p] EXCEPT !.stop = Max({@} \cup Stops(r, p))]]]

OverBudget(r) == Cardinality(Live(r) \cup Protected(r)) > Budget
Expired(r, p, time) == r.services[p].stop # 0 /\ r.services[p].stop + Window <= time

Rank(r, p) == SelectInSeq(r.recent, LAMBDA q : q = p)
Oldest(r, ps) == CHOOSE p \in ps : \A q \in ps : Rank(r, p) <= Rank(r, q)

Reclaimable(r, time) ==
  LET idle == {p \in Live(r) : ~Required(r, p)}
      expired == {p \in idle : Expired(r, p, time)} IN
  IF expired # {} THEN {Oldest(r, expired)}
  ELSE IF OverBudget(r) /\ idle # {} THEN {Oldest(r, idle)} ELSE {}

KeeperCalls(op) ==
  LET cwd == IF selected = None THEN None ELSE sessions[selected] IN
  /\ MayBegin(Keeper) /\ installed # 0
  /\ Goes(Keeper, [Idle EXCEPT !.op = op, !.reg = installed,
                     !.time = IF op = "sweep" THEN now ELSE 0,
                     !.cwd = IF op = "probe" /\ cwd # None THEN cwd.cwd ELSE None,
                     !.at = IF op = "sweep" THEN "lock" ELSE "collect"])
  /\ op = "probe" => cwd # None
  /\ UNCHANGED <<runtimeVars, regs, children, worldVars, boundVars, crossed>>

Lock(w) ==
  LET j == jobs[w] IN
  /\ j.at = "lock" /\ Reg(w).lock = None
  /\ SetReg(j.reg, [Reg(w) EXCEPT !.lock = w])
  /\ Goes(w, [j EXCEPT !.at = "pick", !.kept = IF j.op = "sweep" THEN Protected(Reg(w)) ELSE {}])
  /\ UNCHANGED <<runtimeVars, children, worldVars, boundVars, crossed>>

\* shutdown_all takes every child that is not protected.
Chosen(r, j) == IF j.op = "sweep" THEN Reclaimable(r, j.time) ELSE Live(r)

Pick(w) ==
  LET j == jobs[w]
      r == IF j.op = "sweep" THEN Refreshed(Reg(w)) ELSE Reg(w) IN
  /\ j.at = "pick"
  /\ UNCHANGED <<runtimeVars, worldVars, boundVars, crossed>>
  /\ IF Chosen(r, j) = {}
     THEN /\ IF j.kept # {} THEN SetReg(j.reg, r) /\ GoesAt(w, "kept")
             ELSE /\ SetReg(j.reg, [r EXCEPT !.lock = None])
                  /\ Goes(w, IF j.op = "sweep" THEN Idle ELSE [j EXCEPT !.at = "install", !.reg = 0])
          /\ Reaped(children)
     ELSE \E p \in Chosen(r, j) :
            /\ SetReg(j.reg, r)
            /\ Goes(w, [j EXCEPT !.at = "asked", !.project = p])
            /\ Reaped(Unfollowed(r.services[p].child))

\* Faulty variant: a child that has outlived the grace is given up with its handle.
EndedForcing(w) ==
  LET j == jobs[w]
      r == [Reg(w) EXCEPT !.services[j.project] = None, !.recent = Remove(@, j.project)] IN
  /\ j.at = "asked" /\ SetReg(j.reg, r)
  /\ UNCHANGED <<runtimeVars, worldVars, boundVars, crossed>>
  /\ GoesAt(w, IF j.op = "sweep" /\ Required(r, j.project) THEN "again" ELSE "pick")
  /\ Reaped(children)

\* The child has exited within the grace; in a sweep its project may be needed again.
Ended(w) ==
  LET j == jobs[w]
      r == [Reg(w) EXCEPT !.services[j.project] = None, !.recent = Remove(@, j.project)] IN
  /\ j.at = "asked" /\ ~children[Reg(w).services[j.project].child].running
  /\ SetReg(j.reg, r)
  /\ GoesAt(w, IF j.op = "sweep" /\ Required(r, j.project) THEN "again" ELSE "pick")
  /\ UNCHANGED <<runtimeVars, children, worldVars, boundVars, crossed>>

\* Or it has not, as somebody else uses it.
Outlives(w) ==
  LET j == jobs[w]
      child == children[Reg(w).services[j.project].child] IN
  /\ j.at = "asked" /\ child.running /\ child.client
  /\ SetReg(j.reg, [Reg(w) EXCEPT !.services[j.project].state = "protected"]) /\ GoesAt(w, "pick")
  /\ UNCHANGED <<runtimeVars, children, worldVars, boundVars, crossed>>

\* Every session of the project is bound to the new child, or to its failure.
Rebound(r, p, avail, c) ==
  [r EXCEPT !.bound = [s \in Sessions |->
     IF @[s] = None THEN None
     ELSE IF @[s].project = p THEN [@[s] EXCEPT !.avail = avail, !.child = c] ELSE @[s]]]

\* Faulty variant: the new child is not entered.
AgainUnentered(w) ==
  LET j == jobs[w] IN
  /\ j.at = "again" /\ GoesAt(w, "pick") /\ NextChild <= MaxChildren
  /\ UNCHANGED <<runtimeVars, worldVars, boundVars, crossed>>
  /\ SetReg(j.reg, Rebound(Reg(w), j.project, "ready", NextChild))
  /\ Reaped(Append(children, Child(j.project, j.reg)))

Again(w) ==
  LET j == jobs[w] IN
  /\ j.at = "again" /\ GoesAt(w, "pick")
  /\ UNCHANGED <<runtimeVars, worldVars, crossed>>
  /\ \/ /\ NextChild <= MaxChildren /\ UNCHANGED boundVars
        /\ SetReg(j.reg, Rebound(Inserted(Reg(w), j.project, NextChild), j.project, "ready", NextChild))
        /\ Reaped(Append(children, Child(j.project, j.reg)))
     \/ /\ Incident /\ SetReg(j.reg, Rebound(Reg(w), j.project, "failed", 0))
        /\ Reaped(children)

\* Those that were protected before the sweep are looked at without any grace.
Kept(w) ==
  LET j == jobs[w] IN
  /\ j.at = "kept"
  /\ UNCHANGED <<runtimeVars, worldVars, boundVars, crossed>>
  /\ \E p \in j.kept :
       LET gone == ~children[Reg(w).services[p].child].running
           r == IF gone THEN [Reg(w) EXCEPT !.services[p] = None, !.recent = Remove(@, p)] ELSE Reg(w)
           last == j.kept = {p} IN
       /\ SetReg(j.reg, IF last THEN [r EXCEPT !.lock = None] ELSE r)
       /\ Goes(w, IF last THEN Idle ELSE [j EXCEPT !.kept = @ \ {p}])
  /\ Reaped(children)

-----------------------------------------------------------------------------
(***************************************************************************)
(* reconfigure_with, one at a time.  When another executable is adopted,   *)
(* or none, the registry is taken away, its children are shut down and it  *)
(* is let go; then every session is told to the registry.                  *)
(***************************************************************************)
Reconfigure(enabled, path) ==
  LET found == IF enabled THEN DiscoverDow(path, Machine) ELSE None
      restart == IF installed = 0 THEN found # None
                 ELSE found = None \/ adopted = None \/ adopted.exe # found.exe IN
  /\ MayBegin(Settings) /\ calls < MaxCalls /\ calls' = calls + 1
  /\ UNCHANGED <<sessions, selected, adopted, errors, regs, worldVars, incidents, crossed>>
  /\ cliError' = (cliError \/ (enabled /\ found = None))
  /\ installed' = IF restart THEN 0 ELSE installed
  /\ Goes(Settings, [Idle EXCEPT !.op = "settings", !.found = found,
                       !.mark = IF enabled THEN "none" ELSE "disabled",
                       !.at = CASE ~restart                   -> IF found = None THEN "none" ELSE "read"
                                [] restart /\ installed # 0   -> "lock"
                                [] restart /\ installed = 0   -> "install",
                       !.reg = installed])
  /\ Reaped(children)

Install ==
  LET j == jobs[Settings] IN
  /\ j.at = "install"
  /\ IF j.found = None THEN GoesAt(Settings, "none") /\ UNCHANGED <<installed, regs>>
     ELSE /\ regs' = Append(regs, EmptyRegistry) /\ installed' = Len(regs) + 1
          /\ Goes(Settings, [j EXCEPT !.at = "read", !.reg = Len(regs) + 1])
  /\ UNCHANGED <<sessions, selected, adopted, cliError, errors, children, worldVars, boundVars, crossed>>

\* The sessions are copied, and their lock is released.
ReadSessions ==
  LET all == {[s |-> s, cwd |-> sessions[s].cwd, active |-> sessions[s].active,
               stop |-> sessions[s].stop] : s \in {t \in Sessions : Known(t)}} IN
  /\ jobs[Settings].at = "read"
  /\ \E after \in NextOfThem([jobs[Settings] EXCEPT !.todo = all]) : Goes(Settings, after)
  /\ UNCHANGED <<runtimeVars, regs, children, worldVars, boundVars, crossed>>

Adopt ==
  /\ jobs[Settings].at = "adopt"
  /\ adopted' = jobs[Settings].found /\ cliError' = FALSE
  /\ Goes(Settings, [jobs[Settings] EXCEPT !.at = "sync", !.mark = "none"])
  /\ UNCHANGED <<sessions, selected, installed, errors, regs, children, worldVars, boundVars, crossed>>

\* Without an executable: a wish of the user resolves the errors, a failure none.
AdoptNone ==
  LET disabled == jobs[Settings].mark = "disabled" IN
  /\ jobs[Settings].at = "none" /\ adopted' = None
  /\ cliError' = (cliError /\ ~disabled)
  /\ errors' = IF disabled THEN {} ELSE errors
  /\ GoesAt(Settings, "sync")
  /\ UNCHANGED <<sessions, selected, installed, regs, children, worldVars, boundVars, crossed>>

-----------------------------------------------------------------------------
(***************************************************************************)
(* What happens outside: time; a browser that lets go of a dashboard; a    *)
(* dashboard nobody is connected to, which ends itself before the grace    *)
(* does; one that dies.                                                    *)
(***************************************************************************)
Tick == now < MaxTime /\ now' = now + 1
        /\ UNCHANGED <<runtimeVars, regs, children, jobs, head, boundVars, crossed>>

Leave(c) ==
  /\ children[c].client /\ children' = [children EXCEPT ![c].client = FALSE]
  /\ UNCHANGED <<runtimeVars, regs, jobs, worldVars, boundVars, crossed>>

Exit(c) ==
  /\ children[c].running /\ ~children[c].client /\ ~children[c].followed
  /\ children' = [children EXCEPT ![c].running = FALSE]
  /\ UNCHANGED <<runtimeVars, regs, jobs, worldVars, boundVars, crossed>>

Die(c) ==
  /\ children[c].running /\ Incident
  /\ children' = [children EXCEPT ![c].running = FALSE]
  /\ UNCHANGED <<runtimeVars, regs, jobs, worldVars, crossed>>

-----------------------------------------------------------------------------
AssociateSteps(w) ==
  \/ Reach(w) \/ Collect(w) \/ Resolve(w) \/ ResolveFails(w) \/ Enter(w) \/ Check(w) \/ Begin(w)
  \/ Bind(w) \/ Note(w) \/ Mark(w) \/ Sync(w) \/ SetCurrent(w)
StopSteps(w) == Lock(w) \/ Pick(w) \/ Ended(w) \/ Outlives(w) \/ Again(w) \/ Kept(w)

CallerNext ==
  \E w \in Callers :
    \/ \E s \in Sessions, op \in {"start", "resume", "finish", "close", "switch", "bash", "open"} :
         \E cwd \in Homes[s] : Call(w, op, s, cwd)
    \/ AssociateSteps(w)

SettingsNext ==
  \/ \E enabled \in BOOLEAN, path \in Paths : Reconfigure(enabled, path)
  \/ Install \/ ReadSessions \/ Adopt \/ AdoptNone
  \/ StopSteps(Settings) \/ AssociateSteps(Settings)

WorldNext == Tick \/ \E c \in DOMAIN children : Leave(c) \/ Exit(c) \/ Die(c)

(***************************************************************************)
(* A probe is undisturbed when nobody else is at work when it begins and   *)
(* nothing else happens until it ends.                                     *)
(***************************************************************************)
KeeperBegins ==
  \E op \in {"sweep", "probe"} :
    /\ KeeperCalls(op)
    /\ quiet' = IF op = "probe" /\ \A w \in Workers : jobs[w] = Idle THEN "probing" ELSE "no"

KeeperGoesOn ==
  /\ AssociateSteps(Keeper) \/ StopSteps(Keeper)
  /\ quiet' = IF quiet = "probing" /\ jobs'[Keeper] = Idle THEN "settled"
              ELSE IF jobs[Keeper].at \in {"collect", "resolve"} /\ jobs'[Keeper].at = "sync"
              THEN "no" ELSE quiet

Next ==
  \/ (CallerNext \/ SettingsNext \/ WorldNext) /\ quiet' = "no"
  \/ KeeperBegins \/ KeeperGoesOn

Spec == Init /\ [][Next]_registryVars

-----------------------------------------------------------------------------
Times == 0..MaxTime
BoundTo == [cwd : Cwds, project : Projects, child : 0..MaxChildren, active : BOOLEAN, stop : Times,
            avail : {"ready", "failed", "unsupported", "ambiguous", "not initialized",
                     "unreadable", "probe failed"}]

\* Services are of projects that are in the order of use, once each (RegistryState).
TypeOK ==
  /\ \A s \in Sessions : Known(s) => sessions[s] \in [cwd : Homes[s], active : BOOLEAN, stop : Times]
  /\ selected # None => Known(selected)
  /\ installed \in 0..Len(regs) /\ errors \subseteq Projects /\ cliError \in BOOLEAN
  /\ \A g \in DOMAIN regs :
       /\ \A s \in Sessions : regs[g].bound[s] # None => regs[g].bound[s] \in BoundTo
       /\ \A p \in Projects : regs[g].services[p] # None =>
            regs[g].services[p] \in [child : DOMAIN children, state : {"live", "protected"}, stop : Times]
       /\ IsInjective(regs[g].recent)
       /\ ToSet(regs[g].recent) = {p \in Projects : regs[g].services[p] # None}

Resting(w) == jobs[w] = Idle
AtRest == \A w \in Workers : Resting(w)
Entered1(g, c) == \E p \in Projects : regs[g].services[p] # None /\ regs[g].services[p].child = c

\* A registry has one child for a project (association keeps sweep_lock through
\* start and entry), unless a child that would not answer was given up for another.
OneDashboardEach ==
  \A c, d \in DOMAIN children :
    (c # d /\ children[c].running /\ children[d].running /\ children[c].reg = children[d].reg)
    => (children[c].project # children[d].project \/ incidents > 0)

\* When nobody is at work a child that runs is one the registry in force will shut down: a start
\* that was overtaken by a close, a branch change, a sweep or a reconfiguration leaves none behind.
NoneIsLeftBehind ==
  AtRest => \A c \in DOMAIN children :
              children[c].running => (installed # 0 /\ Entered1(installed, c)) \/ incidents > 0

(***************************************************************************)
(* A child somebody else is connected to is not killed by the registry     *)
(* that has it, whatever ends, closes or is swept.                         *)
(***************************************************************************)
ClientsAreSpared ==
  [][\A c \in DOMAIN children :
       (children[c].running /\ children[c].client /\ ~children'[c].running)
       => (incidents' > incidents \/ children[c].reg # installed')]_registryVars

(***************************************************************************)
(* The child a sweep or a shutdown waits for stays in the registry: the    *)
(* locks are free meanwhile, and the answer is applied without looking.    *)
(***************************************************************************)
WaitedForIsThere ==
  \A w \in Workers :
    /\ jobs[w].at = "asked" => Reg(w).services[jobs[w].project] # None
    /\ jobs[w].at = "kept" => \A p \in jobs[w].kept : Reg(w).services[p] # None

(***************************************************************************)
(* Every dashboard process is known: one for a project, none that was      *)
(* started and then forgotten, and a call that waits for one waits for a   *)
(* process that is there. Only a process that would not answer is given up *)
(* for another.                                                            *)
(***************************************************************************)
RegistryInvariant ==
  /\ TypeOK
  /\ OneDashboardEach
  /\ NoneIsLeftBehind
  /\ WaitedForIsThere

(***************************************************************************)
(* When nobody is at work the registry takes for active the sessions that  *)
(* run, or a dashboard in use could be reclaimed, and one that is not      *)
(* never; unless the session started or stopped while a reconfiguration    *)
(* held a copy of what it was, or before the registry had bound it.        *)
(***************************************************************************)
RunningIsProtected ==
  (AtRest /\ installed # 0) =>
    \A s \in Sessions \ crossed :
      (Known(s) /\ regs[installed].bound[s] # None) => regs[installed].bound[s].active = sessions[s].active

(***************************************************************************)
(* One probe nobody disturbs puts the selected session right, whatever     *)
(* went before: the project of its directory now is the current one; a     *)
(* dashboard that is said to be ready is the one entered, and runs unless  *)
(* it has ended by itself; a failure to start is shown, and no other.      *)
(***************************************************************************)
ProbeSettles ==
  (quiet = "settled" /\ selected # None) =>
    LET r == regs[installed]
        b == r.bound[selected] IN
    (b # None /\ b.cwd = sessions[selected].cwd) =>
      /\ ProjectOf(head[b.cwd]) = b.project /\ r.current = b.project
      /\ b.avail = "ready" =>
           /\ r.services[b.project] # None /\ r.services[b.project].child = b.child
           /\ r.services[b.project].state = "live"
      /\ (b.project \in errors) = (b.avail = "failed" /\ r.services[b.project] = None)

(***************************************************************************)
(* The keeper of the GUI is right at rest: the projects of sessions at     *)
(* work are protected from being closed for room, and what a probe found   *)
(* out about the selected session stays noted until it changes.            *)
(***************************************************************************)
KeeperInvariant ==
  /\ RunningIsProtected
  /\ ProbeSettles

=============================================================================
