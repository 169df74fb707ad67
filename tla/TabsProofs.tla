------------------------------ MODULE TabsProofs ------------------------------
(***************************************************************************)
(* Proofs about SessionTabs, for every set of sessions, every capacity of  *)
(* the channels and every number of messages and incidents.  TabsInvariant *)
(* says in its parts what the sessions share with their tabs: who runs,    *)
(* what waits, what the view was shown, which turns a tab has still to     *)
(* hear of.                                                                *)
(***************************************************************************)
EXTENDS SessionTabs, SelectionTheorems, FiniteSetTheorems

SaidType == [kind : {"user", "reply", "error", "steer", "partial"}, n : Nat]
Entries ==
  SaidType \cup [kind : {"started"}, n : Nat] \cup [kind : {"summary"}, changes : SUBSET Nat]

\* All but the end of a run tell one message.
EventType ==
  {e \in [type : {"start", "user", "partial", "reply", "end"}, messages : Seq(SaidType)] :
     /\ e.type # "end" => Len(e.messages) = 1
     /\ e.type = "user" => e.messages[1].kind = "steer"
     /\ e.type = "start" => e.messages[1].kind = "user"
     /\ e.type = "partial" => e.messages[1].kind = "partial"}
ViewType ==
  [messages : Seq(SaidType), streaming : BOOLEAN, base : Nat, at : Nat, interaction : BOOLEAN,
   activity : SUBSET Nat, summary : SUBSET SUBSET Nat, queue : Seq(Nat), steering : Seq(Nat)]
IsView(v) == v \in ViewType /\ v.base <= Len(v.messages)
ChainType ==
  [session : Sessions, prompt : Nat,
   at : {"off", "sending", "prompting", "running", "replied", "returned", "failed", "finishing"}]

Mishaps ==
  {"missed", "lagged", "late", "double", "stale", "unsent", "aborted", "error in turn"}

AgentTypes ==
  /\ file \in [Sessions -> Seq(Entries)]
  /\ running \in [Sessions -> BOOLEAN]
  /\ steering \in [Sessions -> Seq(Nat)]
  /\ channel \in [Sessions -> Seq(EventType)]

ScreenTypes ==
  /\ tabs \in Seq(Sessions) /\ active \in 1..Len(tabs)
  /\ phase \in [Sessions -> {"none", "loaded", "active"}]
  /\ forwarder \in [Sessions -> {"off", "spawned", "on"}]
  /\ emitting \subseteq {"task", "forwarder"} \X Sessions
  /\ shown \in [session : Sessions, streaming : BOOLEAN]

TabsTypes ==
  /\ AgentTypes /\ ScreenTypes
  /\ live \in [Sessions -> ViewType] /\ \A s \in Sessions : IsView(live[s])
  /\ chain \in [Messages -> ChainType]
  /\ typed \in 0..MaxMessages
  /\ accepted \subseteq 1..typed
  /\ mishaps \in [Sessions -> SUBSET Mishaps]

(***************************************************************************)
(* A session has at most one tab.  One that is not active has never had a  *)
(* chain, an agent or a forwarder.                                         *)
(***************************************************************************)
TabsOnce ==
  /\ \A i, j \in 1..Len(tabs) : tabs[i] = tabs[j] => i = j
  /\ \A s \in Sessions : phase[s] = "none" <=> ~HasTab(s)

Fresh(v) ==
  /\ v.queue = <<>> /\ v.steering = <<>> /\ v.summary = {} /\ v.base = 0
  /\ ~v.streaming /\ ~v.interaction
OnlyActive(s) ==
  /\ \A n \in ChainsOf(s) : n <= typed /\ phase[s] = "active"
  /\ forwarder[s] # "off" => phase[s] = "active"
  /\ channel[s] # <<>> => forwarder[s] = "on"
  /\ phase[s] # "active" =>
       /\ steering[s] = <<>> /\ Fresh(live[s])
       /\ file[s] \in {<<>>, <<Said("started", 0), Said("user", 0), Said("reply", 0)>>}
       /\ phase[s] = "none" /\ s \notin Saved => file[s] = <<>>

(***************************************************************************)
(* One prompt of a session runs at a time.                                 *)
(***************************************************************************)
InRun(n) == chain[n].at \in {"running", "replied"}
OneRun(s) ==
  /\ \A n, m \in ChainsOf(s) : InRun(n) /\ InRun(m) => n = m
  /\ running[s] <=> \E n \in ChainsOf(s) : InRun(n)

(***************************************************************************)
(* What was steered: in the agent's queue, in its tab, in the events.      *)
(***************************************************************************)
Once(q) == \A i, j \in 1..Len(q) : q[i] = q[j] => i = j
Hearing(c) == {i \in 1..Len(c) : c[i].type = "user"}
Tells1(c, i) == c[i].messages[1].n
HeardOnce(q, c, top) ==
  /\ Once(q) /\ \A n \in ToSet(q) : n <= top
  /\ \A i, j \in Hearing(c) : Tells1(c, i) = Tells1(c, j) => i = j
  /\ \A i \in Hearing(c) : Tells1(c, i) <= top /\ Tells1(c, i) \notin ToSet(q)
SteeredOnce(s) ==
  /\ Once(live[s].steering) /\ \A n \in ToSet(live[s].steering) : n <= typed
  /\ HeardOnce(steering[s], channel[s], typed)

\* The numbers that are still to be heard, or seen to be.
WaitsAt(q, c) == ToSet(q) \cup {Tells1(c, i) : i \in Hearing(c)}
SteeringIsShown(s) ==
  Spared(s, Lost \cup {"aborted"}) =>
    ToSet(live[s].steering) = WaitsAt(steering[s], channel[s])

(***************************************************************************)
(* What was queued, in a session nothing of the kind befell.               *)
(***************************************************************************)
OneChain(s) == Spared(s, {"double"}) => \A n, m \in ChainsOf(s) : n = m
QueueIsTaken(s) == Spared(s, Unheard) /\ live[s].queue # <<>> => Busy(s)

Held(s, n) ==
  \/ Contains(live[s].queue, n) \/ Contains(file[s], Said("user", n))
  \/ \E m \in ChainsOf(s) : chain[m].prompt = n /\ chain[m].at = "prompting"
AllAccounted ==
  (\A s \in Sessions : Spared(s, Unheard)) => \A n \in accepted : \E s \in Sessions : Held(s, n)

(***************************************************************************)
(* What the main view shows of the active session, or will be shown.       *)
(***************************************************************************)
ScreenIsTold ==
  shown.session = Active =>
    shown.streaming = live[Active].streaming \/ \E e \in emitting : e[2] = Active

(***************************************************************************)
(* An interaction lasts as long as its chain.                              *)
(***************************************************************************)
Taking(s) == \E n \in ChainsOf(s) : chain[n].at \notin {"sending", "finishing"}
Lasts(v, work, taking, f) ==
  /\ v.interaction <=> work
  /\ v.streaming => work
  /\ v.queue # <<>> => taking
  /\ v.summary # {} => ~work /\ v.summary = {ChangedSinceStart(f)}
InteractionLasts(s) ==
  Spared(s, {"late", "stale", "double"}) => Lasts(live[s], AtWork(s), Taking(s), file[s])

(***************************************************************************)
(* The turns a tab has still to hear of.  The text of a tab is what it     *)
(* shows of the turns that are over.  Each event takes it from one text to *)
(* the next, and the last is what the session file has, or will have when  *)
(* the reply is written.  A tab whose prompt failed waits for the report.  *)
(***************************************************************************)
InLoop(s) == \E n \in ChainsOf(s) : chain[n].at = "running"
Failing(s) == \E n \in ChainsOf(s) : chain[n].at = "failed"

Rests(c, loop, i) == IF i <= Len(c) THEN c[i].type = "start" ELSE ~loop
Text(v, rests) == Unsteered(IF rests THEN v.messages ELSE SubSeq(v.messages, 1, v.base))
Texts(t, v, c, loop) ==
  /\ t[1] = Text(v, Rests(c, loop, 1))
  /\ Len(c) > 0 /\ c[1].type = "reply" => v.at > v.base /\ v.at <= Len(v.messages)
  /\ \A i \in 1..Len(c) :
       /\ c[i].type = "end" => t[i + 1] = t[i] \o Unsteered(c[i].messages)
                                 /\ Rests(c, loop, i + 1)
       /\ c[i].type # "end" => t[i + 1] = t[i] /\ ~Rests(c, loop, i + 1)
       /\ i < Len(c) /\ c[i + 1].type = "reply" => c[i].type = "partial"

Due(s, text) ==
  /\ \A n \in ChainsOf(s) :
       /\ chain[n].at = "running" => Loaded(file[s]) = Append(text, Said("user", chain[n].prompt))
       /\ chain[n].at = "replied" => text = Append(Loaded(file[s]), Said("reply", chain[n].prompt))
  /\ (\A n \in ChainsOf(s) : ~InRun(n)) => text = Loaded(file[s])

Telling(v, c, loop, text) ==
  \E t \in [1..(Len(c) + 1) -> Seq(SaidType)] : Texts(t, v, c, loop) /\ t[Len(c) + 1] = text
Follows(s) ==
  \E text \in Seq(SaidType) : Telling(live[s], channel[s], InLoop(s), text) /\ Due(s, text)
ViewFollows(s) ==
  HasTab(s) /\ Spared(s, Lost \cup {"error in turn"}) /\ ~Failing(s) => Follows(s)

TabsInvariant ==
  /\ TabsTypes /\ TabsOnce
  /\ \A s \in Sessions : /\ OnlyActive(s) /\ OneRun(s) /\ SteeredOnce(s) /\ SteeringIsShown(s)
                         /\ OneChain(s) /\ QueueIsTaken(s)
                         /\ InteractionLasts(s) /\ ViewFollows(s)
  /\ AllAccounted /\ ScreenIsTold

-----------------------------------------------------------------------------
(***************************************************************************)
(* The first place in a sequence of what is in it.                         *)
(***************************************************************************)
LEMMA FirstPlace ==
  ASSUME NEW X, NEW q \in Seq(X), NEW x, Contains(q, x)
  PROVE  /\ FirstOf(q, x) \in 1..Len(q) /\ q[FirstOf(q, x)] = x
         /\ \A j \in 1..Len(q) : q[j] = x => FirstOf(q, x) <= j
<1> DEFINE I == {i \in 1..Len(q) : q[i] = x}
<1>1. I # {} /\ I \in SUBSET Nat
  BY DEF Contains
<1>2. PICK i \in I : \A j \in I : i <= j
  BY <1>1, LeastMember
<1>3. Min(I) \in I /\ \A j \in I : Min(I) <= j
  BY <1>2 DEF Min
<1>4. FirstOf(q, x) = Min(I)
  BY <1>1 DEF FirstOf, SelectInSeq
<1>5. Len(q) \in Nat
  OBVIOUS
<1> HIDE DEF I
<1>6. Min(I) \in 1..Len(q) /\ q[Min(I)] = x /\ \A j \in 1..Len(q) : q[j] = x => Min(I) <= j
  BY <1>3 DEF I
<1> QED
  BY <1>4, <1>5, <1>6

(***************************************************************************)
(* The last place in a file of an entry of a kind, 0 if there is none.     *)
(***************************************************************************)
LEMMA LastPlace ==
  ASSUME NEW X, NEW q \in Seq(X), NEW kind
  PROVE  /\ LastOf(q, kind) \in 0..Len(q)
         /\ LastOf(q, kind) # 0 => q[LastOf(q, kind)].kind = kind
         /\ \A j \in 1..Len(q) : q[j].kind = kind => LastOf(q, kind) >= j
<1> DEFINE I == {i \in 1..Len(q) : q[i].kind = kind}
<1>1. I \in SUBSET Nat /\ (\A n \in I : n <= Len(q)) /\ Len(q) \in Nat
  OBVIOUS
<1>2. LastOf(q, kind) = IF I # {} THEN Max(I) ELSE 0
  BY DEF LastOf, SelectLastInSeq
<1>3. CASE I = {}
  BY <1>1, <1>2, <1>3
<1>4. CASE I # {}
  <2>1. PICK i \in I : \A j \in I : i >= j
    BY <1>1, <1>4, GreatestMember
  <2>2. Max(I) \in I /\ \A j \in I : Max(I) >= j
    BY <2>1 DEF Max
  <2> HIDE DEF I
  <2>3. Max(I) \in 1..Len(q) /\ q[Max(I)].kind = kind
          /\ \A j \in 1..Len(q) : q[j].kind = kind => Max(I) >= j
    BY <2>2 DEF I
  <2> QED
    BY <1>1, <1>2, <1>4, <2>3
<1> QED
  BY <1>3, <1>4

(***************************************************************************)
(* The last message of an assistant in a tab.                              *)
(***************************************************************************)
LEMMA LastAssistant ==
  ASSUME NEW X, NEW q \in Seq(X)
  PROVE  SelectLastInSeq(q, IsAssistant) \in 0..Len(q)
<1> DEFINE I == {i \in 1..Len(q) : IsAssistant(q[i])}
<1>1. I \in SUBSET Nat /\ (\A n \in I : n <= Len(q)) /\ Len(q) \in Nat
  OBVIOUS
<1>2. SelectLastInSeq(q, IsAssistant) = IF I # {} THEN Max(I) ELSE 0
  BY DEF SelectLastInSeq
<1>3. CASE I # {}
  <2>1. PICK i \in I : \A j \in I : i >= j
    BY <1>1, <1>3, GreatestMember
  <2>2. Max(I) \in I
    BY <2>1 DEF Max
  <2> QED
    BY <1>1, <1>2, <1>3, <2>2
<1> QED
  BY <1>1, <1>2, <1>3

-----------------------------------------------------------------------------
(***************************************************************************)
(* The fields of a view, one by one.                                       *)
(***************************************************************************)
LEMMA AtType ==
  ASSUME NEW v \in ViewType, NEW n \in Nat
  PROVE  [v EXCEPT !.at = n] \in ViewType
  BY DEF ViewType

LEMMA BegunType ==
  ASSUME NEW v, IsView(v)
  PROVE  /\ IsView(Begun(v))
         /\ Begun(v).messages = v.messages /\ Begun(v).streaming = v.streaming
         /\ Begun(v).base = v.base /\ Begun(v).at = v.at /\ Begun(v).interaction
         /\ Begun(v).summary = {}
         /\ Begun(v).queue = v.queue /\ Begun(v).steering = v.steering
  BY DEF Begun, IsView, ViewType

LEMMA FinishedType ==
  ASSUME NEW v, IsView(v), NEW changes \in SUBSET Nat
  PROVE  LET w == Finished(v, changes) IN
         /\ IsView(w)
         /\ w.messages = v.messages /\ w.base = v.base /\ w.at = v.at
         /\ ~w.streaming /\ ~w.interaction /\ w.summary = {changes}
         /\ w.queue = v.queue /\ w.steering = v.steering
  BY DEF Finished, IsView, ViewType

LEMMA BeginsType ==
  ASSUME NEW v, IsView(v)
  PROVE  LET w == Begins(v) IN
         /\ IsView(w)
         /\ w.messages = v.messages /\ w.base = Len(v.messages) /\ w.streaming
         /\ w.interaction /\ w.summary = (IF v.interaction THEN v.summary ELSE {})
         /\ w.queue = v.queue /\ w.steering = v.steering
<1>1. IsView(IF v.interaction THEN v ELSE Begun(v))
  BY BegunType
<1> DEFINE u == IF v.interaction THEN v ELSE Begun(v)
<1>2. /\ IsView(u) /\ u.messages = v.messages /\ u.queue = v.queue /\ u.steering = v.steering
      /\ u.interaction /\ u.summary = (IF v.interaction THEN v.summary ELSE {})
  <2>1. v \in ViewType
    BY DEF IsView
  <2> QED
    BY <1>1, <2>1, BegunType DEF ViewType
<1>3. Begins(v) = [u EXCEPT !.base = Len(v.messages), !.streaming = TRUE, !.at = 0]
  BY DEF Begins
<1> HIDE DEF u
<1>4. Len(v.messages) \in Nat
  BY DEF IsView, ViewType
<1> DEFINE n == Len(v.messages)
<1>5. /\ u \in ViewType /\ n \in Nat /\ u.messages = v.messages
      /\ Begins(v) = [u EXCEPT !.base = n, !.streaming = TRUE, !.at = 0]
  BY <1>2, <1>3, <1>4 DEF IsView
<1>6. n <= Len(v.messages)
  BY <1>4
<1> HIDE DEF n
<1>8. Begins(v) \in ViewType
  <2>1. [u EXCEPT !.base = n, !.streaming = TRUE] \in ViewType
    BY <1>5 DEF ViewType
  <2>2. [[u EXCEPT !.base = n, !.streaming = TRUE] EXCEPT !.at = 0] \in ViewType
    BY <2>1, AtType
  <2> QED
    BY <1>5, <2>2, Zenon
<1>7. LET w == Begins(v) IN
      /\ w.messages = u.messages /\ w.base = n /\ w.streaming
      /\ w.interaction = u.interaction /\ w.summary = u.summary
      /\ w.queue = u.queue /\ w.steering = u.steering
  BY <1>5 DEF ViewType
<1> QED
  BY <1>2, <1>5, <1>6, <1>7, <1>8 DEF IsView, n

LEMMA ShowsType ==
  ASSUME NEW v, IsView(v), NEW m \in SaidType
  PROVE  LET w == Shows(v, m) IN
         /\ IsView(w)
         /\ w.messages = Append(v.messages, m)
         /\ w.at = (IF IsAssistant(m) THEN Len(v.messages) + 1 ELSE v.at)
         /\ w.base = v.base /\ w.streaming = v.streaming /\ w.interaction = v.interaction
         /\ w.summary = v.summary /\ w.queue = v.queue /\ w.steering = v.steering
<1> DEFINE ms == Append(v.messages, m)
           a == IF IsAssistant(m) THEN Len(v.messages) + 1 ELSE v.at
<1>1. v \in ViewType /\ v.messages \in Seq(SaidType) /\ v.base <= Len(v.messages)
  BY DEF IsView, ViewType
<1>2. ms \in Seq(SaidType) /\ v.base <= Len(ms)
  BY <1>1, AppendProperties DEF ViewType
<1>3. a \in Nat
  BY <1>1 DEF ViewType
<1>4. Shows(v, m) = [v EXCEPT !.messages = ms, !.at = a]
  BY <1>1 DEF Shows, ViewType
<1> HIDE DEF ms, a
<1>6. Shows(v, m) \in ViewType
  <2>1. [v EXCEPT !.messages = ms] \in ViewType
    BY <1>1, <1>2 DEF ViewType
  <2>2. [[v EXCEPT !.messages = ms] EXCEPT !.at = a] \in ViewType
    BY <1>3, <2>1, AtType
  <2> QED
    BY <1>4, <2>2, Zenon
<1>5. LET w == Shows(v, m) IN
      /\ w.messages = ms /\ w.at = a
      /\ w.base = v.base /\ w.streaming = v.streaming /\ w.interaction = v.interaction
      /\ w.summary = v.summary /\ w.queue = v.queue /\ w.steering = v.steering
  BY <1>1, <1>2, <1>3, <1>4 DEF ViewType
<1> QED
  BY <1>2, <1>5, <1>6 DEF IsView, ms, a

LEMMA ReplacesType ==
  ASSUME NEW v, IsView(v), NEW m \in SaidType
  PROVE  LET w == Replaces(v, m) IN
         /\ IsView(w)
         /\ w.messages = (IF PlaceOf(v) = 0 THEN v.messages
                          ELSE [v.messages EXCEPT ![PlaceOf(v)] = m])
         /\ w.base = v.base /\ w.streaming = v.streaming /\ w.interaction = v.interaction
         /\ w.summary = v.summary /\ w.queue = v.queue /\ w.steering = v.steering
<1>1. v \in ViewType /\ v.messages \in Seq(SaidType) /\ v.at \in Nat
  BY DEF IsView, ViewType
<1>2. PlaceOf(v) \in 0..Len(v.messages)
  BY <1>1, LastAssistant DEF PlaceOf
<1> DEFINE ms == IF PlaceOf(v) = 0 THEN v.messages ELSE [v.messages EXCEPT ![PlaceOf(v)] = m]
<1>3. ms \in Seq(SaidType) /\ Len(ms) = Len(v.messages)
  BY <1>1, <1>2, ExceptSeq
<1>4. Replaces(v, m) = [v EXCEPT !.messages = ms, !.activity = @ \cup {m.n}, !.at = 0]
  BY DEF Replaces
<1>5. v.activity \cup {m.n} \in SUBSET Nat
  BY <1>1 DEF ViewType, SaidType
<1> DEFINE ac == v.activity \cup {m.n}
<1>6. Replaces(v, m) = [v EXCEPT !.messages = ms, !.activity = ac, !.at = 0]
        /\ v.base <= Len(ms) /\ ac \in SUBSET Nat
  BY <1>1, <1>3, <1>4, <1>5 DEF IsView, ViewType
<1> HIDE DEF ms, ac
<1>8. Replaces(v, m) \in ViewType
  <2>1. [v EXCEPT !.messages = ms, !.activity = ac] \in ViewType
    BY <1>1, <1>3, <1>6 DEF ViewType
  <2>2. [[v EXCEPT !.messages = ms, !.activity = ac] EXCEPT !.at = 0] \in ViewType
    BY <2>1, AtType
  <2> QED
    BY <1>6, <2>2, Zenon
<1>7. LET w == Replaces(v, m) IN
      /\ w.messages = ms
      /\ w.base = v.base /\ w.streaming = v.streaming /\ w.interaction = v.interaction
      /\ w.summary = v.summary /\ w.queue = v.queue /\ w.steering = v.steering
  BY <1>1, <1>3, <1>6 DEF ViewType
<1> QED
  BY <1>6, <1>7, <1>8 DEF ms, IsView

(***************************************************************************)
(* A number that is in a sequence once is not in it when it is removed.    *)
(***************************************************************************)
LEMMA RemovedOnce ==
  ASSUME NEW q \in Seq(Nat), NEW n, Contains(q, n)
  PROVE  LET r == RemoveAt(q, FirstOf(q, n)) IN
         /\ r \in Seq(Nat)
         /\ Once(q) => Once(r) /\ ToSet(r) = ToSet(q) \ {n}
         /\ ToSet(r) \subseteq ToSet(q)
<1> DEFINE i == FirstOf(q, n)
           a == SubSeq(q, 1, i - 1)
           b == SubSeq(q, i + 1, Len(q))
<1>1. i \in 1..Len(q) /\ q[i] = n /\ Len(q) \in Nat
  BY FirstPlace
<1> HIDE DEF i
<1>2. /\ a \in Seq(Nat) /\ Len(a) = i - 1 /\ \A j \in 1..(i - 1) : a[j] = q[j]
      /\ b \in Seq(Nat) /\ Len(b) = Len(q) - i /\ \A j \in 1..(Len(q) - i) : b[j] = q[i + j]
  <2>1. a \in Seq(Nat) /\ Len(a) = i - 1 /\ \A j \in 1..(i - 1) : a[j] = q[j]
    BY <1>1
  <2>2. b \in Seq(Nat) /\ Len(b) = Len(q) - i /\ \A j \in 1..(Len(q) - i) : b[j] = q[i + j]
    BY <1>1
  <2> QED
    BY <2>1, <2>2
<1> HIDE DEF a, b
<1> DEFINE r == a \o b
           back(j) == IF j < i THEN j ELSE j + 1
<1>3. r \in Seq(Nat) /\ Len(r) = Len(q) - 1
        /\ \A j \in 1..(Len(q) - 1) : r[j] = q[back(j)] /\ back(j) \in 1..Len(q) /\ back(j) # i
  <2>1. r \in Seq(Nat) /\ Len(r) = Len(q) - 1
          /\ \A j \in 1..(Len(q) - 1) : r[j] = IF j <= i - 1 THEN a[j] ELSE b[j - (i - 1)]
    <3>1. /\ a \o b \in Seq(Nat)
          /\ Len(a \o b) = Len(a) + Len(b)
          /\ \A j \in 1..(Len(a) + Len(b)) :
               (a \o b)[j] = IF j <= Len(a) THEN a[j] ELSE b[j - Len(a)]
      BY <1>2, ConcatProperties
    <3>2. Len(a) + Len(b) = Len(q) - 1
      BY <1>1, <1>2
    <3> QED
      BY <1>2, <3>1, <3>2
  <2> HIDE DEF r
  <2>2. ASSUME NEW j \in 1..(Len(q) - 1)
        PROVE  r[j] = q[back(j)] /\ back(j) \in 1..Len(q) /\ back(j) # i
    <3>1. CASE j < i
      <4>2. j \in 1..(i - 1) /\ j <= i - 1
        BY <1>1, <3>1
      <4>1. r[j] = a[j] /\ a[j] = q[j]
        BY <1>2, <2>1, <4>2
      <4> QED
        BY <1>1, <3>1, <4>1
    <3>2. CASE j >= i
      <4>1. j - (i - 1) \in 1..(Len(q) - i)
        BY <1>1, <3>2
      <4>2. r[j] = b[j - (i - 1)]
        BY <1>1, <2>1, <3>2
      <4>3. b[j - (i - 1)] = q[i + (j - (i - 1))]
        BY <1>2, <4>1
      <4>4. i + (j - (i - 1)) = j + 1
        BY <1>1
      <4> QED
        BY <1>1, <3>2, <4>2, <4>3, <4>4
    <3> QED
      BY <1>1, <3>1, <3>2
  <2> QED
    BY <2>1, <2>2
<1>4. RemoveAt(q, FirstOf(q, n)) = r
  BY DEF RemoveAt, a, b, i
<1> HIDE DEF r
<1>5. ToSet(r) \subseteq ToSet(q)
  <2>1. DOMAIN r = 1..(Len(q) - 1) /\ DOMAIN q = 1..Len(q)
    BY <1>1, <1>3
  <2> QED
    BY <1>3, <2>1 DEF ToSet
<1>6. ASSUME Once(q)
      PROVE  Once(r) /\ ToSet(r) = ToSet(q) \ {n}
  <2>1. DOMAIN r = 1..(Len(q) - 1) /\ DOMAIN q = 1..Len(q)
    BY <1>1, <1>3
  <2>2. Once(r)
    <3> SUFFICES ASSUME NEW j \in 1..(Len(q) - 1), NEW k \in 1..(Len(q) - 1), r[j] = r[k]
                 PROVE  j = k
      BY <1>3 DEF Once
    <3>1. back(j) = back(k)
      BY <1>3, <1>6 DEF Once
    <3> QED
      BY <1>1, <3>1
  <2>3. n \notin ToSet(r)
    BY <1>1, <1>3, <1>6, <2>1, SMTT(30) DEF ToSet, Once
  <2>4. ASSUME NEW k \in 1..Len(q), k # i
        PROVE  q[k] \in ToSet(r)
    <3> DEFINE j == IF k < i THEN k ELSE k - 1
    <3>1. j \in 1..(Len(q) - 1) /\ back(j) = k
      BY <1>1, <2>4
    <3> QED
      BY <1>3, <2>1, <3>1 DEF ToSet
  <2>5. ToSet(q) \ {n} \subseteq ToSet(r)
    BY <1>1, <2>1, <2>4 DEF ToSet
  <2> QED
    BY <1>5, <2>2, <2>3, <2>5
<1> QED
  BY <1>3, <1>4, <1>5, <1>6

LEMMA HeardType ==
  ASSUME NEW v, IsView(v), NEW m \in SaidType
  PROVE  LET w == Heard(v, m) IN
         /\ IsView(w)
         /\ w.messages = Append(v.messages, m)
         /\ w.steering = (IF m.kind = "steer" /\ Contains(v.steering, m.n)
                          THEN RemoveAt(v.steering, FirstOf(v.steering, m.n)) ELSE v.steering)
         /\ w.base = v.base /\ w.streaming = v.streaming /\ w.interaction = v.interaction
         /\ w.summary = v.summary /\ w.queue = v.queue
<1> DEFINE ms == Append(v.messages, m)
           st == IF m.kind = "steer" /\ Contains(v.steering, m.n)
                 THEN RemoveAt(v.steering, FirstOf(v.steering, m.n)) ELSE v.steering
<1>1. v \in ViewType /\ v.messages \in Seq(SaidType) /\ v.base <= Len(v.messages)
        /\ v.steering \in Seq(Nat) /\ v.base \in Nat
  BY DEF IsView, ViewType
<1>2. ms \in Seq(SaidType) /\ v.base <= Len(ms)
  BY <1>1, AppendProperties
<1>3. st \in Seq(Nat)
  BY <1>1, RemovedOnce
<1>4. Heard(v, m) = [v EXCEPT !.messages = ms, !.at = 0, !.steering = st]
  BY <1>1 DEF Heard, ViewType
<1> HIDE DEF ms, st
<1>5. LET w == Heard(v, m) IN
      /\ w.messages = ms /\ w.steering = st
      /\ w.base = v.base /\ w.streaming = v.streaming /\ w.interaction = v.interaction
      /\ w.summary = v.summary /\ w.queue = v.queue
  BY <1>1, <1>4 DEF ViewType
<1>6. Heard(v, m) \in ViewType
  <2>1. [v EXCEPT !.messages = ms] \in ViewType
    BY <1>1, <1>2 DEF ViewType
  <2>2. [[v EXCEPT !.messages = ms] EXCEPT !.at = 0] \in ViewType
    BY <2>1, AtType
  <2>3. \A w \in ViewType : [w EXCEPT !.steering = st] \in ViewType
    BY <1>3 DEF ViewType
  <2>4. [[[v EXCEPT !.messages = ms] EXCEPT !.at = 0] EXCEPT !.steering = st] \in ViewType
    BY <2>2, <2>3
  <2> QED
    BY <1>4, <2>4, Zenon
<1> QED
  BY <1>2, <1>5, <1>6 DEF IsView, ms, st

LEMMA EndsType ==
  ASSUME NEW v, IsView(v), NEW told \in Seq(SaidType)
  PROVE  LET w == Ends(v, told) IN
         /\ IsView(w)
         /\ w.messages = SubSeq(v.messages, 1, v.base) \o told
         /\ w.base = v.base /\ w.streaming = (v.queue # <<>>) /\ w.interaction = v.interaction
         /\ w.summary = v.summary /\ w.queue = v.queue /\ w.steering = v.steering
<1> DEFINE ms == SubSeq(v.messages, 1, v.base) \o told
           b == v.queue # <<>>
<1>1. v \in ViewType /\ v.messages \in Seq(SaidType) /\ v.base <= Len(v.messages)
        /\ v.base \in Nat
  BY DEF IsView, ViewType
<1>2. (IF v.base < Len(v.messages) THEN v.base ELSE Len(v.messages)) = v.base
  BY <1>1
<1>3. ms \in Seq(SaidType) /\ v.base <= Len(ms)
  <2>1. SubSeq(v.messages, 1, v.base) \in Seq(SaidType)
          /\ Len(SubSeq(v.messages, 1, v.base)) = v.base
    BY <1>1
  <2> QED
    BY <1>1, <2>1, ConcatProperties
<1>4. Ends(v, told) = [v EXCEPT !.messages = ms, !.streaming = b, !.at = 0]
  BY <1>1, <1>2 DEF Ends, ViewType
<1>5. b \in BOOLEAN
  OBVIOUS
<1> HIDE DEF ms, b
<1>6. LET w == Ends(v, told) IN
      /\ w.messages = ms /\ w.streaming = b
      /\ w.base = v.base /\ w.interaction = v.interaction
      /\ w.summary = v.summary /\ w.queue = v.queue /\ w.steering = v.steering
  BY <1>1, <1>4 DEF ViewType
<1>7. Ends(v, told) \in ViewType
  <2>1. [v EXCEPT !.messages = ms, !.streaming = b] \in ViewType
    BY <1>1, <1>3, <1>5 DEF ViewType
  <2>2. [[v EXCEPT !.messages = ms, !.streaming = b] EXCEPT !.at = 0] \in ViewType
    BY <2>1, AtType
  <2> QED
    BY <1>4, <2>2, Zenon
<1> QED
  BY <1>3, <1>6, <1>7 DEF IsView, ms, b

(***************************************************************************)
(* An event leaves what the user is about to say alone, but for what was   *)
(* steered and is heard.  Only the start and the end of a run say whether  *)
(* the tab streams.                                                        *)
(***************************************************************************)
SameWaiting(v, w) == w.queue = v.queue /\ w.steering = v.steering
SameRun(v, w) ==
  /\ w.base = v.base /\ w.streaming = v.streaming /\ w.interaction = v.interaction
  /\ w.summary = v.summary

LEMMA EventFacts ==
  ASSUME NEW e \in EventType
  PROVE  /\ e.messages \in Seq(SaidType)
         /\ e.type \in {"start", "user", "partial", "reply", "end"}
         /\ e.type # "end" => e.messages[1] \in SaidType
         /\ e.type = "user" => e.messages[1].kind = "steer" /\ Len(e.messages) = 1
         /\ e.type = "start" => e.messages[1].kind = "user"
         /\ e.type = "partial" => e.messages[1].kind = "partial"
  BY DEF EventType

LEMMA ApplyType ==
  ASSUME NEW v, IsView(v), NEW e \in EventType
  PROVE  LET w == Apply(v, e)
             m == e.messages[1] IN
         /\ IsView(w) /\ w.queue = v.queue
         /\ e.type # "user" => w.steering = v.steering
         /\ e.type = "user" =>
              w.steering = (IF Contains(v.steering, m.n)
                            THEN RemoveAt(v.steering, FirstOf(v.steering, m.n)) ELSE v.steering)
         /\ e.type = "start" =>
              /\ w.messages = Append(v.messages, m) /\ w.base = Len(v.messages)
              /\ w.streaming /\ w.interaction
              /\ w.summary = (IF v.interaction THEN v.summary ELSE {})
         /\ e.type = "user" => w.messages = Append(v.messages, m) /\ SameRun(v, w)
         /\ e.type = "partial" =>
              /\ w.messages = Append(v.messages, m) /\ SameRun(v, w)
              /\ w.at = (IF IsAssistant(m) THEN Len(v.messages) + 1 ELSE v.at)
         /\ e.type = "reply" =>
              /\ SameRun(v, w)
              /\ w.messages = (IF PlaceOf(v) = 0 THEN v.messages
                               ELSE [v.messages EXCEPT ![PlaceOf(v)] = m])
         /\ e.type = "end" =>
              /\ w.messages = SubSeq(v.messages, 1, v.base) \o e.messages
              /\ w.base = v.base /\ w.streaming = (v.queue # <<>>)
              /\ w.interaction = v.interaction /\ w.summary = v.summary
<1> DEFINE w == Apply(v, e)
           m == e.messages[1]
<1>1. /\ e.messages \in Seq(SaidType)
      /\ e.type \in {"start", "user", "partial", "reply", "end"}
      /\ e.type # "end" => m \in SaidType
      /\ e.type = "user" => m.kind = "steer"
      /\ e.type = "start" => m.kind # "steer"
  BY EventFacts
<1> HIDE DEF m
<1>2. CASE e.type = "start"
  <2>1. w = Heard(Begins(v), m)
    BY <1>2 DEF Apply, m
  <2>2. IsView(Begins(v)) /\ m \in SaidType
    BY <1>1, <1>2, BeginsType
  <2> DEFINE u == Begins(v)
  <2>3. /\ u.messages = v.messages /\ u.base = Len(v.messages) /\ u.streaming
        /\ u.interaction /\ u.summary = (IF v.interaction THEN v.summary ELSE {})
        /\ u.queue = v.queue /\ u.steering = v.steering
    BY BeginsType
  <2>4. IsView(u) /\ w = Heard(u, m) /\ m \in SaidType /\ m.kind # "steer"
    BY <1>1, <1>2, <2>1, <2>2
  <2> HIDE DEF w, u
  <2>5. /\ IsView(w) /\ w.messages = Append(u.messages, m) /\ w.steering = u.steering
        /\ w.base = u.base /\ w.streaming = u.streaming /\ w.interaction = u.interaction
        /\ w.summary = u.summary /\ w.queue = u.queue
    BY <2>4, HeardType
  <2> QED
    BY <1>2, <2>3, <2>5 DEF w, m
<1>3. CASE e.type = "user"
  <2>1. w = Heard(v, m) /\ m \in SaidType /\ m.kind = "steer"
    BY <1>1, <1>3 DEF Apply, m
  <2> HIDE DEF w
  <2> QED
    BY <1>3, <2>1, HeardType DEF w, m, SameRun
<1>4. CASE e.type = "partial"
  <2>1. w = Shows(v, m) /\ m \in SaidType
    BY <1>1, <1>4 DEF Apply, m
  <2> HIDE DEF w
  <2> QED
    BY <1>4, <2>1, ShowsType DEF w, m, SameRun
<1>5. CASE e.type = "reply"
  <2>1. w = Replaces(v, m) /\ m \in SaidType
    BY <1>1, <1>5 DEF Apply, m
  <2> HIDE DEF w
  <2> QED
    BY <1>5, <2>1, ReplacesType DEF w, m, SameRun
<1>6. CASE e.type = "end"
  <2>1. w = Ends(v, e.messages)
    BY <1>6 DEF Apply
  <2> DEFINE told == e.messages
  <2>2. told \in Seq(SaidType) /\ w = Ends(v, told)
    BY <1>1, <2>1
  <2> HIDE DEF w, told
  <2>3. /\ IsView(w)
        /\ w.messages = SubSeq(v.messages, 1, v.base) \o told
        /\ w.base = v.base /\ w.streaming = (v.queue # <<>>) /\ w.interaction = v.interaction
        /\ w.summary = v.summary /\ w.queue = v.queue /\ w.steering = v.steering
    BY <2>2, EndsType
  <2> QED
    BY <1>6, <2>3 DEF w, told
<1> QED
  BY <1>1, <1>2, <1>3, <1>4, <1>5, <1>6

-----------------------------------------------------------------------------
(***************************************************************************)
(* Types.  What is read of a file.                                         *)
(***************************************************************************)
LEMMA ChangesType ==
  ASSUME NEW f \in Seq(Entries)
  PROVE  Changes(f) \in SUBSET Nat
<1> DEFINE l == LastOf(f, "started")
<1>1. l \in 0..Len(f) /\ Len(f) \in Nat
  BY LastPlace
<1> HIDE DEF l
<1>2. SubSeq(f, l + 1, Len(f)) \in Seq(Entries)
  BY <1>1
<1>3. Since(f, "started") \in Seq(Entries)
  BY <1>2 DEF Since, l
<1>4. \A e \in ToSet(Since(f, "started")) : e \in Entries
  BY <1>3 DEF ToSet
<1>5. \A e \in Entries : e.kind = "reply" => e.n \in Nat
  BY DEF Entries, SaidType
<1> QED
  BY <1>4, <1>5 DEF Changes

LEMMA LoadedType ==
  ASSUME NEW f \in Seq(Entries)
  PROVE  /\ Loaded(f) \in Seq(SaidType)
         /\ \A i \in 1..Len(Loaded(f)) : IsMessage(Loaded(f)[i])
<1> DEFINE S == {e \in ToSet(f) : IsMessage(e)}
<1>1. Loaded(f) \in Seq(Entries \cap S)
  BY KeptType DEF Loaded
<1>2. Entries \cap S \subseteq SaidType /\ \A e \in Entries \cap S : IsMessage(e)
  BY DEF Entries, IsMessage, SaidType
<1> HIDE DEF S
<1>3. Loaded(f) \in Seq(SaidType)
  BY <1>1, <1>2, SeqMonotonic
<1>4. \A i \in 1..Len(Loaded(f)) : Loaded(f)[i] \in Entries \cap S
  BY <1>1
<1> QED
  BY <1>2, <1>3, <1>4

LEMMA LastSummaryType ==
  ASSUME NEW f \in Seq(Entries)
  PROVE  LastSummary(f) \in SUBSET SUBSET Nat
<1>1. LastOf(f, "summary") \in 0..Len(f)
        /\ (LastOf(f, "summary") # 0 => f[LastOf(f, "summary")].kind = "summary")
  BY LastPlace
<1>2. \A e \in Entries : e.kind = "summary" => e.changes \in SUBSET Nat
  BY DEF Entries, SaidType
<1> QED
  BY <1>1, <1>2 DEF LastSummary

LEMMA SaidIsTyped ==
  ASSUME NEW kind \in {"started", "user", "reply", "error", "steer", "partial"}, NEW n \in Nat
  PROVE  /\ kind # "started" => Said(kind, n) \in SaidType
         /\ Said(kind, n) \in Entries
         /\ Said(kind, n).kind = kind /\ Said(kind, n).n = n
  BY DEF Said, SaidType, Entries

LEMMA EmptyViewType ==
  ASSUME NEW ms \in Seq(SaidType)
  PROVE  LET v == [EmptyView EXCEPT !.messages = ms] IN
         /\ IsView(v)
         /\ v.messages = ms /\ ~v.streaming /\ v.base = 0 /\ ~v.interaction
         /\ v.summary = {} /\ v.queue = <<>> /\ v.steering = <<>>
<1>1. EmptyView \in ViewType
  BY DEF EmptyView, ViewType
<1>2. [EmptyView EXCEPT !.messages = ms] \in ViewType
  BY <1>1 DEF ViewType
<1>3. Len(ms) \in Nat
  OBVIOUS
<1>4. LET v == [EmptyView EXCEPT !.messages = ms] IN
      /\ v.messages = ms /\ ~v.streaming /\ v.base = 0 /\ ~v.interaction
      /\ v.summary = {} /\ v.queue = <<>> /\ v.steering = <<>>
  BY DEF EmptyView
<1> QED
  BY <1>2, <1>3, <1>4 DEF IsView

(***************************************************************************)
(* What a run tells at its end.                                            *)
(***************************************************************************)
Turn(p, q) == <<Said("user", p)>> \o [i \in 1..Len(q) |-> Said("steer", q[i])]
                \o <<Said("reply", p)>>

LEMMA TurnType ==
  ASSUME NEW p \in Nat, NEW q \in Seq(Nat)
  PROVE  Turn(p, q) \in Seq(SaidType)
<1>1. [i \in 1..Len(q) |-> Said("steer", q[i])] \in Seq(SaidType)
  BY SaidIsTyped
<1>2. <<Said("user", p)>> \in Seq(SaidType) /\ <<Said("reply", p)>> \in Seq(SaidType)
  BY SaidIsTyped
<1> QED
  BY <1>1, <1>2, ConcatProperties DEF Turn

LEMMA AnswerType ==
  ASSUME NEW p \in Nat, NEW q \in Seq(Nat)
  PROVE  LET a == Answer(p, q) IN
         /\ a \in Seq(EventType) /\ Len(a) = Len(q) + 3
         /\ \A i \in 1..Len(q) : a[i] = Event("user", <<Said("steer", q[i])>>)
         /\ a[Len(q) + 1] = Event("partial", <<Said("partial", p)>>)
         /\ a[Len(q) + 2] = Event("reply", <<Said("reply", p)>>)
         /\ a[Len(q) + 3] = Event("end", Turn(p, q))
<1> DEFINE u == [i \in 1..Len(q) |-> Event("user", <<Said("steer", q[i])>>)]
           w == <<Event("partial", <<Said("partial", p)>>), Event("reply", <<Said("reply", p)>>),
                  Event("end", Turn(p, q))>>
<1>1. Len(q) \in Nat /\ \A i \in 1..Len(q) : q[i] \in Nat
  OBVIOUS
<1>2. ASSUME NEW i \in 1..Len(q) PROVE Event("user", <<Said("steer", q[i])>>) \in EventType
  <2>1. Said("steer", q[i]) \in SaidType /\ Said("steer", q[i]).kind = "steer"
    BY <1>1, SaidIsTyped
  <2> QED
    BY <2>1 DEF Event, EventType
<1>3. u \in Seq(EventType) /\ Len(u) = Len(q)
        /\ \A i \in 1..Len(q) : u[i] = Event("user", <<Said("steer", q[i])>>)
  BY <1>1, <1>2
<1>4. /\ Event("partial", <<Said("partial", p)>>) \in EventType
      /\ Event("reply", <<Said("reply", p)>>) \in EventType
      /\ Event("end", Turn(p, q)) \in EventType
  <2>1. /\ Said("partial", p) \in SaidType /\ Said("reply", p) \in SaidType
        /\ Said("partial", p).kind = "partial"
    BY SaidIsTyped
  <2>2. Turn(p, q) \in Seq(SaidType)
    BY TurnType
  <2> QED
    BY <2>1, <2>2 DEF Event, EventType
<1>5. w \in Seq(EventType) /\ Len(w) = 3
        /\ w[1] = Event("partial", <<Said("partial", p)>>)
        /\ w[2] = Event("reply", <<Said("reply", p)>>) /\ w[3] = Event("end", Turn(p, q))
  BY <1>4
<1>6. Answer(p, q) = u \o w
  <2>1. [i \in 1..Len(q) |-> Event("user", <<[j \in 1..Len(q) |-> Said("steer", q[j])][i]>>)]
          = [i \in 1..Len(q) |-> Event("user", <<Said("steer", q[i])>>)]
    OBVIOUS
  <2> QED
    BY <2>1, Zenon DEF Answer, Turn
<1> HIDE DEF u, w
<1> DEFINE a == u \o w
<1>8. /\ a \in Seq(EventType) /\ Len(a) = Len(q) + 3
      /\ \A i \in 1..(Len(q) + 3) : a[i] = IF i <= Len(q) THEN u[i] ELSE w[i - Len(q)]
  <2>1. u \in Seq(EventType) /\ w \in Seq(EventType)
    BY <1>3, <1>5
  <2>2. /\ a \in Seq(EventType) /\ Len(a) = Len(u) + Len(w)
        /\ \A i \in 1..(Len(u) + Len(w)) : a[i] = IF i <= Len(u) THEN u[i] ELSE w[i - Len(u)]
    BY <2>1, ConcatProperties, Zenon
  <2> HIDE DEF a
  <2> QED
    BY <1>3, <1>5, <2>2
<1>9. Len(q) + 1 - Len(q) = 1 /\ Len(q) + 2 - Len(q) = 2 /\ Len(q) + 3 - Len(q) = 3
  BY <1>1
<1> HIDE DEF a
<1>10. a[Len(q) + 1] = w[1] /\ a[Len(q) + 2] = w[2] /\ a[Len(q) + 3] = w[3]
  <2>1. \A i \in 1..(Len(q) + 3) : i > Len(q) => a[i] = w[i - Len(q)]
    BY <1>1, <1>8
  <2>2. /\ Len(q) + 1 \in 1..(Len(q) + 3) /\ Len(q) + 2 \in 1..(Len(q) + 3)
        /\ Len(q) + 3 \in 1..(Len(q) + 3)
        /\ Len(q) + 1 > Len(q) /\ Len(q) + 2 > Len(q) /\ Len(q) + 3 > Len(q)
    BY <1>1
  <2>3. /\ a[Len(q) + 1] = w[Len(q) + 1 - Len(q)] /\ a[Len(q) + 2] = w[Len(q) + 2 - Len(q)]
        /\ a[Len(q) + 3] = w[Len(q) + 3 - Len(q)]
    BY <2>1, <2>2
  <2> QED
    BY <1>9, <2>3
<1>11. \A i \in 1..Len(q) : a[i] = u[i]
  BY <1>1, <1>8
<1>12. Answer(p, q) = a
  BY <1>6 DEF a
<1> QED
  BY <1>3, <1>5, <1>8, <1>10, <1>11, <1>12

-----------------------------------------------------------------------------
(***************************************************************************)
(* What is told, and what happens, to a session is of no other one.        *)
(***************************************************************************)
LEMMA HappensFacts ==
  ASSUME mishaps \in [Sessions -> SUBSET Mishaps], NEW s \in Sessions, NEW what \in SUBSET Mishaps,
         Happens(s, what)
  PROVE  /\ mishaps' \in [Sessions -> SUBSET Mishaps]
         /\ \A t \in Sessions : mishaps[t] \subseteq mishaps'[t]
         /\ \A t \in Sessions : t # s => mishaps'[t] = mishaps[t]
         /\ mishaps'[s] = mishaps[s] \cup what
  BY DEF Happens

LEMMA LatestType ==
  ASSUME NEW X, NEW q \in Seq(X)
  PROVE  Latest(q) \in Seq(X)
<1>1. Capacity \in Nat /\ Len(q) \in Nat
  BY TabsAssumption
<1>2. CASE Len(q) > Capacity
  <2>1. SubSeq(q, Len(q) - Capacity + 1, Len(q)) \in Seq(X)
    BY <1>1, <1>2
  <2> QED
    BY <1>1, <1>2, <2>1 DEF Latest
<1> QED
  BY <1>1, <1>2 DEF Latest

LEMMA TellsFacts ==
  ASSUME mishaps \in [Sessions -> SUBSET Mishaps], AgentTypes, NEW s \in Sessions,
         NEW events \in Seq(EventType), Tells(s, events, {})
  PROVE  /\ channel' \in [Sessions -> Seq(EventType)]
         /\ mishaps' \in [Sessions -> SUBSET Mishaps]
         /\ \A t \in Sessions : mishaps[t] \subseteq mishaps'[t]
         /\ \A t \in Sessions : t # s => mishaps'[t] = mishaps[t] /\ channel'[t] = channel[t]
         /\ forwarder[s] # "on" => channel'[s] = channel[s]
         /\ forwarder[s] = "on" => channel'[s] = Latest(channel[s] \o events)
         /\ mishaps'[s] \subseteq mishaps[s] \cup Lost
         /\ mishaps'[s] \cap Lost = {} =>
              forwarder[s] = "on" /\ channel'[s] = channel[s] \o events
<1> DEFINE all == channel[s] \o events
<1>1. channel[s] \in Seq(EventType) /\ channel \in [Sessions -> Seq(EventType)]
  BY DEF AgentTypes
<1>2. all \in Seq(EventType)
  BY <1>1, ConcatProperties
<1>3. CASE forwarder[s] = "on"
  <2> DEFINE what == IF Len(all) > Capacity THEN {"lagged"} ELSE {}
  <2>1. channel' = [channel EXCEPT ![s] = Latest(all)] /\ Happens(s, {} \cup what)
    BY <1>3 DEF Tells
  <2>2. Latest(all) \in Seq(EventType)
    BY <1>2, LatestType
  <2>3. {} \cup what = what /\ what \in SUBSET Mishaps /\ what \subseteq Lost
    BY DEF Lost, Mishaps
  <2>4. /\ mishaps' \in [Sessions -> SUBSET Mishaps]
        /\ \A t \in Sessions : mishaps[t] \subseteq mishaps'[t]
        /\ \A t \in Sessions : t # s => mishaps'[t] = mishaps[t]
        /\ mishaps'[s] = mishaps[s] \cup what
    BY <2>1, <2>3, HappensFacts
  <2>5. what = {} => Latest(all) = all
    <3>1. Len(all) \in Nat /\ Capacity \in Nat
      BY <1>2, TabsAssumption
    <3> QED
      BY <3>1 DEF Latest
  <2>6. mishaps'[s] \cap Lost = {} => what = {}
    BY <2>3, <2>4
  <2> HIDE DEF all, what
  <2>7. channel' \in [Sessions -> Seq(EventType)] /\ channel'[s] = Latest(all)
          /\ \A t \in Sessions : t # s => channel'[t] = channel[t]
    BY <1>1, <2>1, <2>2
  <2> QED
    BY <1>3, <2>3, <2>4, <2>5, <2>6, <2>7 DEF all
<1>4. CASE forwarder[s] # "on"
  <2>1. channel' = channel /\ Happens(s, {} \cup {"missed"})
    BY <1>4 DEF Tells
  <2>2. {} \cup {"missed"} = {"missed"} /\ {"missed"} \in SUBSET Mishaps /\ {"missed"} \subseteq Lost
    BY DEF Lost, Mishaps
  <2>3. /\ mishaps' \in [Sessions -> SUBSET Mishaps]
        /\ \A t \in Sessions : mishaps[t] \subseteq mishaps'[t]
        /\ \A t \in Sessions : t # s => mishaps'[t] = mishaps[t]
        /\ mishaps'[s] = mishaps[s] \cup {"missed"}
    BY <2>1, <2>2, HappensFacts
  <2> QED
    BY <1>1, <1>4, <2>1, <2>2, <2>3
<1> QED
  BY <1>3, <1>4

(***************************************************************************)
(* A chain goes on; the others are where they were.                        *)
(***************************************************************************)
LEMMA GoesFacts ==
  ASSUME chain \in [Messages -> ChainType], NEW n \in Messages,
         NEW where \in {"off", "sending", "prompting", "running", "replied", "returned",
                        "failed", "finishing"},
         Goes(n, where)
  PROVE  /\ chain' \in [Messages -> ChainType]
         /\ chain[n].session \in Sessions
         /\ \A m \in Messages : /\ chain'[m].session = chain[m].session
                                /\ chain'[m].prompt = chain[m].prompt
         /\ \A m \in Messages : m # n => chain'[m] = chain[m]
         /\ chain'[n].at = where
<1>1. chain[n] \in ChainType
  OBVIOUS
<1>2. [chain[n] EXCEPT !.at = where] \in ChainType
  BY <1>1 DEF ChainType
<1>3. chain' = [chain EXCEPT ![n] = [chain[n] EXCEPT !.at = where]]
  BY DEF Goes
<1>4. chain[n].session \in Sessions
  BY <1>1 DEF ChainType
<1>5. /\ [chain[n] EXCEPT !.at = where].at = where
      /\ [chain[n] EXCEPT !.at = where].session = chain[n].session
      /\ [chain[n] EXCEPT !.at = where].prompt = chain[n].prompt
  BY <1>1 DEF ChainType
<1> QED
  BY <1>2, <1>3, <1>4, <1>5

LEMMA SetFacts ==
  ASSUME live \in [Sessions -> ViewType], \A t \in Sessions : IsView(live[t]),
         NEW s \in Sessions, NEW v, IsView(v), Set(s, v)
  PROVE  /\ live' \in [Sessions -> ViewType] /\ \A t \in Sessions : IsView(live'[t])
         /\ live'[s] = v /\ \A t \in Sessions : t # s => live'[t] = live[t]
  BY DEF Set, IsView

LEMMA WillShowType ==
  ASSUME NEW who \in {"task", "forwarder"}, NEW s \in Sessions,
         emitting \subseteq {"task", "forwarder"} \X Sessions
  PROVE  /\ WillShow(who, s) \subseteq {"task", "forwarder"} \X Sessions
         /\ emitting \subseteq WillShow(who, s)
         /\ Active = s => <<who, s>> \in WillShow(who, s)
  BY DEF WillShow

-----------------------------------------------------------------------------
(***************************************************************************)
(* What each step changes, session by session and chain by chain.          *)
(***************************************************************************)
ChainIs(n, where) ==
  /\ \A m \in Messages : m # n => chain'[m] = chain[m]
  /\ chain'[n].session = chain[n].session /\ chain'[n].prompt = chain[n].prompt
  /\ chain'[n].at = where
Writes(s, e) ==
  /\ file'[s] = Append(file[s], e)
  /\ \A t \in Sessions : t # s => file'[t] = file[t]
Sees(s, v) == live'[s] = v /\ \A t \in Sessions : t # s => live'[t] = live[t]
Befalls(s, what) ==
  /\ mishaps'[s] = mishaps[s] \cup what
  /\ \A t \in Sessions : t # s => mishaps'[t] = mishaps[t]
Spawns(s) ==
  /\ forwarder'[s] = IF forwarder[s] = "off" THEN "spawned" ELSE forwarder[s]
  /\ \A t \in Sessions : t # s => forwarder'[t] = forwarder[t]
Screen == <<tabs, active, phase, emitting, shown>>

LEMMA WritesFacts ==
  ASSUME file \in [Sessions -> Seq(Entries)], NEW s \in Sessions, NEW e \in Entries,
         file' = [file EXCEPT ![s] = Append(@, e)]
  PROVE  file' \in [Sessions -> Seq(Entries)] /\ Writes(s, e)
<1>1. Append(file[s], e) \in Seq(Entries)
  BY AppendProperties
<1> QED
  BY <1>1 DEF Writes

LEMMA ChainFacts ==
  ASSUME TabsTypes, NEW n \in Messages
  PROVE  /\ chain[n].session \in Sessions /\ chain[n].prompt \in Nat
         /\ live[chain[n].session] \in ViewType /\ IsView(live[chain[n].session])
         /\ file[chain[n].session] \in Seq(Entries)
         /\ channel[chain[n].session] \in Seq(EventType)
         /\ steering[chain[n].session] \in Seq(Nat)
         /\ running[chain[n].session] \in BOOLEAN
<1>1. chain[n].session \in Sessions /\ chain[n].prompt \in Nat
  BY DEF TabsTypes, ChainType
<1> QED
  BY <1>1 DEF TabsTypes, AgentTypes

LEMMA SendBeginsStep ==
  ASSUME TabsTypes, NEW n \in Messages, SendBegins(n)
  PROVE  LET s == chain[n].session IN
         /\ TabsTypes' /\ chain[n].at = "sending" /\ ChainIs(n, "prompting")
         /\ Writes(s, Said("started", 0)) /\ Sees(s, Begun(live[s])) /\ Spawns(s)
         /\ UNCHANGED <<running, steering, channel, Screen, typed, accepted, mishaps>>
<1> DEFINE s == chain[n].session
<1>1. s \in Sessions /\ IsView(live[s])
  BY ChainFacts
<1>2. Said("started", 0) \in Entries
  BY SaidIsTyped
<1>3. Goes(n, "prompting") /\ Set(s, Begun(live[s])) /\ chain[n].at = "sending"
        /\ file' = [file EXCEPT ![s] = Append(@, Said("started", 0))]
        /\ forwarder' = [forwarder EXCEPT ![s] = IF @ = "off" THEN "spawned" ELSE @]
        /\ UNCHANGED <<running, steering, channel, tabs, active, phase, emitting, shown,
                       typed, accepted, mishaps>>
  BY DEF SendBegins, boundVars
<1> HIDE DEF s
<1>4. chain' \in [Messages -> ChainType] /\ ChainIs(n, "prompting")
  BY <1>3, GoesFacts DEF ChainIs, TabsTypes
<1>5. IsView(Begun(live[s]))
  BY <1>1, BegunType
<1>6. live' \in [Sessions -> ViewType] /\ (\A t \in Sessions : IsView(live'[t]))
        /\ Sees(s, Begun(live[s]))
  BY <1>1, <1>3, <1>5, SetFacts DEF Sees, TabsTypes
<1>7. file' \in [Sessions -> Seq(Entries)] /\ Writes(s, Said("started", 0))
  BY <1>1, <1>2, <1>3, WritesFacts DEF TabsTypes, AgentTypes
<1>8. forwarder' \in [Sessions -> {"off", "spawned", "on"}] /\ Spawns(s)
  BY <1>1, <1>3 DEF TabsTypes, ScreenTypes, Spawns
<1>9. TabsTypes'
  BY <1>3, <1>4, <1>6, <1>7, <1>8 DEF TabsTypes, AgentTypes, ScreenTypes
<1> QED
  BY <1>3, <1>4, <1>6, <1>7, <1>8, <1>9 DEF s, Screen

LEMMA SendFailsStep ==
  ASSUME TabsTypes, NEW n \in Messages, SendFails(n)
  PROVE  LET s == chain[n].session IN
         /\ TabsTypes' /\ chain[n].at = "sending" /\ ChainIs(n, "off") /\ Spawns(s)
         /\ Befalls(s, IF live[s].queue # <<>> THEN {"unsent"} ELSE {})
         /\ UNCHANGED <<agentVars, Screen, typed, live, accepted>>
<1> DEFINE s == chain[n].session
           what == IF live[s].queue # <<>> THEN {"unsent"} ELSE {}
<1>1. s \in Sessions
  BY ChainFacts
<1>2. what \in SUBSET Mishaps
  BY DEF Mishaps
<1>3. Goes(n, "off") /\ Happens(s, what) /\ chain[n].at = "sending"
        /\ forwarder' = [forwarder EXCEPT ![s] = IF @ = "off" THEN "spawned" ELSE @]
        /\ UNCHANGED <<agentVars, tabs, active, phase, emitting, shown, typed, live, accepted>>
  BY DEF SendFails, Incident
<1> HIDE DEF s, what
<1>4. chain' \in [Messages -> ChainType] /\ ChainIs(n, "off")
  BY <1>3, GoesFacts DEF ChainIs, TabsTypes
<1>5. mishaps' \in [Sessions -> SUBSET Mishaps] /\ Befalls(s, what)
  BY <1>1, <1>2, <1>3, HappensFacts DEF TabsTypes, Befalls
<1>6. forwarder' \in [Sessions -> {"off", "spawned", "on"}] /\ Spawns(s)
  BY <1>1, <1>3 DEF TabsTypes, ScreenTypes, Spawns
<1>7. TabsTypes'
  BY <1>3, <1>4, <1>5, <1>6 DEF TabsTypes, AgentTypes, ScreenTypes, agentVars
<1> QED
  BY <1>3, <1>4, <1>5, <1>6, <1>7 DEF s, what, Screen

LEMMA PromptStartsStep ==
  ASSUME TabsTypes, NEW n \in Messages, PromptStarts(n)
  PROVE  LET s == chain[n].session
             said == Said("user", chain[n].prompt) IN
         /\ TabsTypes' /\ chain[n].at = "prompting" /\ ChainIs(n, "running") /\ ~running[s]
         /\ running'[s] /\ \A t \in Sessions : t # s => running'[t] = running[t]
         /\ Writes(s, said) /\ Tells(s, <<Event("start", <<said>>)>>, {})
         /\ <<Event("start", <<said>>)>> \in Seq(EventType)
         /\ UNCHANGED <<steering, Screen, forwarder, live, typed, accepted>>
<1> DEFINE s == chain[n].session
           said == Said("user", chain[n].prompt)
           told == <<Event("start", <<said>>)>>
<1>1. s \in Sessions /\ chain[n].prompt \in Nat
  BY ChainFacts
<1>2. said \in Entries /\ said \in SaidType /\ said.kind = "user"
  BY <1>1, SaidIsTyped
<1>3. Goes(n, "running") /\ chain[n].at = "prompting" /\ ~running[s]
        /\ running' = [running EXCEPT ![s] = TRUE]
        /\ file' = [file EXCEPT ![s] = Append(@, said)]
        /\ Tells(s, told, {})
        /\ UNCHANGED <<steering, tabs, active, phase, forwarder, emitting, shown, live, typed,
                       accepted>>
  BY DEF PromptStarts, boundVars, viewVars
<1> HIDE DEF said
<1>4. told \in Seq(EventType)
  BY <1>2 DEF Event, EventType
<1> HIDE DEF s, told
<1>5. chain' \in [Messages -> ChainType] /\ ChainIs(n, "running")
  BY <1>3, GoesFacts DEF ChainIs, TabsTypes
<1>6. channel' \in [Sessions -> Seq(EventType)] /\ mishaps' \in [Sessions -> SUBSET Mishaps]
  BY <1>1, <1>3, <1>4, TellsFacts DEF TabsTypes
<1>7. file' \in [Sessions -> Seq(Entries)] /\ Writes(s, said)
  BY <1>1, <1>2, <1>3, WritesFacts DEF TabsTypes, AgentTypes
<1>8. running' \in [Sessions -> BOOLEAN] /\ running'[s]
        /\ \A t \in Sessions : t # s => running'[t] = running[t]
  BY <1>1, <1>3 DEF TabsTypes, AgentTypes
<1>9. TabsTypes'
  BY <1>3, <1>5, <1>6, <1>7, <1>8 DEF TabsTypes, AgentTypes, ScreenTypes
<1> QED
  BY <1>3, <1>4, <1>5, <1>7, <1>8, <1>9 DEF s, said, told, Screen

LEMMA PromptRefusedStep ==
  ASSUME TabsTypes, NEW n \in Messages, PromptRefused(n)
  PROVE  /\ TabsTypes' /\ chain[n].at = "prompting" /\ ChainIs(n, "failed")
         /\ running[chain[n].session]
         /\ UNCHANGED <<agentVars, Screen, forwarder, live, typed, accepted, mishaps>>
<1>1. Goes(n, "failed") /\ chain[n].at = "prompting" /\ running[chain[n].session]
        /\ UNCHANGED <<agentVars, tabs, active, phase, forwarder, emitting, shown, live, typed,
                       accepted, mishaps>>
  BY DEF PromptRefused, boundVars, viewVars
<1>2. chain' \in [Messages -> ChainType] /\ ChainIs(n, "failed")
  BY <1>1, GoesFacts DEF ChainIs, TabsTypes
<1>3. TabsTypes'
  BY <1>1, <1>2 DEF TabsTypes, AgentTypes, ScreenTypes, agentVars
<1> QED
  BY <1>1, <1>2, <1>3 DEF Screen

LEMMA PromptFailsStep ==
  ASSUME TabsTypes, NEW n \in Messages, PromptFails(n)
  PROVE  LET s == chain[n].session IN
         /\ TabsTypes' /\ chain[n].at = "prompting" /\ ChainIs(n, "failed") /\ ~running[s]
         /\ Writes(s, Said("user", chain[n].prompt))
         /\ UNCHANGED <<running, steering, channel, Screen, forwarder, live, typed, accepted,
                        mishaps>>
<1> DEFINE s == chain[n].session
           said == Said("user", chain[n].prompt)
<1>1. s \in Sessions /\ chain[n].prompt \in Nat
  BY ChainFacts
<1>2. said \in Entries
  BY <1>1, SaidIsTyped
<1>3. Goes(n, "failed") /\ chain[n].at = "prompting" /\ ~running[s]
        /\ file' = [file EXCEPT ![s] = Append(@, said)]
        /\ UNCHANGED <<running, steering, channel, tabs, active, phase, forwarder, emitting,
                       shown, live, typed, accepted, mishaps>>
  BY DEF PromptFails, viewVars, Incident
<1> HIDE DEF s, said
<1>4. chain' \in [Messages -> ChainType] /\ ChainIs(n, "failed")
  BY <1>3, GoesFacts DEF ChainIs, TabsTypes
<1>5. file' \in [Sessions -> Seq(Entries)] /\ Writes(s, said)
  BY <1>1, <1>2, <1>3, WritesFacts DEF TabsTypes, AgentTypes
<1>6. TabsTypes'
  BY <1>3, <1>4, <1>5 DEF TabsTypes, AgentTypes, ScreenTypes
<1> QED
  BY <1>3, <1>4, <1>5, <1>6 DEF s, said, Screen

LEMMA RepliesStep ==
  ASSUME TabsTypes, NEW n \in Messages, Replies(n)
  PROVE  LET s == chain[n].session IN
         /\ TabsTypes' /\ chain[n].at = "running" /\ ChainIs(n, "replied")
         /\ steering'[s] = <<>> /\ \A t \in Sessions : t # s => steering'[t] = steering[t]
         /\ Tells(s, Answer(chain[n].prompt, steering[s]), {})
         /\ UNCHANGED <<file, running, Screen, forwarder, live, typed, accepted>>
<1> DEFINE s == chain[n].session
           told == Answer(chain[n].prompt, steering[s])
<1>1. s \in Sessions /\ chain[n].prompt \in Nat /\ steering[s] \in Seq(Nat)
  BY ChainFacts
<1>2. told \in Seq(EventType)
  BY <1>1, AnswerType
<1>3. Goes(n, "replied") /\ chain[n].at = "running"
        /\ steering' = [steering EXCEPT ![s] = <<>>] /\ Tells(s, told, {})
        /\ UNCHANGED <<file, running, tabs, active, phase, forwarder, emitting, shown, live,
                       typed, accepted>>
  BY DEF Replies, boundVars, viewVars
<1> HIDE DEF s, told
<1>4. chain' \in [Messages -> ChainType] /\ ChainIs(n, "replied")
  BY <1>3, GoesFacts DEF ChainIs, TabsTypes
<1>5. channel' \in [Sessions -> Seq(EventType)] /\ mishaps' \in [Sessions -> SUBSET Mishaps]
  BY <1>1, <1>2, <1>3, TellsFacts DEF TabsTypes
<1>6. <<>> \in Seq(Nat)
  OBVIOUS
<1>7. steering' \in [Sessions -> Seq(Nat)] /\ steering'[s] = <<>>
        /\ \A t \in Sessions : t # s => steering'[t] = steering[t]
  BY <1>1, <1>3, <1>6 DEF TabsTypes, AgentTypes
<1>8. TabsTypes'
  BY <1>3, <1>4, <1>5, <1>7 DEF TabsTypes, AgentTypes, ScreenTypes
<1> QED
  BY <1>3, <1>4, <1>7, <1>8 DEF s, told, Screen

LEMMA WrittenStep ==
  ASSUME TabsTypes, NEW n \in Messages, Written(n),
         NEW where \in {"returned", "failed"}, Goes(n, where)
  PROVE  LET s == chain[n].session IN
         /\ chain[n].at = "replied" /\ ChainIs(n, where)
         /\ Writes(s, Said("reply", chain[n].prompt))
         /\ ~running'[s] /\ \A t \in Sessions : t # s => running'[t] = running[t]
         /\ chain' \in [Messages -> ChainType]
         /\ file' \in [Sessions -> Seq(Entries)] /\ running' \in [Sessions -> BOOLEAN]
<1> DEFINE s == chain[n].session
           said == Said("reply", chain[n].prompt)
<1>1. s \in Sessions /\ chain[n].prompt \in Nat
  BY ChainFacts
<1>2. said \in Entries
  BY <1>1, SaidIsTyped
<1>3. chain[n].at = "replied" /\ running' = [running EXCEPT ![s] = FALSE]
        /\ file' = [file EXCEPT ![s] = Append(@, said)]
  BY DEF Written
<1> HIDE DEF s, said
<1>4. chain' \in [Messages -> ChainType] /\ ChainIs(n, where)
  BY GoesFacts DEF ChainIs, TabsTypes
<1>5. file' \in [Sessions -> Seq(Entries)] /\ Writes(s, said)
  BY <1>1, <1>2, <1>3, WritesFacts DEF TabsTypes, AgentTypes
<1>6. running' \in [Sessions -> BOOLEAN] /\ ~running'[s]
        /\ \A t \in Sessions : t # s => running'[t] = running[t]
  BY <1>1, <1>3 DEF TabsTypes, AgentTypes
<1> QED
  BY <1>3, <1>4, <1>5, <1>6 DEF s, said

\* The task of a command shows its tab, a prompt that was taken does not.
MoreToShow ==
  emitting' \subseteq {"task", "forwarder"} \X Sessions /\ emitting \subseteq emitting'

LEMMA TaskShowsFacts ==
  ASSUME TabsTypes, NEW n \in Messages, TaskShows(n)
  PROVE  MoreToShow
  BY ChainFacts, WillShowType DEF TaskShows, MoreToShow, TabsTypes, ScreenTypes

LEMMA PromptReturnsStep ==
  ASSUME TabsTypes, NEW n \in Messages, PromptReturns(n)
  PROVE  LET s == chain[n].session IN
         /\ TabsTypes' /\ chain[n].at = "replied" /\ ChainIs(n, "returned")
         /\ Writes(s, Said("reply", chain[n].prompt)) /\ MoreToShow
         /\ ~running'[s] /\ \A t \in Sessions : t # s => running'[t] = running[t]
         /\ UNCHANGED <<steering, channel, tabs, active, phase, forwarder, shown, live, typed,
                        accepted, mishaps>>
<1>1. Written(n) /\ TaskShows(n) /\ Goes(n, "returned")
        /\ UNCHANGED <<steering, channel, tabs, active, phase, forwarder, shown, live, typed,
                       accepted, mishaps>>
  BY DEF PromptReturns, boundVars
<1>2. MoreToShow
  BY <1>1, TaskShowsFacts
<1>3. LET s == chain[n].session IN
      /\ chain[n].at = "replied" /\ ChainIs(n, "returned")
      /\ Writes(s, Said("reply", chain[n].prompt))
      /\ ~running'[s] /\ \A t \in Sessions : t # s => running'[t] = running[t]
      /\ chain' \in [Messages -> ChainType]
      /\ file' \in [Sessions -> Seq(Entries)] /\ running' \in [Sessions -> BOOLEAN]
  BY <1>1, WrittenStep
<1>4. TabsTypes'
  BY <1>1, <1>2, <1>3 DEF TabsTypes, AgentTypes, ScreenTypes, MoreToShow
<1> QED
  BY <1>1, <1>2, <1>3, <1>4

LEMMA PromptReturnsErrorStep ==
  ASSUME TabsTypes, NEW n \in Messages, PromptReturnsError(n)
  PROVE  LET s == chain[n].session IN
         /\ TabsTypes' /\ chain[n].at = "replied" /\ ChainIs(n, "failed")
         /\ Writes(s, Said("reply", chain[n].prompt))
         /\ ~running'[s] /\ \A t \in Sessions : t # s => running'[t] = running[t]
         /\ UNCHANGED <<steering, channel, Screen, forwarder, live, typed, accepted, mishaps>>
<1>1. Written(n) /\ Goes(n, "failed")
        /\ UNCHANGED <<steering, channel, tabs, active, phase, forwarder, emitting, shown, live,
                       typed, accepted, mishaps>>
  BY DEF PromptReturnsError, viewVars, Incident
<1>3. LET s == chain[n].session IN
      /\ chain[n].at = "replied" /\ ChainIs(n, "failed")
      /\ Writes(s, Said("reply", chain[n].prompt))
      /\ ~running'[s] /\ \A t \in Sessions : t # s => running'[t] = running[t]
      /\ chain' \in [Messages -> ChainType]
      /\ file' \in [Sessions -> Seq(Entries)] /\ running' \in [Sessions -> BOOLEAN]
  BY <1>1, WrittenStep
<1>4. TabsTypes'
  BY <1>1, <1>3 DEF TabsTypes, AgentTypes, ScreenTypes
<1> QED
  BY <1>1, <1>3, <1>4 DEF Screen

Restarted(v, ms, b) == [v EXCEPT !.messages = ms, !.base = Len(ms), !.streaming = b]

LEMMA RestartedType ==
  ASSUME NEW v, IsView(v), NEW ms \in Seq(SaidType), NEW b \in BOOLEAN
  PROVE  LET w == Restarted(v, ms, b) IN
         /\ IsView(w)
         /\ w.messages = ms /\ w.base = Len(ms) /\ w.streaming = b
         /\ w.interaction = v.interaction /\ w.summary = v.summary
         /\ w.queue = v.queue /\ w.steering = v.steering
<1>1. v \in ViewType /\ Len(ms) \in Nat
  BY DEF IsView
<1> DEFINE n == Len(ms)
           w == Restarted(v, ms, b)
<1>2. n \in Nat /\ n <= Len(ms) /\ w = [v EXCEPT !.messages = ms, !.base = n, !.streaming = b]
  BY <1>1 DEF Restarted
<1> HIDE DEF n, w
<1>3. [v EXCEPT !.messages = ms, !.base = n] \in ViewType
  BY <1>1, <1>2 DEF ViewType
<1>4. [[v EXCEPT !.messages = ms, !.base = n] EXCEPT !.streaming = b] \in ViewType
  BY <1>3 DEF ViewType
<1>5. w \in ViewType
  BY <1>2, <1>4, Zenon
<1>6. /\ w.messages = ms /\ w.base = n /\ w.streaming = b
      /\ w.interaction = v.interaction /\ w.summary = v.summary
      /\ w.queue = v.queue /\ w.steering = v.steering
  BY <1>1, <1>2 DEF ViewType
<1>7. IsView(w)
  BY <1>2, <1>5, <1>6 DEF IsView
<1> QED
  BY <1>6, <1>7 DEF n, w

LEMMA ReportErrorStep ==
  ASSUME TabsTypes, NEW n \in Messages, ReportError(n)
  PROVE  LET s == chain[n].session
             said == Said("error", chain[n].prompt) IN
         /\ TabsTypes' /\ chain[n].at = "failed" /\ ChainIs(n, "returned")
         /\ Writes(s, said) /\ MoreToShow
         /\ live'[s].messages = Append(Loaded(file[s]), said)
         /\ live'[s].base = Len(live'[s].messages)
         /\ live'[s].streaming = (live[s].queue # <<>>) /\ SameWaiting(live[s], live'[s])
         /\ live'[s].interaction = live[s].interaction /\ live'[s].summary = live[s].summary
         /\ \A t \in Sessions : t # s => live'[t] = live[t]
         /\ shown' = Snapshot(s, live'[s])
         /\ Befalls(s, IF InTurn(s) THEN {"error in turn"} ELSE {})
         /\ UNCHANGED <<running, steering, channel, tabs, active, phase, forwarder, typed,
                        accepted>>
<1> DEFINE s == chain[n].session
           said == Said("error", chain[n].prompt)
           ms == Append(Loaded(file[s]), said)
           b == live[s].queue # <<>>
           v == [live[s] EXCEPT !.messages = ms, !.base = Len(ms), !.streaming = b]
           what == IF InTurn(s) THEN {"error in turn"} ELSE {}
<1>1. s \in Sessions /\ chain[n].prompt \in Nat /\ IsView(live[s]) /\ file[s] \in Seq(Entries)
  BY ChainFacts
<1>2. said \in SaidType /\ said \in Entries
  BY <1>1, SaidIsTyped
<1>3. /\ Goes(n, "returned") /\ chain[n].at = "failed"
      /\ Set(s, v) /\ shown' = Snapshot(s, v)
      /\ file' = [file EXCEPT ![s] = Append(@, said)]
      /\ Happens(s, what) /\ TaskShows(n)
      /\ UNCHANGED <<running, steering, channel, tabs, active, phase, forwarder, typed, accepted>>
  BY DEF ReportError, boundVars
<1>4. ms \in Seq(SaidType) /\ b \in BOOLEAN
  <2>1. Loaded(file[s]) \in Seq(SaidType)
    BY <1>1, LoadedType
  <2> QED
    BY <1>2, <2>1, AppendProperties
<1>5. what \in SUBSET Mishaps
  BY DEF Mishaps
<1>6. MoreToShow
  BY <1>3, TaskShowsFacts
<1> HIDE DEF s, said, ms, b, what
<1>7. /\ IsView(v) /\ v.messages = ms /\ v.base = Len(ms) /\ v.streaming = b
      /\ v.interaction = live[s].interaction /\ v.summary = live[s].summary
      /\ v.queue = live[s].queue /\ v.steering = live[s].steering
  <2> DEFINE u == live[s]
  <2>1. IsView(u) /\ v = Restarted(u, ms, b)
    BY <1>1 DEF Restarted
  <2> HIDE DEF u, v
  <2>2. /\ IsView(v) /\ v.messages = ms /\ v.base = Len(ms) /\ v.streaming = b
        /\ v.interaction = u.interaction /\ v.summary = u.summary
        /\ v.queue = u.queue /\ v.steering = u.steering
    BY <1>4, <2>1, RestartedType
  <2> QED
    BY <2>2 DEF u
<1> HIDE DEF v
<1>8. chain' \in [Messages -> ChainType] /\ ChainIs(n, "returned")
  BY <1>3, GoesFacts DEF ChainIs, TabsTypes
<1>9. live' \in [Sessions -> ViewType] /\ (\A t \in Sessions : IsView(live'[t]))
        /\ live'[s] = v /\ \A t \in Sessions : t # s => live'[t] = live[t]
  BY <1>1, <1>3, <1>7, SetFacts DEF TabsTypes
<1>10. file' \in [Sessions -> Seq(Entries)] /\ Writes(s, said)
  BY <1>1, <1>2, <1>3, WritesFacts DEF TabsTypes, AgentTypes
<1>11. mishaps' \in [Sessions -> SUBSET Mishaps] /\ Befalls(s, what)
  BY <1>1, <1>3, <1>5, HappensFacts DEF TabsTypes, Befalls
<1>12. shown' \in [session : Sessions, streaming : BOOLEAN]
  BY <1>1, <1>3, <1>4, <1>7 DEF Snapshot
<1>13. TabsTypes'
  BY <1>3, <1>6, <1>8, <1>9, <1>10, <1>11, <1>12
     DEF TabsTypes, AgentTypes, ScreenTypes, MoreToShow
<1>14. /\ live'[s].messages = ms /\ live'[s].base = Len(live'[s].messages)
       /\ live'[s].streaming = b /\ SameWaiting(live[s], live'[s])
       /\ live'[s].interaction = live[s].interaction /\ live'[s].summary = live[s].summary
       /\ shown' = Snapshot(s, live'[s])
  BY <1>3, <1>7, <1>9 DEF SameWaiting
<1> QED
  BY <1>3, <1>6, <1>8, <1>9, <1>10, <1>11, <1>13, <1>14 DEF s, said, ms, b, what

(***************************************************************************)
(* What waits in a view, in any of the two queues, may change.             *)
(***************************************************************************)
LEMMA QueueType ==
  ASSUME NEW v, IsView(v), NEW q \in Seq(Nat)
  PROVE  LET w == [v EXCEPT !.queue = q] IN
         /\ IsView(w) /\ w.messages = v.messages /\ SameRun(v, w) /\ w.at = v.at
         /\ w.queue = q /\ w.steering = v.steering
  BY DEF IsView, ViewType, SameRun

LEMMA SteeringType ==
  ASSUME NEW v, IsView(v), NEW q \in Seq(Nat)
  PROVE  LET w == [v EXCEPT !.steering = q] IN
         /\ IsView(w) /\ w.messages = v.messages /\ SameRun(v, w) /\ w.at = v.at
         /\ w.queue = v.queue /\ w.steering = q
  BY DEF IsView, ViewType, SameRun

LEMMA TakesStep ==
  ASSUME TabsTypes, NEW n \in Messages, Takes(n)
  PROVE  LET s == chain[n].session IN
         /\ TabsTypes' /\ chain[n].at = "returned" /\ live[s].queue # <<>>
         /\ Sees(s, [live[s] EXCEPT !.queue = Tail(live[s].queue)])
         /\ \A m \in Messages : m # n => chain'[m] = chain[m]
         /\ chain'[n].session = s /\ chain'[n].prompt = Head(live[s].queue)
         /\ chain'[n].at = "prompting"
         /\ UNCHANGED <<agentVars, Screen, forwarder, typed, accepted, mishaps>>
<1> DEFINE s == chain[n].session
           q == live[s].queue
           v == [live[s] EXCEPT !.queue = Tail(q)]
           c == [chain[n] EXCEPT !.prompt = Head(q), !.at = "prompting"]
<1>1. s \in Sessions /\ live[s] \in ViewType /\ IsView(live[s])
  BY ChainFacts
<1>2. q \in Seq(Nat)
  BY <1>1 DEF ViewType
<1>3. /\ chain[n].at = "returned" /\ q # <<>> /\ Set(s, v)
      /\ chain' = [chain EXCEPT ![n].prompt = Head(q), ![n].at = "prompting"]
      /\ UNCHANGED <<agentVars, tabs, active, phase, forwarder, emitting, shown, typed, accepted,
                     mishaps>>
  BY DEF Takes, viewVars, boundVars
<1>4. Tail(q) \in Seq(Nat) /\ Head(q) \in Nat
  BY <1>2, <1>3
<1>5. IsView(v)
  BY <1>1, <1>4, QueueType
<1>6. chain \in [Messages -> ChainType] /\ chain[n] \in ChainType
  BY DEF TabsTypes
<1>7. chain' = [chain EXCEPT ![n] = c]
  BY <1>3, <1>6, Zenon
<1> HIDE DEF q
<1>8. c \in ChainType /\ c.session = s /\ c.prompt = Head(q) /\ c.at = "prompting"
  BY <1>4, <1>6 DEF ChainType
<1> HIDE DEF c, s, v
<1>9. chain' \in [Messages -> ChainType] /\ chain'[n] = c
        /\ \A m \in Messages : m # n => chain'[m] = chain[m]
  BY <1>6, <1>7, <1>8
<1>10. live' \in [Sessions -> ViewType] /\ (\A t \in Sessions : IsView(live'[t])) /\ Sees(s, v)
  BY <1>1, <1>3, <1>5, SetFacts DEF TabsTypes, Sees
<1>11. TabsTypes'
  BY <1>3, <1>9, <1>10 DEF TabsTypes, AgentTypes, ScreenTypes, agentVars
<1> QED
  BY <1>3, <1>8, <1>9, <1>10, <1>11 DEF s, q, v, Screen

LEMMA TakesNothingStep ==
  ASSUME TabsTypes, NEW n \in Messages, TakesNothing(n)
  PROVE  LET v == live[chain[n].session] IN
         /\ TabsTypes' /\ chain[n].at = "returned" /\ v.queue = <<>>
         /\ ChainIs(n, IF v.interaction THEN "finishing" ELSE "off")
         /\ UNCHANGED <<agentVars, Screen, forwarder, live, typed, accepted, mishaps>>
<1> DEFINE v == live[chain[n].session]
           where == IF v.interaction THEN "finishing" ELSE "off"
<1>1. Goes(n, where) /\ chain[n].at = "returned" /\ v.queue = <<>>
        /\ UNCHANGED <<agentVars, tabs, active, phase, forwarder, emitting, shown, live, typed,
                       accepted, mishaps>>
  BY DEF TakesNothing, viewVars, boundVars
<1>2. where \in {"off", "finishing"}
  OBVIOUS
<1> HIDE DEF where
<1>3. chain' \in [Messages -> ChainType] /\ ChainIs(n, where)
  BY <1>1, <1>2, GoesFacts DEF ChainIs, TabsTypes
<1>4. TabsTypes'
  BY <1>1, <1>3 DEF TabsTypes, AgentTypes, ScreenTypes, agentVars
<1> QED
  BY <1>1, <1>3, <1>4 DEF Screen, where

LEMMA FinishStep ==
  ASSUME TabsTypes, NEW n \in Messages, Finish(n)
  PROVE  LET s == chain[n].session IN
         /\ TabsTypes' /\ chain[n].at = "finishing" /\ ChainIs(n, "off")
         /\ Writes(s, [kind |-> "summary", changes |-> Changes(file[s])])
         /\ Sees(s, Finished(live[s], Changes(file[s]))) /\ MoreToShow
         /\ Active = s => <<"task", s>> \in emitting'
         /\ UNCHANGED <<running, steering, channel, tabs, active, phase, forwarder, shown, typed,
                        accepted, mishaps>>
<1> DEFINE s == chain[n].session
           e == [kind |-> "summary", changes |-> Changes(file[s])]
           v == Finished(live[s], Changes(file[s]))
<1>1. s \in Sessions /\ IsView(live[s]) /\ file[s] \in Seq(Entries)
  BY ChainFacts
<1>2. Changes(file[s]) \in SUBSET Nat
  BY <1>1, ChangesType
<1>3. e \in Entries
  BY <1>2 DEF Entries
<1>4. IsView(v)
  BY <1>1, <1>2, FinishedType
<1>5. /\ Goes(n, "off") /\ chain[n].at = "finishing" /\ Set(s, v)
      /\ file' = [file EXCEPT ![s] = Append(@, e)]
      /\ emitting' = WillShow("task", s)
      /\ UNCHANGED <<running, steering, channel, tabs, active, phase, forwarder, shown, typed,
                     accepted, mishaps>>
  <2>1. file' = [file EXCEPT ![s] = Append(@, [kind |-> "summary", changes |-> Changes(@)])]
    BY DEF Finish
  <2>2. file' = [file EXCEPT ![s] = Append(@, e)]
    BY <2>1
  <2> QED
    BY <2>2 DEF Finish, boundVars
<1> HIDE DEF s, e, v
<1>6. chain' \in [Messages -> ChainType] /\ ChainIs(n, "off")
  BY <1>5, GoesFacts DEF ChainIs, TabsTypes
<1>7. file' \in [Sessions -> Seq(Entries)] /\ Writes(s, e)
  BY <1>1, <1>3, <1>5, WritesFacts DEF TabsTypes, AgentTypes
<1>8. live' \in [Sessions -> ViewType] /\ (\A t \in Sessions : IsView(live'[t])) /\ Sees(s, v)
  BY <1>1, <1>4, <1>5, SetFacts DEF TabsTypes, Sees
<1>9. MoreToShow /\ (Active = s => <<"task", s>> \in emitting')
  BY <1>1, <1>5, WillShowType DEF MoreToShow, TabsTypes, ScreenTypes
<1>10. TabsTypes'
  BY <1>5, <1>6, <1>7, <1>8, <1>9 DEF TabsTypes, AgentTypes, ScreenTypes, MoreToShow
<1> QED
  BY <1>5, <1>6, <1>7, <1>8, <1>9, <1>10 DEF s, e, v

-----------------------------------------------------------------------------
(***************************************************************************)
(* The steps of the user, of a forwarder and of what shows a tab.          *)
(***************************************************************************)
LEMMA ActiveFacts ==
  ASSUME TabsTypes
  PROVE  /\ Active \in Sessions /\ IsView(live[Active]) /\ live[Active] \in ViewType
         /\ tabs \in Seq(Sessions) /\ Len(tabs) \in Nat /\ active \in 1..Len(tabs)
         /\ \A s \in Sessions : HasTab(s) <=> \E i \in 1..Len(tabs) : tabs[i] = s
         /\ HasTab(Active)
<1>1. tabs \in Seq(Sessions) /\ Len(tabs) \in Nat /\ active \in 1..Len(tabs)
  BY DEF TabsTypes, ScreenTypes
<1>2. Active \in Sessions
  BY <1>1 DEF Active
<1>3. DOMAIN tabs = 1..Len(tabs)
  BY <1>1
<1>4. \A s \in Sessions : HasTab(s) <=> \E i \in 1..Len(tabs) : tabs[i] = s
  BY <1>3 DEF HasTab, ToSet
<1>5. HasTab(Active)
  BY <1>1, <1>2, <1>4 DEF Active
<1> QED
  BY <1>1, <1>2, <1>4, <1>5 DEF TabsTypes

LEMMA SendStep ==
  ASSUME TabsTypes, NEW n \in Messages, Send(n)
  PROVE  LET s == Active
             v == [EmptyView EXCEPT !.messages = live[s].messages] IN
         /\ TabsTypes' /\ n = typed + 1 /\ typed' = n /\ ~shown.streaming
         /\ phase'[s] = "active" /\ \A t \in Sessions : t # s => phase'[t] = phase[t]
         /\ phase[s] = "active" => live' = live
         /\ phase[s] # "active" => Sees(s, [v EXCEPT !.summary = LastSummary(file[s])])
         /\ \A m \in Messages : m # n => chain'[m] = chain[m]
         /\ chain'[n] = [session |-> s, prompt |-> n, at |-> "sending"]
         /\ Befalls(s, IF ChainsOf(s) # {} THEN {"double"} ELSE {})
         /\ UNCHANGED <<agentVars, tabs, active, forwarder, emitting, shown, accepted>>
<1> DEFINE s == Active
           v == [EmptyView EXCEPT !.messages = live[s].messages]
           w == [v EXCEPT !.summary = LastSummary(file[s])]
           what == IF ChainsOf(s) # {} THEN {"double"} ELSE {}
           c == [session |-> s, prompt |-> n, at |-> "sending"]
<1>1. s \in Sessions /\ live[s] \in ViewType /\ IsView(live[s]) /\ file[s] \in Seq(Entries)
  BY ActiveFacts DEF TabsTypes, AgentTypes
<1>2. w = [EmptyView EXCEPT !.messages = live[s].messages, !.summary = LastSummary(file[s])]
  BY Zenon
<1>3. /\ n = typed + 1 /\ typed < MaxMessages /\ typed' = n /\ ~shown.streaming
      /\ phase' = [phase EXCEPT ![s] = "active"]
      /\ phase[s] = "active" => live' = live
      /\ phase[s] # "active" => Set(s, w)
      /\ chain' = [chain EXCEPT ![n] = c]
      /\ Happens(s, what)
      /\ UNCHANGED <<agentVars, tabs, active, forwarder, emitting, shown, accepted>>
  BY <1>2 DEF Send, Set
<1>4. what \in SUBSET Mishaps
  BY DEF Mishaps
<1>5. live[s].messages \in Seq(SaidType) /\ LastSummary(file[s]) \in SUBSET SUBSET Nat
  BY <1>1, LastSummaryType DEF ViewType
<1>6. IsView(v)
  BY <1>5, EmptyViewType
<1> HIDE DEF v
<1>7. IsView(w)
  BY <1>5, <1>6 DEF IsView, ViewType
<1>8. n \in Nat /\ typed \in Nat /\ n \in 0..MaxMessages
  BY <1>3, TabsAssumption DEF TabsTypes, Messages
<1>9. c \in ChainType
  BY <1>1, <1>8 DEF ChainType
<1> HIDE DEF s, w, what, c
<1>10. phase' \in [Sessions -> {"none", "loaded", "active"}]
         /\ phase'[s] = "active" /\ \A t \in Sessions : t # s => phase'[t] = phase[t]
  BY <1>1, <1>3 DEF TabsTypes, ScreenTypes
<1>11. live' \in [Sessions -> ViewType] /\ (\A t \in Sessions : IsView(live'[t]))
         /\ (phase[s] # "active" => Sees(s, w))
  <2>1. CASE phase[s] = "active"
    BY <1>3, <2>1 DEF TabsTypes
  <2>2. CASE phase[s] # "active"
    BY <1>1, <1>3, <1>7, <2>2, SetFacts DEF TabsTypes, Sees
  <2> QED
    BY <2>1, <2>2
<1>12. chain' \in [Messages -> ChainType] /\ chain'[n] = c
         /\ \A m \in Messages : m # n => chain'[m] = chain[m]
  BY <1>3, <1>9 DEF TabsTypes
<1>13. mishaps' \in [Sessions -> SUBSET Mishaps] /\ Befalls(s, what)
  BY <1>1, <1>3, <1>4, HappensFacts DEF TabsTypes, Befalls
<1>14. accepted' \subseteq 1..typed' /\ typed' \in 0..MaxMessages
  BY <1>3, <1>8 DEF TabsTypes
<1>15. TabsTypes'
  BY <1>3, <1>10, <1>11, <1>12, <1>13, <1>14 DEF TabsTypes, AgentTypes, ScreenTypes, agentVars
<1> QED
  BY <1>3, <1>10, <1>11, <1>12, <1>13, <1>15 DEF s, v, w, what, c

LEMMA SubscribeStep ==
  ASSUME TabsTypes, NEW s \in Sessions, Subscribe(s)
  PROVE  /\ TabsTypes' /\ forwarder[s] = "spawned" /\ forwarder'[s] = "on"
         /\ \A t \in Sessions : t # s => forwarder'[t] = forwarder[t]
         /\ UNCHANGED <<agentVars, Screen, live, chain, typed, accepted, mishaps>>
<1>1. /\ forwarder[s] = "spawned" /\ forwarder' = [forwarder EXCEPT ![s] = "on"]
      /\ UNCHANGED <<agentVars, tabs, active, phase, emitting, shown, live, chain, typed,
                     accepted, mishaps>>
  BY DEF Subscribe, boundVars
<1>2. forwarder' \in [Sessions -> {"off", "spawned", "on"}] /\ forwarder'[s] = "on"
        /\ \A t \in Sessions : t # s => forwarder'[t] = forwarder[t]
  BY <1>1 DEF TabsTypes, ScreenTypes
<1>3. TabsTypes'
  BY <1>1, <1>2 DEF TabsTypes, AgentTypes, ScreenTypes, agentVars
<1> QED
  BY <1>1, <1>2, <1>3 DEF Screen

LEMMA ForwardStep ==
  ASSUME TabsTypes, NEW s \in Sessions, Forward(s)
  PROVE  LET e == Head(channel[s]) IN
         /\ TabsTypes' /\ channel[s] # <<>> /\ e \in EventType
         /\ channel[s] \in Seq(EventType) /\ IsView(live[s])
         /\ channel'[s] = Tail(channel[s])
         /\ \A t \in Sessions : t # s => channel'[t] = channel[t]
         /\ Sees(s, Apply(live[s], e)) /\ MoreToShow
         /\ Active = s => <<"forwarder", s>> \in emitting'
         /\ Befalls(s, IF e.type = "start" /\ ~AtWork(s) THEN {"late"} ELSE {})
         /\ UNCHANGED <<file, running, steering, tabs, active, phase, forwarder, shown, chain,
                        typed, accepted>>
<1> DEFINE e == Head(channel[s])
           v == Apply(live[s], e)
           what == IF e.type = "start" /\ ~AtWork(s) THEN {"late"} ELSE {}
<1>1. IsView(live[s]) /\ channel[s] \in Seq(EventType)
  BY DEF TabsTypes, AgentTypes
<1>2. /\ channel[s] # <<>>
      /\ channel' = [channel EXCEPT ![s] = Tail(channel[s])]
      /\ Set(s, v) /\ emitting' = WillShow("forwarder", s)
      /\ Happens(s, what)
      /\ UNCHANGED <<file, running, steering, tabs, active, phase, forwarder, shown, chain,
                     typed, accepted>>
  BY DEF Forward, boundVars
<1>3. e \in EventType /\ Tail(channel[s]) \in Seq(EventType)
  BY <1>1, <1>2
<1>4. IsView(v)
  BY <1>1, <1>3, ApplyType
<1>5. what \in SUBSET Mishaps
  BY DEF Mishaps
<1> HIDE DEF e, v, what
<1>6. channel' \in [Sessions -> Seq(EventType)] /\ channel'[s] = Tail(channel[s])
        /\ \A t \in Sessions : t # s => channel'[t] = channel[t]
  BY <1>2, <1>3 DEF TabsTypes, AgentTypes
<1>7. live' \in [Sessions -> ViewType] /\ (\A t \in Sessions : IsView(live'[t])) /\ Sees(s, v)
  BY <1>2, <1>4, SetFacts DEF TabsTypes, Sees
<1>8. MoreToShow /\ (Active = s => <<"forwarder", s>> \in emitting')
  BY <1>2, WillShowType DEF MoreToShow, TabsTypes, ScreenTypes
<1>9. mishaps' \in [Sessions -> SUBSET Mishaps] /\ Befalls(s, what)
  BY <1>2, <1>5, HappensFacts DEF TabsTypes, Befalls
<1>10. TabsTypes'
  BY <1>2, <1>6, <1>7, <1>8, <1>9 DEF TabsTypes, AgentTypes, ScreenTypes, MoreToShow
<1> QED
  BY <1>1, <1>2, <1>3, <1>6, <1>7, <1>8, <1>9, <1>10 DEF e, v, what

LEMMA ShowStep ==
  ASSUME TabsTypes, NEW e \in emitting, Show(e)
  PROVE  /\ TabsTypes' /\ emitting' = emitting \ {e} /\ e[2] \in Sessions
         /\ shown' = Snapshot(e[2], live[e[2]])
         /\ UNCHANGED <<agentVars, tabs, active, phase, forwarder, live, chain, typed, accepted,
                        mishaps>>
<1>1. /\ emitting' = emitting \ {e} /\ shown' = Snapshot(e[2], live[e[2]])
      /\ UNCHANGED <<agentVars, tabs, active, phase, forwarder, live, chain, typed, accepted,
                     mishaps>>
  BY DEF Show, boundVars
<1>2. e[2] \in Sessions
  BY DEF TabsTypes, ScreenTypes
<1>3. live[e[2]].streaming \in BOOLEAN
  BY <1>2 DEF TabsTypes, ViewType
<1>4. shown' \in [session : Sessions, streaming : BOOLEAN]
  BY <1>1, <1>2, <1>3 DEF Snapshot
<1>5. emitting' \subseteq {"task", "forwarder"} \X Sessions
  BY <1>1 DEF TabsTypes, ScreenTypes
<1>6. TabsTypes'
  BY <1>1, <1>4, <1>5 DEF TabsTypes, AgentTypes, ScreenTypes, agentVars
<1> QED
  BY <1>1, <1>2, <1>6

LEMMA TypesFacts ==
  ASSUME TabsTypes, Types
  PROVE  /\ typed \in Nat /\ typed + 1 \in Nat /\ typed' = typed + 1
         /\ typed' \in 0..MaxMessages /\ 1..typed \subseteq 1..typed'
  BY TabsAssumption DEF TabsTypes, Types

LEMMA QueueStep ==
  ASSUME TabsTypes, Queue
  PROVE  LET s == Active IN
         /\ TabsTypes' /\ MayRun /\ typed' = typed + 1
         /\ Sees(s, [live[s] EXCEPT !.queue = Append(live[s].queue, typed + 1)])
         /\ shown' = Snapshot(s, live'[s])
         /\ accepted' = accepted \cup {typed + 1}
         /\ Befalls(s, IF Busy(s) THEN {} ELSE {"stale"})
         /\ UNCHANGED <<agentVars, tabs, active, phase, forwarder, emitting, chain>>
<1> DEFINE s == Active
           q == Append(live[s].queue, typed + 1)
           v == [live[s] EXCEPT !.queue = q]
           what == IF Busy(s) THEN {} ELSE {"stale"}
<1>1. s \in Sessions /\ live[s] \in ViewType /\ IsView(live[s])
  BY ActiveFacts
<1>2. /\ MayRun /\ Types /\ Set(s, v) /\ shown' = Snapshot(s, v)
      /\ accepted' = accepted \cup {typed + 1} /\ Happens(s, what)
      /\ UNCHANGED <<agentVars, tabs, active, phase, forwarder, emitting, chain>>
  BY DEF Queue
<1>3. /\ typed \in Nat /\ typed + 1 \in Nat /\ typed' = typed + 1
      /\ typed' \in 0..MaxMessages /\ 1..typed \subseteq 1..typed'
  BY <1>2, TypesFacts
<1>4. q \in Seq(Nat)
  <2>1. live[s].queue \in Seq(Nat)
    BY <1>1 DEF ViewType
  <2> QED
    BY <1>3, <2>1, AppendProperties
<1>5. what \in SUBSET Mishaps
  BY DEF Mishaps
<1> HIDE DEF s, q, what
<1>6. IsView(v) /\ v.streaming \in BOOLEAN
  BY <1>1, <1>4, QueueType DEF IsView, ViewType
<1> HIDE DEF v
<1>7. live' \in [Sessions -> ViewType] /\ (\A t \in Sessions : IsView(live'[t])) /\ Sees(s, v)
  BY <1>1, <1>2, <1>6, SetFacts DEF TabsTypes, Sees
<1>8. mishaps' \in [Sessions -> SUBSET Mishaps] /\ Befalls(s, what)
  BY <1>1, <1>2, <1>5, HappensFacts DEF TabsTypes, Befalls
<1>9. shown' \in [session : Sessions, streaming : BOOLEAN] /\ shown' = Snapshot(s, live'[s])
  BY <1>1, <1>2, <1>6, <1>7 DEF Snapshot, Sees
<1>10. accepted' \subseteq 1..typed'
  BY <1>2, <1>3 DEF TabsTypes
<1>11. TabsTypes'
  BY <1>2, <1>3, <1>7, <1>8, <1>9, <1>10 DEF TabsTypes, AgentTypes, ScreenTypes, agentVars
<1> QED
  BY <1>2, <1>3, <1>7, <1>8, <1>9, <1>11 DEF s, q, v, what

LEMMA SteerStep ==
  ASSUME TabsTypes, Steer
  PROVE  LET s == Active IN
         /\ TabsTypes' /\ MayRun /\ typed' = typed + 1
         /\ steering'[s] = Append(steering[s], typed + 1)
         /\ \A t \in Sessions : t # s => steering'[t] = steering[t]
         /\ Sees(s, [live[s] EXCEPT !.steering = Append(live[s].steering, typed + 1)])
         /\ shown' = Snapshot(s, live'[s])
         /\ UNCHANGED <<file, running, channel, tabs, active, phase, forwarder, emitting, chain,
                        accepted, mishaps>>
<1> DEFINE s == Active
           q == Append(live[s].steering, typed + 1)
           v == [live[s] EXCEPT !.steering = q]
<1>1. s \in Sessions /\ live[s] \in ViewType /\ IsView(live[s]) /\ steering[s] \in Seq(Nat)
  BY ActiveFacts DEF TabsTypes, AgentTypes
<1>2. /\ MayRun /\ Types /\ Set(s, v) /\ shown' = Snapshot(s, v)
      /\ steering' = [steering EXCEPT ![s] = Append(steering[s], typed + 1)]
      /\ UNCHANGED <<file, running, channel, tabs, active, phase, forwarder, emitting, chain,
                     accepted, mishaps>>
  BY DEF Steer
<1>3. /\ typed \in Nat /\ typed + 1 \in Nat /\ typed' = typed + 1
      /\ typed' \in 0..MaxMessages /\ 1..typed \subseteq 1..typed'
  BY <1>2, TypesFacts
<1>4. q \in Seq(Nat) /\ Append(steering[s], typed + 1) \in Seq(Nat)
  <2>1. live[s].steering \in Seq(Nat)
    BY <1>1 DEF ViewType
  <2> QED
    BY <1>1, <1>3, <2>1, AppendProperties
<1> HIDE DEF s, q
<1>6. IsView(v) /\ v.streaming \in BOOLEAN
  BY <1>1, <1>4, SteeringType DEF IsView, ViewType
<1> HIDE DEF v
<1>7. live' \in [Sessions -> ViewType] /\ (\A t \in Sessions : IsView(live'[t])) /\ Sees(s, v)
  BY <1>1, <1>2, <1>6, SetFacts DEF TabsTypes, Sees
<1>8. /\ steering' \in [Sessions -> Seq(Nat)] /\ steering'[s] = Append(steering[s], typed + 1)
      /\ \A t \in Sessions : t # s => steering'[t] = steering[t]
  BY <1>1, <1>2, <1>4 DEF TabsTypes, AgentTypes
<1>9. shown' \in [session : Sessions, streaming : BOOLEAN] /\ shown' = Snapshot(s, live'[s])
  BY <1>1, <1>2, <1>6, <1>7 DEF Snapshot, Sees
<1>10. accepted' \subseteq 1..typed'
  BY <1>2, <1>3 DEF TabsTypes
<1>11. TabsTypes'
  BY <1>2, <1>3, <1>7, <1>8, <1>9, <1>10 DEF TabsTypes, AgentTypes, ScreenTypes
<1> QED
  BY <1>2, <1>3, <1>7, <1>8, <1>9, <1>11 DEF s, q, v

LEMMA AbortStep ==
  ASSUME TabsTypes, Abort
  PROVE  LET s == Active IN
         /\ TabsTypes' /\ phase[s] = "active"
         /\ Sees(s, [live[s] EXCEPT !.queue = <<>>])
         /\ steering'[s] = <<>> /\ \A t \in Sessions : t # s => steering'[t] = steering[t]
         /\ accepted' = accepted \ ToSet(live[s].queue)
         /\ Befalls(s, {"aborted"})
         /\ UNCHANGED <<file, running, channel, Screen, forwarder, chain, typed>>
<1> DEFINE s == Active
           v == [live[s] EXCEPT !.queue = <<>>]
<1>1. s \in Sessions /\ live[s] \in ViewType /\ IsView(live[s]) /\ <<>> \in Seq(Nat)
  BY ActiveFacts
<1>2. /\ phase[s] = "active" /\ Set(s, v)
      /\ steering' = [steering EXCEPT ![s] = <<>>]
      /\ accepted' = accepted \ ToSet(live[s].queue) /\ Happens(s, {"aborted"})
      /\ UNCHANGED <<file, running, channel, tabs, active, phase, forwarder, emitting, shown,
                     chain, typed>>
  BY DEF Abort, viewVars, Incident
<1>3. {"aborted"} \in SUBSET Mishaps
  BY DEF Mishaps
<1> HIDE DEF s
<1>4. IsView(v)
  BY <1>1, QueueType
<1> HIDE DEF v
<1>5. live' \in [Sessions -> ViewType] /\ (\A t \in Sessions : IsView(live'[t])) /\ Sees(s, v)
  BY <1>1, <1>2, <1>4, SetFacts DEF TabsTypes, Sees
<1>6. steering' \in [Sessions -> Seq(Nat)] /\ steering'[s] = <<>>
        /\ \A t \in Sessions : t # s => steering'[t] = steering[t]
  BY <1>1, <1>2 DEF TabsTypes, AgentTypes
<1>7. mishaps' \in [Sessions -> SUBSET Mishaps] /\ Befalls(s, {"aborted"})
  BY <1>1, <1>2, <1>3, HappensFacts DEF TabsTypes, Befalls
<1>8. accepted' \subseteq 1..typed'
  BY <1>2 DEF TabsTypes
<1>9. TabsTypes'
  BY <1>2, <1>5, <1>6, <1>7, <1>8 DEF TabsTypes, AgentTypes, ScreenTypes
<1> QED
  BY <1>2, <1>5, <1>6, <1>7, <1>9 DEF s, v, Screen

LEMMA SwitchStep ==
  ASSUME TabsTypes, NEW s \in Sessions, Switch(s)
  PROVE  /\ TabsTypes' /\ s # Active /\ (HasTab(s) \/ s \in Saved)
         /\ HasTab(s) => UNCHANGED <<tabs, phase, live>>
         /\ ~HasTab(s) =>
              /\ tabs' = Append(tabs, s)
              /\ phase'[s] = "loaded" /\ \A t \in Sessions : t # s => phase'[t] = phase[t]
              /\ Sees(s, [EmptyView EXCEPT !.messages = Loaded(file[s])])
         /\ active' \in 1..Len(tabs') /\ tabs'[active'] = s
         /\ shown' = Snapshot(s, live'[s])
         /\ UNCHANGED <<agentVars, forwarder, emitting, chain, typed, accepted, mishaps>>
<1> DEFINE v == [EmptyView EXCEPT !.messages = Loaded(file[s])]
<1>1. /\ s # Active /\ (HasTab(s) \/ s \in Saved)
      /\ HasTab(s) => UNCHANGED <<tabs, phase, live>>
      /\ ~HasTab(s) => /\ tabs' = Append(tabs, s) /\ phase' = [phase EXCEPT ![s] = "loaded"]
                       /\ Set(s, v)
      /\ active' = FirstOf(tabs', s) /\ shown' = Snapshot(s, live'[s])
      /\ UNCHANGED <<agentVars, forwarder, emitting, chain, typed, accepted, mishaps>>
  BY DEF Switch, Activates, Incident
<1>2. IsView(v)
  BY LoadedType, EmptyViewType DEF TabsTypes, AgentTypes
<1> HIDE DEF v
<1>3. tabs \in Seq(Sessions) /\ Len(tabs) \in Nat
        /\ (HasTab(s) => \E i \in 1..Len(tabs) : tabs[i] = s)
  BY ActiveFacts
<1>4. tabs' \in Seq(Sessions) /\ \E i \in 1..Len(tabs') : tabs'[i] = s
  <2>1. CASE HasTab(s)
    BY <1>1, <1>3, <2>1
  <2>2. CASE ~HasTab(s)
    <3>1. Append(tabs, s) \in Seq(Sessions) /\ Len(Append(tabs, s)) = Len(tabs) + 1
            /\ Append(tabs, s)[Len(tabs) + 1] = s
      BY <1>3, AppendProperties
    <3> QED
      BY <1>1, <1>3, <2>2, <3>1
  <2> QED
    BY <2>1, <2>2
<1>5. active' \in 1..Len(tabs') /\ tabs'[active'] = s
  <2>1. \A q \in Seq(Sessions) : Contains(q, s) =>
          FirstOf(q, s) \in 1..Len(q) /\ q[FirstOf(q, s)] = s
    BY FirstPlace
  <2>2. Contains(tabs', s)
    BY <1>4 DEF Contains
  <2> QED
    BY <1>1, <1>4, <2>1, <2>2
<1>6. phase' \in [Sessions -> {"none", "loaded", "active"}]
        /\ (~HasTab(s) => phase'[s] = "loaded" /\ \A t \in Sessions : t # s => phase'[t] = phase[t])
  BY <1>1 DEF TabsTypes, ScreenTypes
<1>7. live' \in [Sessions -> ViewType] /\ (\A t \in Sessions : IsView(live'[t]))
        /\ (~HasTab(s) => Sees(s, v))
  <2>1. CASE HasTab(s)
    BY <1>1, <2>1 DEF TabsTypes
  <2>2. CASE ~HasTab(s)
    BY <1>1, <1>2, <2>2, SetFacts DEF TabsTypes, Sees
  <2> QED
    BY <2>1, <2>2
<1>8. shown' \in [session : Sessions, streaming : BOOLEAN]
  <2>1. live'[s].streaming \in BOOLEAN
    BY <1>7 DEF ViewType
  <2> QED
    BY <1>1, <2>1 DEF Snapshot
<1>9. TabsTypes'
  BY <1>1, <1>4, <1>5, <1>6, <1>7, <1>8 DEF TabsTypes, AgentTypes, ScreenTypes, agentVars
<1> QED
  BY <1>1, <1>5, <1>6, <1>7, <1>9 DEF v

LEMMA OpensStep ==
  ASSUME TabsTypes, NEW s \in Sessions, NEW entries \in Seq(SaidType), Opens(s, entries)
  PROVE  /\ TabsTypes' /\ s \notin Saved /\ ~HasTab(s)
         /\ tabs' = Append(tabs, s) /\ tabs'[active'] = s
         /\ phase'[s] = "active" /\ \A t \in Sessions : t # s => phase'[t] = phase[t]
         /\ file'[s] = entries /\ \A t \in Sessions : t # s => file'[t] = file[t]
         /\ Sees(s, [EmptyView EXCEPT !.messages = entries])
         /\ forwarder'[s] = "spawned" /\ \A t \in Sessions : t # s => forwarder'[t] = forwarder[t]
         /\ shown' = Snapshot(s, live'[s])
         /\ UNCHANGED <<running, steering, channel, emitting, chain, typed, accepted, mishaps>>
<1> DEFINE v == [EmptyView EXCEPT !.messages = entries]
<1>1. /\ s \notin Saved /\ ~HasTab(s) /\ tabs' = Append(tabs, s)
      /\ phase' = [phase EXCEPT ![s] = "active"] /\ file' = [file EXCEPT ![s] = entries]
      /\ Set(s, v) /\ forwarder' = [forwarder EXCEPT ![s] = "spawned"]
      /\ active' = Len(tabs) + 1 /\ shown' = Snapshot(s, live'[s])
      /\ UNCHANGED <<running, steering, channel, emitting, chain, typed, accepted, mishaps>>
  BY DEF Opens, Activates, Incident
<1>2. IsView(v)
  BY EmptyViewType
<1> HIDE DEF v
<1>3. tabs' \in Seq(Sessions) /\ active' \in 1..Len(tabs') /\ tabs'[active'] = s
  <2>1. tabs \in Seq(Sessions) /\ Len(tabs) \in Nat
    BY ActiveFacts
  <2>2. Append(tabs, s) \in Seq(Sessions) /\ Len(Append(tabs, s)) = Len(tabs) + 1
          /\ Append(tabs, s)[Len(tabs) + 1] = s
    BY <2>1, AppendProperties
  <2> QED
    BY <1>1, <2>1, <2>2
<1>4. phase' \in [Sessions -> {"none", "loaded", "active"}]
        /\ phase'[s] = "active" /\ \A t \in Sessions : t # s => phase'[t] = phase[t]
  BY <1>1 DEF TabsTypes, ScreenTypes
<1>5. entries \in Seq(Entries)
  BY SeqMonotonic DEF Entries
<1>6. file' \in [Sessions -> Seq(Entries)]
        /\ file'[s] = entries /\ \A t \in Sessions : t # s => file'[t] = file[t]
  BY <1>1, <1>5 DEF TabsTypes, AgentTypes
<1>7. live' \in [Sessions -> ViewType] /\ (\A t \in Sessions : IsView(live'[t])) /\ Sees(s, v)
  BY <1>1, <1>2, SetFacts DEF TabsTypes, Sees
<1>8. forwarder' \in [Sessions -> {"off", "spawned", "on"}]
        /\ forwarder'[s] = "spawned" /\ \A t \in Sessions : t # s => forwarder'[t] = forwarder[t]
  BY <1>1 DEF TabsTypes, ScreenTypes
<1>9. shown' \in [session : Sessions, streaming : BOOLEAN]
  <2>1. live'[s].streaming \in BOOLEAN
    BY <1>7 DEF ViewType
  <2> QED
    BY <1>1, <2>1 DEF Snapshot
<1>10. TabsTypes'
  BY <1>1, <1>3, <1>4, <1>6, <1>7, <1>8, <1>9 DEF TabsTypes, AgentTypes, ScreenTypes
<1> QED
  BY <1>1, <1>3, <1>4, <1>6, <1>7, <1>8, <1>10 DEF v

(***************************************************************************)
(* What a fork copies.                                                     *)
(***************************************************************************)
LEMMA CopiedType ==
  ASSUME NEW m \in SaidType
  PROVE  Copied(m) \in SaidType /\ IsMessage(Copied(m))
<1> DEFINE k == CASE m.kind = "steer" -> "user" [] m.kind = "partial" -> "reply" [] OTHER -> m.kind
<1>1. m.kind \in {"user", "reply", "error", "steer", "partial"}
  BY DEF SaidType
<1>2. k \in {"user", "reply", "error"}
  BY <1>1
<1>3. Copied(m) = [m EXCEPT !.kind = k]
  BY DEF Copied
<1> HIDE DEF k
<1> QED
  BY <1>2, <1>3 DEF SaidType, IsMessage

\* What opens a session writes messages, and shows them.
Starts(s) ==
  \E entries \in Seq(SaidType) :
    Opens(s, entries) /\ \A i \in 1..Len(entries) : IsMessage(entries[i])

LEMMA ForkStarts ==
  ASSUME TabsTypes, NEW s \in Sessions, NewSession(s) \/ Fork(s)
  PROVE  Starts(s)
<1>1. CASE NewSession(s)
  <2>1. <<>> \in Seq(SaidType) /\ \A i \in 1..Len(<<>>) : IsMessage(<<>>[i])
    OBVIOUS
  <2>2. Opens(s, <<>>)
    BY <1>1 DEF NewSession
  <2> QED
    BY <2>1, <2>2, Zenon DEF Starts
<1>2. CASE Fork(s)
  <2> DEFINE ms == live[Active].messages
  <2>1. PICK i \in 1..Len(ms) : Opens(s, [j \in 1..i |-> Copied(ms[j])])
    BY <1>2 DEF Fork
  <2>2. ms \in Seq(SaidType) /\ Len(ms) \in Nat
    BY ActiveFacts DEF ViewType
  <2> HIDE DEF ms
  <2> DEFINE entries == [j \in 1..i |-> Copied(ms[j])]
  <2>3. \A j \in 1..i : Copied(ms[j]) \in SaidType /\ IsMessage(Copied(ms[j]))
    BY <2>2, CopiedType
  <2>4. entries \in Seq(SaidType) /\ \A j \in 1..Len(entries) : IsMessage(entries[j])
    BY <2>2, <2>3
  <2> QED
    BY <2>1, <2>4 DEF Starts
<1> QED
  BY <1>1, <1>2

-----------------------------------------------------------------------------
(***************************************************************************)
(* A step is of one session: the others stay as they are.                  *)
(***************************************************************************)
Chained(t) == ChainsOf(t)' = ChainsOf(t) /\ \A n \in ChainsOf(t) : chain'[n] = chain[n]
Same(t) ==
  /\ file'[t] = file[t] /\ running'[t] = running[t] /\ steering'[t] = steering[t]
  /\ channel'[t] = channel[t] /\ live'[t] = live[t] /\ forwarder'[t] = forwarder[t]
  /\ phase'[t] = phase[t] /\ mishaps'[t] = mishaps[t]
  /\ HasTab(t)' <=> HasTab(t)
  /\ Chained(t)

ChainMoves(n) ==
  \/ ChainSteps(n) \/ SendFails(n) \/ PromptFails(n) \/ PromptReturnsError(n)

LEMMA ChainIsFacts ==
  ASSUME NEW n \in Messages, NEW where, ChainIs(n, where)
  PROVE  /\ \A t \in Sessions : t # chain[n].session => Chained(t)
         /\ chain[n].at # "off" => n \in ChainsOf(chain[n].session)
         /\ ChainsOf(chain[n].session)'
              = IF where = "off" THEN ChainsOf(chain[n].session) \ {n}
                ELSE ChainsOf(chain[n].session) \cup {n}
  BY DEF ChainIs, ChainsOf, Chained

LEMMA NoneIsChained ==
  ASSUME chain' = chain
  PROVE  \A t \in Sessions : Chained(t)
  BY DEF Chained, ChainsOf

LEMMA TabAdded ==
  ASSUME TabsTypes, NEW s \in Sessions, tabs' = Append(tabs, s)
  PROVE  /\ \A t \in Sessions : HasTab(t)' <=> HasTab(t) \/ t = s
         /\ Len(tabs') = Len(tabs) + 1 /\ tabs'[Len(tabs) + 1] = s
         /\ \A i \in 1..Len(tabs) : tabs'[i] = tabs[i]
<1>1. tabs \in Seq(Sessions) /\ Len(tabs) \in Nat
        /\ \A t \in Sessions : HasTab(t) <=> \E i \in 1..Len(tabs) : tabs[i] = t
  BY ActiveFacts
<1>2. /\ tabs' \in Seq(Sessions) /\ Len(tabs') = Len(tabs) + 1 /\ tabs'[Len(tabs) + 1] = s
      /\ \A i \in 1..Len(tabs) : tabs'[i] = tabs[i]
  BY <1>1, AppendProperties
<1>3. \A t \in Sessions : HasTab(t)' <=> \E i \in 1..Len(tabs') : tabs'[i] = t
  <2>1. DOMAIN tabs' = 1..Len(tabs')
    BY <1>2
  <2> QED
    BY <2>1 DEF HasTab, ToSet
<1>4. 1..(Len(tabs) + 1) = 1..Len(tabs) \cup {Len(tabs) + 1}
  BY <1>1
<1> QED
  BY <1>1, <1>2, <1>3, <1>4

LEMMA ChainElsewhere ==
  ASSUME TabsTypes, NEW n \in Messages, ChainMoves(n), NEW t \in Sessions, t # chain[n].session
  PROVE  Same(t)
<1>0. chain[n].session \in Sessions
  BY ChainFacts
<1>1. ASSUME NEW where, ChainIs(n, where) PROVE Chained(t)
  BY <1>1, ChainIsFacts
<1>2. CASE SendBegins(n)
  BY <1>0, <1>1, <1>2, SendBeginsStep DEF Same, Writes, Sees, Spawns, Screen, HasTab
<1>3. CASE SendFails(n)
  BY <1>0, <1>1, <1>3, SendFailsStep DEF Same, Befalls, Spawns, Screen, HasTab, agentVars
<1>4. CASE PromptStarts(n)
  <2> DEFINE told == <<Event("start", <<Said("user", chain[n].prompt)>>)>>
  <2>1. Tells(chain[n].session, told, {}) /\ told \in Seq(EventType)
    BY <1>4, PromptStartsStep
  <2> HIDE DEF told
  <2>2. mishaps'[t] = mishaps[t] /\ channel'[t] = channel[t]
    BY <1>0, <2>1, TellsFacts DEF TabsTypes
  <2> QED
    BY <1>0, <1>1, <1>4, <2>2, PromptStartsStep DEF Same, Writes, Screen, HasTab
<1>5. CASE PromptRefused(n)
  BY <1>1, <1>5, PromptRefusedStep DEF Same, Screen, HasTab, agentVars
<1>6. CASE PromptFails(n)
  BY <1>0, <1>1, <1>6, PromptFailsStep DEF Same, Writes, Screen, HasTab
<1>7. CASE Replies(n)
  <2> DEFINE told == Answer(chain[n].prompt, steering[chain[n].session])
  <2>1. Tells(chain[n].session, told, {})
    BY <1>7, RepliesStep
  <2>2. told \in Seq(EventType)
    BY ChainFacts, AnswerType
  <2> HIDE DEF told
  <2>3. mishaps'[t] = mishaps[t] /\ channel'[t] = channel[t]
    BY <1>0, <2>1, <2>2, TellsFacts DEF TabsTypes
  <2> QED
    BY <1>0, <1>1, <1>7, <2>3, RepliesStep DEF Same, Screen, HasTab
<1>8. CASE PromptReturns(n)
  BY <1>0, <1>1, <1>8, PromptReturnsStep DEF Same, Writes, HasTab
<1>9. CASE PromptReturnsError(n)
  BY <1>0, <1>1, <1>9, PromptReturnsErrorStep DEF Same, Writes, Screen, HasTab
<1>10. CASE ReportError(n)
  BY <1>0, <1>1, <1>10, ReportErrorStep DEF Same, Writes, Befalls, HasTab
<1>11. CASE Takes(n)
  <2>1. Chained(t)
    BY <1>11, TakesStep DEF Chained, ChainsOf
  <2> QED
    BY <1>0, <1>11, <2>1, TakesStep DEF Same, Sees, Screen, HasTab, agentVars
<1>12. CASE TakesNothing(n)
  BY <1>1, <1>12, TakesNothingStep DEF Same, Screen, HasTab, agentVars
<1>13. CASE Finish(n)
  BY <1>0, <1>1, <1>13, FinishStep DEF Same, Writes, Sees, HasTab
<1> QED
  BY <1>2, <1>3, <1>4, <1>5, <1>6, <1>7, <1>8, <1>9, <1>10, <1>11, <1>12, <1>13
     DEF ChainMoves, ChainSteps

(***************************************************************************)
(* The steps that a session can be changed by.                             *)
(***************************************************************************)
OfTheUser == Queue \/ Steer \/ Abort \/ \E n \in Messages : Send(n)

LEMMA SendIsNew ==
  ASSUME TabsTypes, \A s \in Sessions : OnlyActive(s), NEW n \in Messages, Send(n),
         NEW t \in Sessions
  PROVE  /\ t # Active => Chained(t)
         /\ t = Active =>
              /\ ChainsOf(t)' = ChainsOf(t) \cup {n} /\ n \notin ChainsOf(t)
              /\ \A m \in ChainsOf(t) : chain'[m] = chain[m]
         /\ chain[n].at = "off" /\ chain'[n].at = "sending" /\ chain'[n].prompt = n
         /\ \A m \in Messages : m # n => chain'[m] = chain[m]
<1>1. /\ \A m \in Messages : m # n => chain'[m] = chain[m]
      /\ chain'[n] = [session |-> Active, prompt |-> n, at |-> "sending"]
      /\ n = typed + 1
  BY SendStep
<1>2. chain[n].at = "off"
  <2>1. chain[n].session \in Sessions
    BY ChainFacts
  <2>2. n \in ChainsOf(chain[n].session) => n <= typed
    BY <2>1 DEF OnlyActive
  <2>3. typed \in Nat
    BY DEF TabsTypes
  <2> QED
    BY <1>1, <2>2, <2>3 DEF ChainsOf
<1>3. t # Active => Chained(t)
  BY <1>1, <1>2 DEF Chained, ChainsOf
<1>4. n \notin ChainsOf(t)
  BY <1>2 DEF ChainsOf
<1>5. chain'[n].at = "sending" /\ chain'[n].session = Active /\ chain'[n].prompt = n
  BY <1>1
<1>6. t = Active => ChainsOf(t)' = ChainsOf(t) \cup {n}
  BY <1>1, <1>5 DEF ChainsOf
<1>7. \A m \in ChainsOf(t) : chain'[m] = chain[m]
  BY <1>1, <1>4 DEF ChainsOf
<1> QED
  BY <1>1, <1>2, <1>3, <1>4, <1>5, <1>6, <1>7

LEMMA UserElsewhere ==
  ASSUME TabsTypes, \A s \in Sessions : OnlyActive(s), OfTheUser, NEW t \in Sessions, t # Active
  PROVE  Same(t)
<1>1. CASE Queue
  BY <1>1, QueueStep, NoneIsChained DEF Same, Sees, Befalls, HasTab, agentVars
<1>2. CASE Steer
  BY <1>2, SteerStep, NoneIsChained DEF Same, Sees, HasTab
<1>3. CASE Abort
  BY <1>3, AbortStep, NoneIsChained DEF Same, Sees, Befalls, Screen, HasTab
<1>4. ASSUME NEW n \in Messages, Send(n) PROVE Same(t)
  <2>1. Chained(t)
    BY <1>4, SendIsNew
  <2> QED
    BY <1>4, <2>1, SendStep DEF Same, HasTab, agentVars, Sees, Befalls
<1> QED
  BY <1>1, <1>2, <1>3, <1>4 DEF OfTheUser

LEMMA TabElsewhere ==
  ASSUME TabsTypes, NEW s \in Sessions, NEW t \in Sessions, t # s,
         Subscribe(s) \/ Forward(s) \/ Switch(s) \/ Starts(s)
  PROVE  Same(t)
<1>1. CASE Subscribe(s)
  BY <1>1, SubscribeStep, NoneIsChained DEF Same, Screen, HasTab, agentVars
<1>2. CASE Forward(s)
  BY <1>2, ForwardStep, NoneIsChained DEF Same, Sees, Befalls, HasTab
<1>3. CASE Switch(s)
  <2>1. HasTab(t)' <=> HasTab(t)
    <3>1. CASE HasTab(s)
      BY <1>3, <3>1, SwitchStep DEF HasTab
    <3>2. CASE ~HasTab(s)
      BY <1>3, <3>2, SwitchStep, TabAdded
    <3> QED
      BY <3>1, <3>2
  <2>2. live'[t] = live[t] /\ phase'[t] = phase[t]
    <3>1. CASE HasTab(s)
      BY <1>3, <3>1, SwitchStep
    <3>2. CASE ~HasTab(s)
      BY <1>3, <3>2, SwitchStep DEF Sees
    <3> QED
      BY <3>1, <3>2
  <2> QED
    BY <1>3, <2>1, <2>2, SwitchStep, NoneIsChained DEF Same, agentVars
<1>4. CASE Starts(s)
  <2>1. PICK entries \in Seq(SaidType) : Opens(s, entries)
    BY <1>4 DEF Starts
  <2>2. HasTab(t)' <=> HasTab(t)
    <3>1. tabs' = Append(tabs, s)
      BY <2>1 DEF Opens
    <3> QED
      BY <3>1, TabAdded
  <2>3. /\ phase'[t] = phase[t] /\ file'[t] = file[t] /\ live'[t] = live[t]
        /\ forwarder'[t] = forwarder[t]
        /\ UNCHANGED <<running, steering, channel, emitting, chain, typed, accepted, mishaps>>
    <3>1. PICK v : Sees(s, v)
      BY <2>1, OpensStep, Zenon
    <3>2. /\ phase'[t] = phase[t] /\ file'[t] = file[t] /\ forwarder'[t] = forwarder[t]
          /\ UNCHANGED <<running, steering, channel, emitting, chain, typed, accepted, mishaps>>
      BY <2>1, OpensStep, Zenon
    <3> QED
      BY <3>1, <3>2 DEF Sees
  <2> QED
    BY <2>2, <2>3, NoneIsChained DEF Same
<1> QED
  BY <1>1, <1>2, <1>3, <1>4

\* The step is one of the session's own.
Moves(t) ==
  \/ \E n \in Messages : chain[n].session = t /\ ChainMoves(n)
  \/ t = Active /\ OfTheUser
  \/ Subscribe(t) \/ Forward(t) \/ Switch(t) \/ Starts(t)

LEMMA SameOrMoves ==
  ASSUME TabsTypes, \A s \in Sessions : OnlyActive(s), [Next]_vars, NEW t \in Sessions
  PROVE  Same(t) \/ Moves(t)
<1>1. CASE UNCHANGED vars
  BY <1>1, NoneIsChained DEF vars, agentVars, viewVars, Same, HasTab
<1>2. ASSUME NEW n \in Messages, ChainMoves(n) PROVE Same(t) \/ Moves(t)
  BY <1>2, ChainElsewhere DEF Moves
<1>3. CASE OfTheUser
  BY <1>3, UserElsewhere DEF Moves
<1>4. ASSUME NEW s \in Sessions, Subscribe(s) \/ Forward(s) \/ Switch(s) \/ Starts(s)
      PROVE  Same(t) \/ Moves(t)
  BY <1>4, TabElsewhere DEF Moves
<1>5. ASSUME NEW s \in Sessions, NewSession(s) \/ Fork(s) PROVE Same(t) \/ Moves(t)
  BY <1>4, <1>5, ForkStarts
<1>6. ASSUME NEW e \in emitting, Show(e) PROVE Same(t)
  BY <1>6, ShowStep, NoneIsChained DEF Same, HasTab, agentVars
<1>7. CASE Next
  BY <1>2, <1>3, <1>4, <1>5, <1>6, <1>7 DEF Next, ChainMoves, OfTheUser
<1> QED
  BY <1>1, <1>7

(***************************************************************************)
(* Whatever happens, types hold; what befell a session stays, and numbers  *)
(* are given once.                                                         *)
(***************************************************************************)
LEMMA TypesStep ==
  ASSUME TabsTypes, [Next]_vars
  PROVE  TabsTypes' /\ typed <= typed' /\ \A t \in Sessions : mishaps[t] \subseteq mishaps'[t]
<1> DEFINE Good == TabsTypes' /\ typed <= typed' /\ \A t \in Sessions : mishaps[t] \subseteq mishaps'[t]
<1>0. typed \in Nat
  BY DEF TabsTypes
<1>1. CASE UNCHANGED vars
  <2>1. /\ UNCHANGED <<tabs, active, phase, live, file, running, steering>>
        /\ UNCHANGED <<forwarder, channel, chain, emitting, shown>>
        /\ typed' = typed /\ accepted' = accepted /\ mishaps' = mishaps
    BY <1>1 DEF vars, agentVars, viewVars, boundVars
  <2>2. AgentTypes' /\ ScreenTypes'
    BY <2>1 DEF TabsTypes, AgentTypes, ScreenTypes
  <2>3. TabsTypes'
    BY <2>1, <2>2 DEF TabsTypes
  <2> QED
    BY <1>0, <2>1, <2>3
<1>2. ASSUME NEW n \in Messages, ChainMoves(n) PROVE Good
  <2>0. chain[n].session \in Sessions
    BY ChainFacts
  <2>1. CASE SendBegins(n)
    BY <1>0, <2>1, SendBeginsStep
  <2>2. CASE SendFails(n)
    BY <1>0, <2>0, <2>2, SendFailsStep DEF Befalls
  <2>3. CASE PromptStarts(n)
    <3> DEFINE told == <<Event("start", <<Said("user", chain[n].prompt)>>)>>
    <3>1. Tells(chain[n].session, told, {}) /\ told \in Seq(EventType)
      BY <2>3, PromptStartsStep
    <3> HIDE DEF told
    <3>2. \A t \in Sessions : mishaps[t] \subseteq mishaps'[t]
      BY <2>0, <3>1, TellsFacts DEF TabsTypes
    <3>3. TabsTypes' /\ typed' = typed
      BY <2>3, PromptStartsStep, Zenon
    <3> QED
      BY <1>0, <3>2, <3>3
  <2>4. CASE PromptRefused(n)
    BY <1>0, <2>4, PromptRefusedStep
  <2>5. CASE PromptFails(n)
    BY <1>0, <2>5, PromptFailsStep
  <2>6. CASE Replies(n)
    <3> DEFINE told == Answer(chain[n].prompt, steering[chain[n].session])
    <3>1. Tells(chain[n].session, told, {})
      BY <2>6, RepliesStep
    <3>2. told \in Seq(EventType)
      BY ChainFacts, AnswerType
    <3> HIDE DEF told
    <3>3. \A t \in Sessions : mishaps[t] \subseteq mishaps'[t]
      BY <2>0, <3>1, <3>2, TellsFacts DEF TabsTypes
    <3> QED
      BY <1>0, <2>6, <3>3, RepliesStep
  <2>7. CASE PromptReturns(n)
    BY <1>0, <2>7, PromptReturnsStep
  <2>8. CASE PromptReturnsError(n)
    BY <1>0, <2>8, PromptReturnsErrorStep
  <2>9. CASE ReportError(n)
    <3>1. PICK what : TabsTypes' /\ typed' = typed /\ Befalls(chain[n].session, what)
      BY <2>9, ReportErrorStep, Zenon
    <3> QED
      BY <1>0, <2>0, <3>1 DEF Befalls
  <2>10. CASE Takes(n)
    <3>1. TabsTypes' /\ typed' = typed /\ mishaps' = mishaps
      BY <2>10, TakesStep, Zenon
    <3> QED
      BY <1>0, <3>1
  <2>11. CASE TakesNothing(n)
    BY <1>0, <2>11, TakesNothingStep
  <2>12. CASE Finish(n)
    <3>1. TabsTypes' /\ typed' = typed /\ mishaps' = mishaps
      BY <2>12, FinishStep, Zenon
    <3> QED
      BY <1>0, <3>1
  <2> QED
    BY <1>2, <2>1, <2>2, <2>3, <2>4, <2>5, <2>6, <2>7, <2>8, <2>9, <2>10, <2>11, <2>12
       DEF ChainMoves, ChainSteps
<1>3. ASSUME NEW n \in Messages, Send(n) PROVE Good
  <2>1. TabsTypes' /\ n = typed + 1 /\ typed' = n
          /\ Befalls(Active, IF ChainsOf(Active) # {} THEN {"double"} ELSE {})
    BY <1>3, SendStep, Zenon
  <2> QED
    BY <1>0, <2>1, ActiveFacts DEF Befalls
<1>4. CASE Queue
  BY <1>0, <1>4, QueueStep, ActiveFacts DEF Befalls
<1>5. CASE Steer
  BY <1>0, <1>5, SteerStep
<1>6. CASE Abort
  BY <1>0, <1>6, AbortStep, ActiveFacts DEF Befalls
<1>7. ASSUME NEW s \in Sessions, Subscribe(s) \/ Forward(s) \/ Switch(s) PROVE Good
  <2>1. CASE Subscribe(s)
    BY <1>0, <2>1, SubscribeStep
  <2>2. CASE Forward(s)
    <3>1. PICK what : TabsTypes' /\ typed' = typed /\ Befalls(s, what)
      BY <2>2, ForwardStep, Zenon
    <3> QED
      BY <1>0, <3>1 DEF Befalls
  <2>3. CASE Switch(s)
    <3>1. TabsTypes' /\ typed' = typed /\ mishaps' = mishaps
      BY <2>3, SwitchStep, Zenon
    <3> QED
      BY <1>0, <3>1
  <2> QED
    BY <1>7, <2>1, <2>2, <2>3
<1>8. ASSUME NEW s \in Sessions, NewSession(s) \/ Fork(s) PROVE Good
  <2>1. PICK entries \in Seq(SaidType) : Opens(s, entries)
    BY <1>8, ForkStarts DEF Starts
  <2>2. TabsTypes' /\ typed' = typed /\ mishaps' = mishaps
    BY <2>1, OpensStep, Zenon
  <2> QED
    BY <1>0, <2>2
<1>9. ASSUME NEW e \in emitting, Show(e) PROVE Good
  BY <1>0, <1>9, ShowStep
<1>10. CASE Next
  BY <1>2, <1>3, <1>4, <1>5, <1>6, <1>7, <1>8, <1>9, <1>10 DEF Next, ChainMoves
<1> QED
  BY <1>1, <1>10

(***************************************************************************)
(* A step of a chain is of one that is at work, in a tab that stays.       *)
(***************************************************************************)
KeptBy(n, t) ==
  /\ chain[n].at # "off" /\ n \in ChainsOf(t) /\ ChainsOf(t)' \subseteq ChainsOf(t)
  /\ \A m \in ChainsOf(t) : m # n => chain'[m] = chain[m] /\ m \in ChainsOf(t)'
  /\ UNCHANGED <<tabs, active, phase, typed, accepted>>
  /\ channel'[t] # channel[t] => forwarder[t] = "on"
  /\ forwarder[t] # "off" => forwarder'[t] = forwarder[t]

LEMMA ChainMovesFacts ==
  ASSUME TabsTypes, NEW n \in Messages, ChainMoves(n)
  PROVE  KeptBy(n, chain[n].session)
<1> DEFINE t == chain[n].session
<1>0. t \in Sessions
  BY ChainFacts
<1>1. ASSUME NEW where, ChainIs(n, where), chain[n].at # "off"
      PROVE  /\ n \in ChainsOf(t) /\ ChainsOf(t)' \subseteq ChainsOf(t)
             /\ \A m \in ChainsOf(t) : m # n => chain'[m] = chain[m] /\ m \in ChainsOf(t)'
  <2>1. n \in ChainsOf(t) /\ ChainsOf(t)' \subseteq ChainsOf(t) \cup {n}
          /\ ChainsOf(t) \ {n} \subseteq ChainsOf(t)'
    BY <1>1, ChainIsFacts
  <2>2. \A m \in Messages : m # n => chain'[m] = chain[m]
    BY <1>1 DEF ChainIs
  <2>3. \A m \in ChainsOf(t) : m \in Messages
    BY DEF ChainsOf
  <2> QED
    BY <2>1, <2>2, <2>3
<1>2. CASE SendBegins(n)
  <2>1. chain[n].at = "sending" /\ ChainIs(n, "prompting") /\ Spawns(t)
          /\ UNCHANGED <<Screen, channel, typed, accepted>>
    BY <1>2, SendBeginsStep, Zenon
  <2> QED
    BY <1>1, <2>1 DEF KeptBy, Screen, Spawns
<1>3. CASE SendFails(n)
  <2>1. chain[n].at = "sending" /\ ChainIs(n, "off") /\ Spawns(t)
          /\ UNCHANGED <<agentVars, Screen, typed, accepted>>
    BY <1>3, SendFailsStep, Zenon
  <2> QED
    BY <1>1, <2>1 DEF KeptBy, Screen, Spawns, agentVars
<1>4. CASE PromptStarts(n)
  <2> DEFINE told == <<Event("start", <<Said("user", chain[n].prompt)>>)>>
  <2>1. Tells(t, told, {}) /\ told \in Seq(EventType)
    BY <1>4, PromptStartsStep
  <2> HIDE DEF told
  <2>2. channel'[t] # channel[t] => forwarder[t] = "on"
    BY <1>0, <2>1, TellsFacts DEF TabsTypes
  <2>3. chain[n].at = "prompting" /\ ChainIs(n, "running")
          /\ UNCHANGED <<Screen, forwarder, typed, accepted>>
    BY <1>4, PromptStartsStep, Zenon
  <2> QED
    BY <1>1, <2>2, <2>3 DEF KeptBy, Screen
<1>5. CASE PromptRefused(n)
  BY <1>1, <1>5, PromptRefusedStep DEF KeptBy, Screen, agentVars
<1>6. CASE PromptFails(n)
  <2>1. chain[n].at = "prompting" /\ ChainIs(n, "failed")
          /\ UNCHANGED <<channel, Screen, forwarder, typed, accepted>>
    BY <1>6, PromptFailsStep, Zenon
  <2> QED
    BY <1>1, <2>1 DEF KeptBy, Screen
<1>7. CASE Replies(n)
  <2> DEFINE told == Answer(chain[n].prompt, steering[t])
  <2>1. Tells(t, told, {})
    BY <1>7, RepliesStep
  <2>2. told \in Seq(EventType)
    BY ChainFacts, AnswerType
  <2> HIDE DEF told
  <2>3. channel'[t] # channel[t] => forwarder[t] = "on"
    BY <1>0, <2>1, <2>2, TellsFacts DEF TabsTypes
  <2>4. chain[n].at = "running" /\ ChainIs(n, "replied")
          /\ UNCHANGED <<Screen, forwarder, typed, accepted>>
    BY <1>7, RepliesStep, Zenon
  <2> QED
    BY <1>1, <2>3, <2>4 DEF KeptBy, Screen
<1>8. CASE PromptReturns(n)
  <2>1. chain[n].at = "replied" /\ ChainIs(n, "returned")
          /\ UNCHANGED <<channel, tabs, active, phase, forwarder, typed, accepted>>
    BY <1>8, PromptReturnsStep, Zenon
  <2> QED
    BY <1>1, <2>1 DEF KeptBy
<1>9. CASE PromptReturnsError(n)
  <2>1. chain[n].at = "replied" /\ ChainIs(n, "failed")
          /\ UNCHANGED <<channel, Screen, forwarder, typed, accepted>>
    BY <1>9, PromptReturnsErrorStep, Zenon
  <2> QED
    BY <1>1, <2>1 DEF KeptBy, Screen
<1>10. CASE ReportError(n)
  <2>1. chain[n].at = "failed" /\ ChainIs(n, "returned")
          /\ UNCHANGED <<channel, tabs, active, phase, forwarder, typed, accepted>>
    BY <1>10, ReportErrorStep, Zenon
  <2> QED
    BY <1>1, <2>1 DEF KeptBy
<1>11. CASE Takes(n)
  <2>1. chain[n].at = "returned" /\ chain'[n].session = t
          /\ (\A m \in Messages : m # n => chain'[m] = chain[m])
          /\ UNCHANGED <<agentVars, Screen, forwarder, typed, accepted>>
    BY <1>11, TakesStep, Zenon
  <2> QED
    BY <2>1 DEF KeptBy, Screen, agentVars, ChainsOf
<1>12. CASE TakesNothing(n)
  <2>1. PICK where : chain[n].at = "returned" /\ ChainIs(n, where)
          /\ UNCHANGED <<agentVars, Screen, forwarder, typed, accepted>>
    BY <1>12, TakesNothingStep, Zenon
  <2> QED
    BY <1>1, <2>1 DEF KeptBy, Screen, agentVars
<1>13. CASE Finish(n)
  <2>1. chain[n].at = "finishing" /\ ChainIs(n, "off")
          /\ UNCHANGED <<channel, tabs, active, phase, forwarder, typed, accepted>>
    BY <1>13, FinishStep, Zenon
  <2> QED
    BY <1>1, <2>1 DEF KeptBy
<1> QED
  BY <1>2, <1>3, <1>4, <1>5, <1>6, <1>7, <1>8, <1>9, <1>10, <1>11, <1>12, <1>13
     DEF ChainMoves, ChainSteps

LEMMA OnlyActiveStep ==
  ASSUME TabsTypes, TabsOnce, \A s \in Sessions : OnlyActive(s), [Next]_vars, NEW t \in Sessions
  PROVE  OnlyActive(t)'
<1>0. typed \in Nat /\ typed' \in Nat /\ typed <= typed'
  BY TypesStep DEF TabsTypes
<1>1. /\ \A n \in ChainsOf(t) : n <= typed /\ phase[t] = "active" /\ n \in Nat
      /\ forwarder[t] # "off" => phase[t] = "active"
      /\ channel[t] # <<>> => forwarder[t] = "on"
  BY DEF OnlyActive, ChainsOf, Messages
<1>2. CASE Same(t)
  <2>1. /\ ChainsOf(t)' = ChainsOf(t)
        /\ phase'[t] = phase[t] /\ forwarder'[t] = forwarder[t] /\ channel'[t] = channel[t]
        /\ steering'[t] = steering[t] /\ live'[t] = live[t] /\ file'[t] = file[t]
    BY <1>2 DEF Same, Chained
  <2>2. \A n \in ChainsOf(t) : n <= typed'
    BY <1>0, <1>1
  <2> QED
    BY <1>1, <2>1, <2>2 DEF OnlyActive, Fresh
<1> DEFINE Now == /\ \A n \in ChainsOf(t)' : n <= typed'
                  /\ phase'[t] = "active"
                  /\ channel'[t] # <<>> => forwarder'[t] = "on"
<1>3. ASSUME Now PROVE OnlyActive(t)'
  BY <1>3 DEF OnlyActive
<1>4. ASSUME NEW n \in Messages, chain[n].session = t, ChainMoves(n) PROVE Now
  <2>1. KeptBy(n, t)
    BY <1>4, ChainMovesFacts
  <2>2. /\ n \in ChainsOf(t) /\ ChainsOf(t)' \subseteq ChainsOf(t)
        /\ UNCHANGED <<phase, typed>>
        /\ channel'[t] # channel[t] => forwarder[t] = "on"
        /\ forwarder[t] # "off" => forwarder'[t] = forwarder[t]
    BY <1>4, <2>1 DEF KeptBy
  <2> QED
    BY <1>1, <2>2
<1>5. ASSUME NEW n \in Messages, Send(n), t = Active PROVE Now
  <2>1. typed' = n /\ phase'[t] = "active" /\ UNCHANGED <<agentVars, forwarder>>
    BY <1>5, SendStep, Zenon
  <2>2. ChainsOf(t)' = ChainsOf(t) \cup {n} /\ n \in Nat
    BY <1>5, SendIsNew DEF Messages
  <2> QED
    BY <1>0, <1>1, <2>1, <2>2 DEF agentVars
<1>6. ASSUME t = Active, Queue PROVE Now
  <2>1. /\ MayRun /\ typed' = typed + 1
        /\ UNCHANGED <<agentVars, phase, forwarder, chain>>
    BY <1>6, QueueStep, Zenon
  <2>2. phase[t] = "active" /\ ChainsOf(t)' = ChainsOf(t)
    BY <1>6, <2>1 DEF MayRun, ChainsOf
  <2> QED
    BY <1>0, <1>1, <2>1, <2>2 DEF agentVars
<1>7. ASSUME t = Active, Steer PROVE Now
  <2>1. /\ MayRun /\ typed' = typed + 1
        /\ UNCHANGED <<channel, phase, forwarder, chain>>
    BY <1>7, SteerStep, Zenon
  <2>2. phase[t] = "active" /\ ChainsOf(t)' = ChainsOf(t)
    BY <1>7, <2>1 DEF MayRun, ChainsOf
  <2> QED
    BY <1>0, <1>1, <2>1, <2>2
<1>8. ASSUME t = Active, Abort PROVE Now
  <2>1. phase[t] = "active" /\ UNCHANGED <<channel, Screen, forwarder, chain, typed>>
    BY <1>8, AbortStep, Zenon
  <2>2. ChainsOf(t)' = ChainsOf(t)
    BY <2>1 DEF ChainsOf
  <2> QED
    BY <1>0, <1>1, <2>1, <2>2 DEF Screen
<1>9. ASSUME Subscribe(t) PROVE Now
  <2>1. forwarder[t] = "spawned" /\ forwarder'[t] = "on"
          /\ UNCHANGED <<agentVars, Screen, chain, typed>>
    BY <1>9, SubscribeStep, Zenon
  <2>2. ChainsOf(t)' = ChainsOf(t)
    BY <2>1 DEF ChainsOf
  <2> QED
    BY <1>0, <1>1, <2>1, <2>2 DEF Screen, agentVars
<1>10. ASSUME Forward(t) PROVE Now
  <2>1. channel[t] # <<>> /\ UNCHANGED <<phase, forwarder, chain, typed>>
    BY <1>10, ForwardStep, Zenon
  <2>2. ChainsOf(t)' = ChainsOf(t)
    BY <2>1 DEF ChainsOf
  <2> QED
    BY <1>0, <1>1, <2>1, <2>2
<1>11. CASE Switch(t)
  <2>1. UNCHANGED <<agentVars, forwarder, chain, typed>> /\ (HasTab(t) \/ t \in Saved)
    BY <1>11, SwitchStep, Zenon
  <2>2. ChainsOf(t)' = ChainsOf(t)
    BY <2>1 DEF ChainsOf
  <2>3. CASE HasTab(t)
    <3>1. phase' = phase /\ live' = live
      BY <1>11, <2>3, SwitchStep, Zenon
    <3> QED
      BY <2>1, <2>2, <3>1 DEF OnlyActive, agentVars
  <2>4. CASE ~HasTab(t)
    <3>1. phase'[t] = "loaded" /\ Sees(t, [EmptyView EXCEPT !.messages = Loaded(file[t])])
      BY <1>11, <2>4, SwitchStep, Zenon
    <3>2. phase[t] = "none"
      BY <2>4 DEF TabsOnce
    <3>3. Loaded(file[t]) \in Seq(SaidType)
      BY LoadedType DEF TabsTypes, AgentTypes
    <3>4. live'[t] = [EmptyView EXCEPT !.messages = Loaded(file[t])]
      BY <3>1 DEF Sees
    <3>5. Fresh(live[t])'
      BY <3>3, <3>4, EmptyViewType DEF Fresh
    <3> QED
      BY <2>1, <2>2, <3>1, <3>2, <3>5 DEF OnlyActive, agentVars
  <2> QED
    BY <2>3, <2>4
<1>12. ASSUME Starts(t) PROVE Now
  <2>1. PICK entries \in Seq(SaidType) : Opens(t, entries)
    BY <1>12 DEF Starts
  <2>2. phase'[t] = "active" /\ ~HasTab(t) /\ UNCHANGED <<channel, chain, typed>>
    BY <2>1, OpensStep, Zenon
  <2>3. phase[t] = "none"
    BY <2>2 DEF TabsOnce
  <2>4. ChainsOf(t)' = ChainsOf(t)
    BY <2>2 DEF ChainsOf
  <2> QED
    BY <1>0, <1>1, <2>2, <2>3, <2>4
<1> QED
  BY <1>2, <1>3, <1>4, <1>5, <1>6, <1>7, <1>8, <1>9, <1>10, <1>11, <1>12, SameOrMoves
     DEF Moves, OfTheUser

-----------------------------------------------------------------------------
(***************************************************************************)
(* Each part of the invariant, in a step.  Tabs are added at the end.      *)
(***************************************************************************)
LEMMA TabsStay ==
  ASSUME TabsTypes, [Next]_vars
  PROVE  \/ UNCHANGED <<tabs, active, phase>>
         \/ \E n \in Messages : Send(n)
         \/ \E s \in Sessions : Switch(s) \/ Starts(s)
<1>1. ASSUME NEW n \in Messages, ChainMoves(n) PROVE UNCHANGED <<tabs, active, phase>>
  BY <1>1, ChainMovesFacts DEF KeptBy
<1>2. ASSUME NEW s \in Sessions, Subscribe(s) \/ Forward(s) PROVE UNCHANGED <<tabs, active, phase>>
  BY <1>2 DEF Subscribe, Forward
<1>3. ASSUME Queue \/ Steer \/ Abort PROVE UNCHANGED <<tabs, active, phase>>
  BY <1>3 DEF Queue, Steer, Abort, viewVars
<1>4. ASSUME NEW e \in emitting, Show(e) PROVE UNCHANGED <<tabs, active, phase>>
  BY <1>4 DEF Show
<1>5. CASE UNCHANGED vars
  BY <1>5 DEF vars, viewVars
<1>6. CASE Next
  BY <1>1, <1>2, <1>3, <1>4, <1>6, ForkStarts DEF Next, ChainMoves
<1> QED
  BY <1>5, <1>6

LEMMA TabsOnceStep ==
  ASSUME TabsTypes, TabsOnce, [Next]_vars
  PROVE  TabsOnce'
<1>1. CASE UNCHANGED <<tabs, active, phase>>
  BY <1>1 DEF TabsOnce, HasTab
<1>2. ASSUME NEW n \in Messages, Send(n) PROVE TabsOnce'
  <2>1. /\ phase'[Active] = "active" /\ \A t \in Sessions : t # Active => phase'[t] = phase[t]
        /\ tabs' = tabs
    BY <1>2, SendStep, Zenon
  <2> QED
    BY <2>1, ActiveFacts DEF TabsOnce, HasTab
<1> DEFINE Added(s) == /\ ~HasTab(s) /\ tabs' = Append(tabs, s)
                       /\ phase'[s] # "none" /\ \A t \in Sessions : t # s => phase'[t] = phase[t]
<1>3. ASSUME NEW s \in Sessions, Added(s) PROVE TabsOnce'
  <2>1. /\ \A t \in Sessions : HasTab(t)' <=> HasTab(t) \/ t = s
        /\ Len(tabs') = Len(tabs) + 1 /\ tabs'[Len(tabs) + 1] = s
        /\ \A i \in 1..Len(tabs) : tabs'[i] = tabs[i]
    BY <1>3, TabAdded
  <2>2. Len(tabs) \in Nat /\ \A i \in 1..Len(tabs) : tabs[i] # s
    BY <1>3, ActiveFacts
  <2>3. \A i, j \in 1..Len(tabs') : tabs'[i] = tabs'[j] => i = j
    BY <2>1, <2>2 DEF TabsOnce
  <2>4. \A t \in Sessions : phase'[t] = "none" <=> ~HasTab(t)'
    BY <1>3, <2>1 DEF TabsOnce
  <2> QED
    BY <2>3, <2>4 DEF TabsOnce
<1>4. ASSUME NEW s \in Sessions, Switch(s) PROVE TabsOnce'
  <2>1. CASE HasTab(s)
    <3>1. UNCHANGED <<tabs, phase>>
      BY <1>4, <2>1, SwitchStep, Zenon
    <3> QED
      BY <3>1 DEF TabsOnce, HasTab
  <2>2. CASE ~HasTab(s)
    <3>1. Added(s)
      BY <1>4, <2>2, SwitchStep
    <3> QED
      BY <1>3, <3>1
  <2> QED
    BY <2>1, <2>2
<1>5. ASSUME NEW s \in Sessions, Starts(s) PROVE TabsOnce'
  <2>1. PICK entries \in Seq(SaidType) : Opens(s, entries)
    BY <1>5 DEF Starts
  <2>2. Added(s)
    BY <2>1, OpensStep
  <2> QED
    BY <1>3, <2>2
<1> QED
  BY <1>1, <1>2, <1>4, <1>5, TabsStay

(***************************************************************************)
(* Runs: only one that prompts can start, only one that has replied ends.  *)
(***************************************************************************)
RunOf(n, t) ==
  \/ ~InRun(n) /\ ~InRun(n)' /\ running'[t] = running[t]
  \/ ~running[t] /\ ~InRun(n) /\ InRun(n)' /\ n \in ChainsOf(t)' /\ running'[t]
  \/ InRun(n) /\ InRun(n)' /\ n \in ChainsOf(t)' /\ running'[t] = running[t]
  \/ InRun(n) /\ ~InRun(n)' /\ ~running'[t]

LEMMA RunOfStep ==
  ASSUME TabsTypes, NEW n \in Messages, ChainMoves(n)
  PROVE  RunOf(n, chain[n].session)
<1> DEFINE t == chain[n].session
<1>0. ASSUME NEW where, ChainIs(n, where)
      PROVE  chain'[n].at = where /\ (where # "off" => n \in ChainsOf(t)')
  BY <1>0 DEF ChainIs, ChainsOf
<1>1. CASE SendBegins(n)
  <2>1. chain[n].at = "sending" /\ ChainIs(n, "prompting") /\ running' = running
    BY <1>1, SendBeginsStep, Zenon
  <2> QED
    BY <1>0, <2>1 DEF RunOf, InRun
<1>2. CASE SendFails(n)
  <2>1. chain[n].at = "sending" /\ ChainIs(n, "off") /\ UNCHANGED agentVars
    BY <1>2, SendFailsStep, Zenon
  <2> QED
    BY <1>0, <2>1 DEF RunOf, InRun, agentVars
<1>3. CASE PromptStarts(n)
  <2>1. chain[n].at = "prompting" /\ ChainIs(n, "running") /\ ~running[t] /\ running'[t]
    BY <1>3, PromptStartsStep, Zenon
  <2>2. chain'[n].at = "running" /\ n \in ChainsOf(t)'
    BY <1>0, <2>1
  <2>3. ~InRun(n) /\ InRun(n)'
    BY <2>1, <2>2 DEF InRun
  <2> QED
    BY <2>1, <2>2, <2>3, Zenon DEF RunOf
<1>4. CASE PromptRefused(n)
  <2>1. chain[n].at = "prompting" /\ ChainIs(n, "failed") /\ UNCHANGED agentVars
    BY <1>4, PromptRefusedStep, Zenon
  <2> QED
    BY <1>0, <2>1 DEF RunOf, InRun, agentVars
<1>5. CASE PromptFails(n)
  <2>1. chain[n].at = "prompting" /\ ChainIs(n, "failed") /\ running' = running
    BY <1>5, PromptFailsStep, Zenon
  <2> QED
    BY <1>0, <2>1 DEF RunOf, InRun
<1>6. CASE Replies(n)
  <2>1. chain[n].at = "running" /\ ChainIs(n, "replied") /\ running' = running
    BY <1>6, RepliesStep, Zenon
  <2> QED
    BY <1>0, <2>1 DEF RunOf, InRun
<1>7. CASE PromptReturns(n)
  <2>1. chain[n].at = "replied" /\ ChainIs(n, "returned") /\ ~running'[t]
    BY <1>7, PromptReturnsStep, Zenon
  <2> QED
    BY <1>0, <2>1 DEF RunOf, InRun
<1>8. CASE PromptReturnsError(n)
  <2>1. chain[n].at = "replied" /\ ChainIs(n, "failed") /\ ~running'[t]
    BY <1>8, PromptReturnsErrorStep, Zenon
  <2> QED
    BY <1>0, <2>1 DEF RunOf, InRun
<1>9. CASE ReportError(n)
  <2>1. chain[n].at = "failed" /\ ChainIs(n, "returned") /\ running' = running
    BY <1>9, ReportErrorStep, Zenon
  <2> QED
    BY <1>0, <2>1 DEF RunOf, InRun
<1>10. CASE Takes(n)
  <2>1. chain[n].at = "returned" /\ chain'[n].at = "prompting" /\ UNCHANGED agentVars
    BY <1>10, TakesStep, Zenon
  <2> QED
    BY <2>1 DEF RunOf, InRun, agentVars
<1>11. CASE TakesNothing(n)
  <2>1. /\ chain[n].at = "returned" /\ UNCHANGED agentVars
        /\ ChainIs(n, IF live[t].interaction THEN "finishing" ELSE "off")
    BY <1>11, TakesNothingStep, Zenon
  <2>2. chain'[n].at \in {"finishing", "off"}
    BY <1>0, <2>1
  <2> QED
    BY <2>1, <2>2 DEF RunOf, InRun, agentVars
<1>12. CASE Finish(n)
  <2>1. chain[n].at = "finishing" /\ ChainIs(n, "off") /\ running' = running
    BY <1>12, FinishStep, Zenon
  <2> QED
    BY <1>0, <2>1 DEF RunOf, InRun
<1> QED
  BY <1>1, <1>2, <1>3, <1>4, <1>5, <1>6, <1>7, <1>8, <1>9, <1>10, <1>11, <1>12
     DEF ChainMoves, ChainSteps

\* Only messages start chains, and only chains run.
ChainsStay(t) ==
  /\ running'[t] = running[t] /\ ChainsOf(t) \subseteq ChainsOf(t)'
  /\ \A n \in ChainsOf(t) : chain'[n] = chain[n]
  /\ \A n \in ChainsOf(t)' : n \notin ChainsOf(t) => chain'[n].at = "sending"

LEMMA NotChained ==
  ASSUME TabsTypes, \A s \in Sessions : OnlyActive(s), NEW t \in Sessions,
         Same(t) \/ (t = Active /\ OfTheUser) \/ Subscribe(t) \/ Forward(t) \/ Switch(t)
           \/ Starts(t)
  PROVE  ChainsStay(t)
<1>1. ASSUME chain' = chain, running' = running PROVE ChainsStay(t)
  BY <1>1 DEF ChainsStay, ChainsOf
<1>2. CASE Same(t)
  BY <1>2 DEF Same, Chained, ChainsStay
<1>3. CASE Queue \/ Steer \/ Abort
  BY <1>1, <1>3 DEF Queue, Steer, Abort, agentVars
<1>4. ASSUME NEW n \in Messages, Send(n), t = Active PROVE ChainsStay(t)
  <2>1. running' = running
    BY <1>4 DEF Send, agentVars
  <2> QED
    BY <1>4, <2>1, SendIsNew DEF ChainsStay
<1>5. CASE Subscribe(t) \/ Forward(t) \/ Switch(t)
  BY <1>1, <1>5 DEF Subscribe, Forward, Switch, agentVars
<1>6. CASE Starts(t)
  BY <1>1, <1>6 DEF Starts, Opens
<1> QED
  BY <1>2, <1>3, <1>4, <1>5, <1>6 DEF OfTheUser

LEMMA OneRunStep ==
  ASSUME TabsTypes, \A s \in Sessions : OnlyActive(s), [Next]_vars, NEW t \in Sessions, OneRun(t)
  PROVE  OneRun(t)'
<1>1. CASE ChainsStay(t)
  BY <1>1 DEF ChainsStay, OneRun, InRun
<1>2. ASSUME NEW n \in Messages, chain[n].session = t, ChainMoves(n) PROVE OneRun(t)'
  <2>1. RunOf(n, t) /\ KeptBy(n, t)
    BY <1>2, RunOfStep, ChainMovesFacts
  <2>2. /\ n \in ChainsOf(t) /\ ChainsOf(t)' \subseteq ChainsOf(t)
        /\ \A m \in ChainsOf(t) : m # n => (InRun(m)' <=> InRun(m)) /\ m \in ChainsOf(t)'
    BY <2>1 DEF KeptBy, InRun
  <2>3. /\ \A k, m \in ChainsOf(t) : InRun(k) /\ InRun(m) => k = m
        /\ running[t] <=> \E m \in ChainsOf(t) : InRun(m)
    BY DEF OneRun
  <2> HIDE DEF InRun
  <2>4. /\ \A k, m \in ChainsOf(t)' : InRun(k)' /\ InRun(m)' => k = m
        /\ running'[t] <=> \E m \in ChainsOf(t)' : InRun(m)'
    BY <2>1, <2>2, <2>3 DEF RunOf
  <2> QED
    BY <2>4 DEF OneRun
<1> QED
  BY <1>1, <1>2, SameOrMoves, NotChained DEF Moves

(***************************************************************************)
(* A second chain is marked as one.                                        *)
(***************************************************************************)
LEMMA SparedBefore ==
  ASSUME TabsTypes, [Next]_vars, NEW t, NEW whats, t \in Sessions, Spared(t, whats)'
  PROVE  Spared(t, whats)
<1>1. mishaps[t] \subseteq mishaps'[t]
  BY TypesStep
<1> QED
  BY <1>1 DEF Spared

LEMMA OneChainStep ==
  ASSUME TabsTypes, \A s \in Sessions : OnlyActive(s), [Next]_vars, NEW t \in Sessions, OneChain(t)
  PROVE  OneChain(t)'
<1> SUFFICES ASSUME Spared(t, {"double"})'
             PROVE  \A n, m \in ChainsOf(t)' : n = m
  BY DEF OneChain
<1>1. \A n, m \in ChainsOf(t) : n = m
  BY SparedBefore DEF OneChain
<1>2. CASE ChainsOf(t)' \subseteq ChainsOf(t)
  BY <1>1, <1>2
<1>3. ASSUME NEW n \in Messages, Send(n), t = Active
      PROVE  \A k, m \in ChainsOf(t)' : k = m
  <2>1. Befalls(t, IF ChainsOf(t) # {} THEN {"double"} ELSE {})
    BY <1>3, SendStep, Zenon
  <2>2. ChainsOf(t) = {}
    BY <2>1 DEF Befalls, Spared
  <2>3. ChainsOf(t)' = ChainsOf(t) \cup {n}
    BY <1>3, SendIsNew
  <2> QED
    BY <2>2, <2>3
<1>4. ASSUME NEW n \in Messages, chain[n].session = t, ChainMoves(n)
      PROVE  ChainsOf(t)' \subseteq ChainsOf(t)
  <2>1. KeptBy(n, t)
    BY <1>4, ChainMovesFacts
  <2> QED
    BY <2>1 DEF KeptBy
<1>5. ASSUME chain' = chain PROVE ChainsOf(t)' = ChainsOf(t)
  BY <1>5 DEF ChainsOf
<1>6. CASE Queue \/ Steer \/ Abort \/ Subscribe(t) \/ Forward(t) \/ Switch(t) \/ Starts(t)
  BY <1>2, <1>5, <1>6 DEF Queue, Steer, Abort, Subscribe, Forward, Switch, Starts, Opens
<1>7. CASE Same(t)
  BY <1>2, <1>7 DEF Same, Chained
<1> QED
  BY <1>2, <1>3, <1>4, <1>6, <1>7, SameOrMoves DEF Moves, OfTheUser

(***************************************************************************)
(* A chain leaves what waits in its tab, but for the prompt it takes, and  *)
(* what the tab shows, but for an error it reports.                        *)
(***************************************************************************)
SameText(v, w) == w.messages = v.messages /\ w.base = v.base /\ w.at = v.at

LEMMA ChainViews ==
  ASSUME TabsTypes, NEW n \in Messages, ChainMoves(n), NEW t, t = chain[n].session
  PROVE  /\ live'[t].steering = live[t].steering
         /\ ~Takes(n) => live'[t].queue = live[t].queue
         /\ Takes(n) => live[t].queue # <<>> /\ live'[t].queue = Tail(live[t].queue)
         /\ ~ReportError(n) => SameText(live[t], live'[t])
<1>0. t \in Sessions /\ IsView(live[t]) /\ live[t] \in ViewType /\ file[t] \in Seq(Entries)
  BY ChainFacts
<1>1. CASE live' = live /\ ~Takes(n)
  BY <1>1 DEF SameText
<1>2. CASE SendBegins(n)
  <2>1. Sees(t, Begun(live[t])) /\ chain[n].at = "sending"
    BY <1>2, SendBeginsStep, Zenon
  <2>2. ~Takes(n)
    BY <2>1 DEF Takes
  <2> QED
    BY <1>0, <2>1, <2>2, BegunType DEF Sees, SameText
<1>3. CASE ReportError(n)
  <2>1. SameWaiting(live[t], live'[t]) /\ chain[n].at = "failed"
    BY <1>3, ReportErrorStep, Zenon
  <2>2. ~Takes(n)
    BY <2>1 DEF Takes
  <2> QED
    BY <1>3, <2>1, <2>2 DEF SameWaiting
<1>4. CASE Takes(n)
  <2>1. live[t].queue # <<>> /\ Sees(t, [live[t] EXCEPT !.queue = Tail(live[t].queue)])
    BY <1>4, TakesStep, Zenon
  <2>2. live[t].queue \in Seq(Nat)
    BY <1>0 DEF ViewType
  <2>3. Tail(live[t].queue) \in Seq(Nat)
    BY <2>1, <2>2
  <2> QED
    BY <1>0, <1>4, <2>1, <2>3, QueueType DEF Sees, SameText, SameRun
<1>5. CASE Finish(n)
  <2>1. Sees(t, Finished(live[t], Changes(file[t]))) /\ chain[n].at = "finishing"
    BY <1>5, FinishStep, Zenon
  <2>2. ~Takes(n)
    BY <2>1 DEF Takes
  <2>3. Changes(file[t]) \in SUBSET Nat
    BY <1>0, ChangesType
  <2> QED
    BY <1>0, <2>1, <2>2, <2>3, FinishedType DEF Sees, SameText
<1>6. CASE ~Takes(n) /\ (SendFails(n) \/ PromptStarts(n) \/ PromptRefused(n) \/ PromptFails(n)
              \/ Replies(n) \/ PromptReturns(n) \/ PromptReturnsError(n) \/ TakesNothing(n))
  BY <1>1, <1>6 DEF SendFails, PromptStarts, PromptRefused, PromptFails, Replies, PromptReturns,
                    PromptReturnsError, TakesNothing
<1> QED
  BY <1>2, <1>3, <1>4, <1>5, <1>6 DEF ChainMoves, ChainSteps

(***************************************************************************)
(* What an event makes of a view.                                          *)
(***************************************************************************)
Applied(v, w, e) ==
  LET m == e.messages[1] IN
  /\ e.messages \in Seq(SaidType)
  /\ e.type \in {"start", "user", "partial", "reply", "end"}
  /\ w.queue = v.queue
  /\ e.type # "user" => w.steering = v.steering
  /\ e.type = "user" =>
       w.steering = (IF Contains(v.steering, m.n)
                     THEN RemoveAt(v.steering, FirstOf(v.steering, m.n)) ELSE v.steering)
  /\ e.type = "start" =>
       /\ w.messages = Append(v.messages, m) /\ w.base = Len(v.messages)
       /\ w.streaming /\ w.interaction
       /\ w.summary = (IF v.interaction THEN v.summary ELSE {})
  /\ e.type = "user" => w.messages = Append(v.messages, m) /\ SameRun(v, w)
  /\ e.type = "partial" =>
       /\ w.messages = Append(v.messages, m) /\ SameRun(v, w)
       /\ w.at = (IF IsAssistant(m) THEN Len(v.messages) + 1 ELSE v.at)
  /\ e.type = "reply" =>
       /\ SameRun(v, w)
       /\ w.messages = (IF PlaceOf(v) = 0 THEN v.messages
                        ELSE [v.messages EXCEPT ![PlaceOf(v)] = m])
  /\ e.type = "end" =>
       /\ w.messages = SubSeq(v.messages, 1, v.base) \o e.messages
       /\ w.base = v.base /\ w.streaming = (v.queue # <<>>)
       /\ w.interaction = v.interaction /\ w.summary = v.summary
  /\ e.type \in {"start", "user", "partial", "reply"} => m \in SaidType
  /\ e.type = "user" => m.kind = "steer" /\ Len(e.messages) = 1
  /\ e.type = "start" => m.kind = "user"
  /\ e.type = "partial" => m.kind = "partial"

LEMMA Forwarded ==
  ASSUME TabsTypes, NEW s \in Sessions, Forward(s)
  PROVE  Applied(live[s], live'[s], Head(channel[s]))
<1> DEFINE e == Head(channel[s])
           v == live[s]
           w == Apply(v, e)
<1>1. e \in EventType /\ IsView(v) /\ Sees(s, w)
  BY ForwardStep, Zenon
<1>2. live'[s] = w
  BY <1>1 DEF Sees
<1> HIDE DEF e, v
<1>3. Applied(v, w, e)
  BY <1>1, EventFacts, ApplyType, ZenonT(40) DEF Applied
<1> HIDE DEF w
<1> QED
  BY <1>2, <1>3, Zenon DEF e, v

(***************************************************************************)
(* The other steps: what they do to a session that has been used.          *)
(***************************************************************************)
LEMMA ForwardViews ==
  ASSUME TabsTypes, NEW s \in Sessions, Forward(s)
  PROVE  LET e == Head(channel[s]) IN
         /\ live'[s].queue = live[s].queue
         /\ e.type # "user" => live'[s].steering = live[s].steering
         /\ e.type \notin {"start", "end"} => SameRun(live[s], live'[s])
<1> DEFINE e == Head(channel[s])
           v == live[s]
           w == Apply(v, e)
<1>1. e \in EventType /\ IsView(v) /\ Sees(s, w)
  BY ForwardStep, Zenon
<1>2. e.type \in {"start", "user", "partial", "reply", "end"}
  BY <1>1, EventFacts
<1> HIDE DEF e, v
<1>3. /\ w.queue = v.queue
      /\ e.type # "user" => w.steering = v.steering
      /\ e.type \in {"user", "partial", "reply"} => SameRun(v, w)
  BY <1>1, ApplyType
<1>4. live'[s] = w
  BY <1>1 DEF Sees
<1> QED
  BY <1>2, <1>3, <1>4 DEF e, v

LEMMA FreshView ==
  ASSUME NEW ms \in Seq(SaidType), NEW v, v = [EmptyView EXCEPT !.messages = ms]
  PROVE  Fresh(v) /\ v.messages = ms
  BY EmptyViewType DEF Fresh

\* A tab that is opened, or gets its agent, has nothing of its own before.
LEMMA OpenedViews ==
  ASSUME TabsTypes, TabsOnce, \A s \in Sessions : OnlyActive(s), NEW t \in Sessions
  PROVE  /\ Switch(t) => \/ UNCHANGED <<live, phase>> /\ HasTab(t)
                         \/ /\ phase[t] = "none" /\ Fresh(live[t]) /\ Fresh(live'[t])
                            /\ ~HasTab(t) /\ live'[t].messages = Loaded(file[t])
         /\ Starts(t) => phase[t] = "none" /\ Fresh(live[t]) /\ Fresh(live'[t])
<1>1. phase[t] = "none" => Fresh(live[t])
  BY DEF OnlyActive
<1>2. ASSUME Switch(t), ~HasTab(t)
      PROVE  phase[t] = "none" /\ Fresh(live'[t]) /\ live'[t].messages = Loaded(file[t])
  <2>1. Sees(t, [EmptyView EXCEPT !.messages = Loaded(file[t])])
    BY <1>2, SwitchStep, Zenon
  <2>2. Loaded(file[t]) \in Seq(SaidType)
    BY LoadedType DEF TabsTypes, AgentTypes
  <2>3. live'[t] = [EmptyView EXCEPT !.messages = Loaded(file[t])]
    BY <2>1 DEF Sees
  <2>4. Fresh(live'[t]) /\ live'[t].messages = Loaded(file[t])
    BY <2>2, <2>3, FreshView
  <2> QED
    BY <1>2, <2>4 DEF TabsOnce
<1>3. ASSUME Switch(t), HasTab(t) PROVE UNCHANGED <<live, phase>>
  BY <1>3, SwitchStep, Zenon
<1>4. ASSUME Starts(t) PROVE phase[t] = "none" /\ Fresh(live'[t])
  <2>1. PICK entries \in Seq(SaidType) : Opens(t, entries)
    BY <1>4 DEF Starts
  <2>2. ~HasTab(t) /\ Sees(t, [EmptyView EXCEPT !.messages = entries])
    BY <2>1, OpensStep, Zenon
  <2>3. live'[t] = [EmptyView EXCEPT !.messages = entries]
    BY <2>2 DEF Sees
  <2>4. Fresh(live'[t])
    BY <2>3, FreshView
  <2> QED
    BY <2>2, <2>4 DEF TabsOnce
<1> QED
  BY <1>1, <1>2, <1>3, <1>4

LEMMA SendViews ==
  ASSUME TabsTypes, \A s \in Sessions : OnlyActive(s), NEW n \in Messages, Send(n),
         NEW t \in Sessions, t = Active
  PROVE  /\ live'[t].messages = live[t].messages
         /\ \/ live' = live
            \/ /\ phase[t] # "active" /\ Fresh(live[t])
               /\ live'[t].queue = <<>> /\ live'[t].steering = <<>> /\ live'[t].base = 0
               /\ ~live'[t].streaming /\ ~live'[t].interaction
               /\ live'[t].summary = LastSummary(file[t])
<1>1. CASE phase[t] = "active"
  <2>1. live' = live
    BY <1>1, SendStep, Zenon
  <2> QED
    BY <2>1
<1>2. CASE phase[t] # "active"
  <2> DEFINE u == [EmptyView EXCEPT !.messages = live[t].messages]
  <2>1. Sees(t, [u EXCEPT !.summary = LastSummary(file[t])])
    BY <1>2, SendStep, Zenon
  <2>2. live[t].messages \in Seq(SaidType)
    BY DEF TabsTypes, ViewType
  <2>3. live'[t] = [u EXCEPT !.summary = LastSummary(file[t])]
    BY <2>1 DEF Sees
  <2>4. Fresh(u) /\ u.messages = live[t].messages /\ u \in ViewType
    BY <2>2, EmptyViewType DEF Fresh, IsView
  <2> HIDE DEF u
  <2>5. Fresh(live[t])
    BY <1>2 DEF OnlyActive
  <2> QED
    BY <1>2, <2>3, <2>4, <2>5 DEF Fresh, ViewType
<1> QED
  BY <1>1, <1>2

LEMMA QueueIsTakenStep ==
  ASSUME TabsTypes, TabsOnce, \A s \in Sessions : OnlyActive(s), [Next]_vars, NEW t \in Sessions,
         OneChain(t), QueueIsTaken(t)
  PROVE  QueueIsTaken(t)'
<1> SUFFICES ASSUME Spared(t, Unheard)', live'[t].queue # <<>>
             PROVE  Busy(t)'
  BY DEF QueueIsTaken
<1>1. Spared(t, Unheard) /\ Spared(t, {"double"})
  <2>1. Spared(t, Unheard)
    BY SparedBefore
  <2> QED
    BY <2>1 DEF Spared, Unheard
<1>2. live[t].queue # <<>> => Busy(t)
  BY <1>1 DEF QueueIsTaken
<1>3. \A n, m \in ChainsOf(t) : n = m
  BY <1>1 DEF OneChain
<1>4. ASSUME NEW n \in ChainsOf(t)', chain'[n].at # "finishing" PROVE Busy(t)'
  BY <1>4 DEF Busy
<1>5. ASSUME live'[t].queue = live[t].queue \/ Busy(t), ChainsStay(t) PROVE Busy(t)'
  <2>1. PICK n \in ChainsOf(t) : chain[n].at # "finishing"
    BY <1>2, <1>5 DEF Busy
  <2> QED
    BY <1>4, <1>5, <2>1 DEF ChainsStay
<1>6. ASSUME NEW n \in Messages, chain[n].session = t, ChainMoves(n) PROVE Busy(t)'
  <2>1. KeptBy(n, t)
    BY <1>6, ChainMovesFacts
  <2>2. n \in ChainsOf(t)
    BY <2>1 DEF KeptBy
  <2>3. ASSUME NEW where \in {"prompting", "running", "replied", "returned", "failed"},
               ChainIs(n, where)
        PROVE  Busy(t)'
    <3>1. n \in ChainsOf(t)' /\ chain'[n].at = where
      BY <1>6, <2>2, <2>3, ChainIsFacts DEF ChainIs
    <3> QED
      BY <1>4, <3>1
  <2>4. CASE SendBegins(n)
    BY <2>3, <2>4, SendBeginsStep
  <2>5. CASE SendFails(n)
    <3>1. Befalls(t, IF live[t].queue # <<>> THEN {"unsent"} ELSE {}) /\ live' = live
      BY <1>6, <2>5, SendFailsStep, Zenon
    <3> QED
      BY <3>1 DEF Befalls, Spared, Unheard
  <2>6. CASE PromptStarts(n) \/ PromptRefused(n) \/ PromptFails(n) \/ Replies(n)
    BY <2>3, <2>6, PromptStartsStep, PromptRefusedStep, PromptFailsStep, RepliesStep
  <2>7. CASE PromptReturns(n) \/ PromptReturnsError(n)
    BY <2>3, <2>7, PromptReturnsStep, PromptReturnsErrorStep
  <2>8. CASE ReportError(n)
    BY <2>3, <2>8, ReportErrorStep
  <2>9. CASE Takes(n)
    <3>1. chain'[n].at = "prompting" /\ chain'[n].session = t
      BY <1>6, <2>9, TakesStep, Zenon
    <3>2. n \in ChainsOf(t)'
      BY <3>1 DEF ChainsOf
    <3> QED
      BY <1>4, <3>1, <3>2
  <2>10. CASE TakesNothing(n)
    <3>1. live[t].queue = <<>> /\ live' = live
      BY <1>6, <2>10, TakesNothingStep, Zenon
    <3> QED
      BY <3>1
  <2>11. CASE Finish(n)
    <3>1. chain[n].at = "finishing"
      BY <2>11, FinishStep, Zenon
    <3>2. ~Takes(n)
      BY <3>1 DEF Takes
    <3>3. live'[t].queue = live[t].queue
      BY <1>6, <3>2, ChainViews
    <3> QED
      BY <1>2, <1>3, <2>2, <3>1, <3>3 DEF Busy
  <2> QED
    BY <1>6, <2>4, <2>5, <2>6, <2>7, <2>8, <2>9, <2>10, <2>11 DEF ChainMoves, ChainSteps
<1>7. CASE Same(t)
  BY <1>5, <1>7, NotChained DEF Same
<1>8. ASSUME NEW n \in Messages, Send(n), t = Active PROVE Busy(t)'
  <2>1. live'[t].queue = live[t].queue
    <3>1. live' = live \/ live'[t].queue = <<>>
      BY <1>8, SendViews
    <3> QED
      BY <3>1
  <2> QED
    BY <1>5, <1>8, <2>1, NotChained DEF OfTheUser
<1>9. CASE t = Active /\ Queue
  <2>1. Befalls(t, IF Busy(t) THEN {} ELSE {"stale"})
    BY <1>9, QueueStep, Zenon
  <2>2. Busy(t)
    BY <2>1 DEF Befalls, Spared, Unheard
  <2> QED
    BY <1>5, <1>9, <2>2, NotChained DEF OfTheUser
<1>10. CASE t = Active /\ Steer
  <2>1. live'[t].queue = live[t].queue
    <3>1. Sees(t, [live[t] EXCEPT !.steering = Append(live[t].steering, typed + 1)])
      BY <1>10, SteerStep, Zenon
    <3> QED
      BY <3>1 DEF Sees, TabsTypes, ViewType
  <2> QED
    BY <1>5, <1>10, <2>1, NotChained DEF OfTheUser
<1>11. CASE t = Active /\ Abort
  <2>1. Sees(t, [live[t] EXCEPT !.queue = <<>>])
    BY <1>11, AbortStep, Zenon
  <2> QED
    BY <2>1 DEF Sees, TabsTypes, ViewType
<1>12. CASE Subscribe(t)
  BY <1>5, <1>12, SubscribeStep, NotChained
<1>13. CASE Forward(t)
  BY <1>5, <1>13, ForwardViews, NotChained
<1>14. CASE Switch(t) \/ Starts(t)
  <2>1. live' = live \/ Fresh(live'[t])
    BY <1>14, OpenedViews
  <2> QED
    BY <1>5, <1>14, <2>1, NotChained DEF Fresh
<1> QED
  BY <1>6, <1>7, <1>8, <1>9, <1>10, <1>11, <1>12, <1>13, <1>14, SameOrMoves
     DEF Moves, OfTheUser

(***************************************************************************)
(* What the view is shown.                                                 *)
(***************************************************************************)
LEMMA ScreenIsToldStep ==
  ASSUME TabsTypes, TabsOnce, \A s \in Sessions : OnlyActive(s), [Next]_vars, ScreenIsTold
  PROVE  ScreenIsTold'
<1>0. Active \in Sessions /\ IsView(live[Active])
  BY ActiveFacts
<1>1. ASSUME tabs' = tabs, active' = active, shown' = shown, emitting \subseteq emitting',
             \/ live'[Active].streaming = live[Active].streaming
             \/ \E e \in emitting' : e[2] = Active
      PROVE  ScreenIsTold'
  <2>1. Active' = Active
    BY <1>1 DEF Active
  <2> QED
    BY <1>1, <2>1 DEF ScreenIsTold
<1>2. ASSUME NEW s \in Sessions, shown' = Snapshot(s, live'[s]) PROVE ScreenIsTold'
  BY <1>2 DEF ScreenIsTold, Snapshot
<1>3. ASSUME tabs' = tabs, active' = active, shown' = shown, emitting \subseteq emitting',
             NEW s \in Sessions, Same(Active) \/ s = Active,
             live'[s].streaming = live[s].streaming \/ (Active = s => \E e \in emitting' : e[2] = s)
      PROVE  ScreenIsTold'
  BY <1>1, <1>3 DEF Same
<1>4. ASSUME NEW n \in Messages, ChainMoves(n) PROVE ScreenIsTold'
  <2> DEFINE s == chain[n].session
  <2>0. s \in Sessions /\ IsView(live[s]) /\ file[s] \in Seq(Entries)
    BY ChainFacts
  <2>1. Same(Active) \/ s = Active
    BY <1>0, <1>4, ChainElsewhere
  <2>2. tabs' = tabs /\ active' = active
    BY <1>4, ChainMovesFacts DEF KeptBy
  <2> HIDE DEF s
  <2>3. CASE live' = live /\ shown' = shown /\ emitting \subseteq emitting'
    BY <1>1, <2>2, <2>3
  <2>4. CASE SendFails(n) \/ PromptStarts(n) \/ PromptRefused(n) \/ PromptFails(n)
               \/ Replies(n) \/ PromptReturnsError(n) \/ TakesNothing(n)
    BY <2>3, <2>4 DEF SendFails, PromptStarts, PromptRefused, PromptFails, Replies,
                      PromptReturnsError, TakesNothing, viewVars
  <2>5. CASE PromptReturns(n)
    <3>1. MoreToShow /\ live' = live /\ shown' = shown
      BY <2>5, PromptReturnsStep, Zenon
    <3> QED
      BY <2>3, <3>1 DEF MoreToShow
  <2>6. CASE SendBegins(n)
    <3>1. Sees(s, Begun(live[s])) /\ UNCHANGED Screen
      BY <2>6, SendBeginsStep, Zenon DEF s
    <3>2. live'[s].streaming = live[s].streaming
      BY <2>0, <3>1, BegunType DEF Sees
    <3> QED
      BY <1>3, <2>0, <2>1, <2>2, <3>1, <3>2 DEF Screen
  <2>7. CASE ReportError(n)
    <3>1. shown' = Snapshot(s, live'[s])
      BY <2>7, ReportErrorStep, Zenon DEF s
    <3> QED
      BY <1>2, <2>0, <3>1
  <2>8. CASE Takes(n)
    <3>1. Sees(s, [live[s] EXCEPT !.queue = Tail(live[s].queue)]) /\ UNCHANGED Screen
      BY <2>8, TakesStep, Zenon DEF s
    <3>2. live'[s].streaming = live[s].streaming
      BY <2>0, <3>1 DEF Sees, IsView, ViewType
    <3> QED
      BY <1>3, <2>0, <2>1, <2>2, <3>1, <3>2 DEF Screen
  <2>9. CASE Finish(n)
    <3>1. (Active = s => <<"task", s>> \in emitting') /\ MoreToShow /\ shown' = shown
      BY <2>9, FinishStep, Zenon DEF s
    <3>2. <<"task", s>>[2] = s
      OBVIOUS
    <3>3. Active = s => \E e \in emitting' : e[2] = s
      BY <3>1, <3>2
    <3> QED
      BY <1>3, <2>0, <2>1, <2>2, <3>1, <3>3 DEF MoreToShow
  <2> QED
    BY <1>4, <2>4, <2>5, <2>6, <2>7, <2>8, <2>9 DEF ChainMoves, ChainSteps
<1>5. ASSUME NEW n \in Messages, Send(n) PROVE ScreenIsTold'
  <2>1. UNCHANGED <<tabs, active, emitting, shown>>
    BY <1>5 DEF Send
  <2>2. live'[Active].streaming = live[Active].streaming
    <3>1. live' = live \/ (~live[Active].streaming /\ ~live'[Active].streaming)
      BY <1>0, <1>5, SendViews DEF Fresh
    <3>2. live[Active].streaming \in BOOLEAN /\ live'[Active].streaming \in BOOLEAN
      BY <1>0, TypesStep DEF TabsTypes, ViewType
    <3> QED
      BY <3>1, <3>2
  <2> QED
    BY <1>1, <2>1, <2>2
<1>6. CASE Queue \/ Steer
  <2>1. shown' = Snapshot(Active, live'[Active])
    BY <1>6, QueueStep, SteerStep, Zenon
  <2> QED
    BY <1>0, <1>2, <2>1
<1>7. CASE Abort
  <2>1. Sees(Active, [live[Active] EXCEPT !.queue = <<>>]) /\ UNCHANGED Screen
    BY <1>7, AbortStep, Zenon
  <2>2. live'[Active].streaming = live[Active].streaming
    BY <1>0, <2>1 DEF Sees, IsView, ViewType
  <2> QED
    BY <1>1, <2>1, <2>2 DEF Screen
<1>8. ASSUME NEW s \in Sessions, Subscribe(s) PROVE ScreenIsTold'
  BY <1>1, <1>8 DEF Subscribe
<1>9. ASSUME NEW s \in Sessions, Forward(s) PROVE ScreenIsTold'
  <2>1. Same(Active) \/ s = Active
    BY <1>0, <1>9, TabElsewhere
  <2>2. (Active = s => <<"forwarder", s>> \in emitting') /\ MoreToShow
          /\ UNCHANGED <<tabs, active, shown>>
    BY <1>9, ForwardStep, Zenon
  <2>3. <<"forwarder", s>>[2] = s
    OBVIOUS
  <2>4. Active = s => \E e \in emitting' : e[2] = s
    BY <2>2, <2>3
  <2> QED
    BY <1>3, <2>1, <2>2, <2>4 DEF MoreToShow
<1>10. ASSUME NEW s \in Sessions, Switch(s) PROVE ScreenIsTold'
  <2>1. shown' = Snapshot(s, live'[s])
    BY <1>10, SwitchStep, Zenon
  <2> QED
    BY <1>2, <2>1
<1>11. ASSUME NEW s \in Sessions, Starts(s) PROVE ScreenIsTold'
  <2>1. shown' = Snapshot(s, live'[s])
    BY <1>11 DEF Starts, Opens, Activates
  <2> QED
    BY <1>2, <2>1
<1>12. ASSUME NEW e \in emitting, Show(e) PROVE ScreenIsTold'
  <2>1. e[2] \in Sessions /\ shown' = Snapshot(e[2], live[e[2]]) /\ live' = live
    BY <1>12, ShowStep, Zenon
  <2> QED
    BY <1>2, <2>1
<1>13. CASE UNCHANGED vars
  BY <1>1, <1>13 DEF vars, viewVars
<1>14. CASE Next
  BY <1>4, <1>5, <1>6, <1>7, <1>8, <1>9, <1>10, <1>11, <1>12, <1>14, ForkStarts
     DEF Next, ChainMoves
<1> QED
  BY <1>13, <1>14

(***************************************************************************)
(* What a file says of its last interaction.                               *)
(***************************************************************************)
LEMMA ChangesAreSince ==
  ASSUME NEW f \in Seq(Entries), NEW changes \in SUBSET Nat
  PROVE  Changes(f) = ChangedSinceStart(Append(f, [kind |-> "summary", changes |-> changes]))
<1> DEFINE e == [kind |-> "summary", changes |-> changes]
           g == Append(f, e)
           l == LastOf(f, "started")
           q == SubSeq(f, l + 1, Len(f))
           R == {j \in 1..Len(g) : g[j].kind = "reply" /\ \A k \in j..Len(g) : g[k].kind # "started"}
<1>1. e.kind = "summary"
  OBVIOUS
<1> HIDE DEF e
<1>2. /\ Len(g) = Len(f) + 1 /\ Len(f) \in Nat /\ g[Len(f) + 1] = e
      /\ \A i \in 1..Len(f) : g[i] = f[i]
  OBVIOUS
<1>3. /\ l \in 0..Len(f)
      /\ l # 0 => f[l].kind = "started"
      /\ \A j \in 1..Len(f) : f[j].kind = "started" => l >= j
  BY LastPlace
<1> HIDE DEF g, l
<1>4. R = {j \in 1..Len(f) : j > l /\ f[j].kind = "reply"}
  <2>1. ASSUME NEW j \in R PROVE j \in 1..Len(f) /\ j > l /\ f[j].kind = "reply"
    <3>1. j \in 1..Len(f) /\ f[j].kind = "reply"
      BY <1>1, <1>2
    <3>2. ~(j <= l)
      <4> SUFFICES ASSUME j <= l PROVE FALSE
        OBVIOUS
      <4>1. l \in j..Len(g) /\ l \in 1..Len(f) /\ l # 0
        BY <1>2, <1>3, <3>1
      <4>2. g[l].kind # "started" /\ g[l] = f[l]
        BY <1>2, <4>1
      <4> QED
        BY <1>3, <4>1, <4>2
    <3> QED
      BY <1>3, <3>1, <3>2
  <2>2. ASSUME NEW j \in 1..Len(f), j > l, f[j].kind = "reply" PROVE j \in R
    <3>1. j \in 1..Len(g) /\ g[j].kind = "reply"
      BY <1>2, <2>2
    <3>2. ASSUME NEW k \in j..Len(g) PROVE g[k].kind # "started"
      <4>1. CASE k = Len(f) + 1
        BY <1>1, <1>2, <4>1
      <4>2. CASE k # Len(f) + 1
        <5>1. k \in 1..Len(f) /\ k > l
          BY <1>2, <1>3, <2>2, <4>2
        <5>2. ~(l >= k)
          BY <1>3, <5>1
        <5> QED
          BY <1>2, <1>3, <5>1, <5>2
      <4> QED
        BY <4>1, <4>2
    <3> QED
      BY <3>1, <3>2
  <2> HIDE DEF R
  <2> QED
    BY <2>1, <2>2
<1> HIDE DEF R
<1>5. ToSet(q) = {f[j] : j \in {i \in 1..Len(f) : i > l}}
  <2>1. /\ Len(q) = Len(f) - l /\ DOMAIN q = 1..(Len(f) - l)
        /\ \A i \in 1..(Len(f) - l) : q[i] = f[l + i]
    <3>1. l + 1 \in 1..(Len(f) + 1) /\ Len(f) \in l..Len(f)
      BY <1>2, <1>3
    <3>2. Len(q) = Len(f) - l /\ \A i \in 1..(Len(f) - l) : q[i] = f[l + i]
      BY <1>3, <3>1
    <3>3. DOMAIN q = 1..Len(q)
      BY <1>3, <3>1
    <3> QED
      BY <3>2, <3>3
  <2> HIDE DEF q
  <2>2. \A i \in 1..(Len(f) - l) : l + i \in 1..Len(f) /\ l + i > l
    BY <1>2, <1>3
  <2>3. ASSUME NEW j \in 1..Len(f), j > l PROVE f[j] \in ToSet(q)
    <3>1. j - l \in 1..(Len(f) - l) /\ l + (j - l) = j
      BY <1>2, <1>3, <2>3
    <3> QED
      BY <2>1, <3>1 DEF ToSet
  <2>4. ASSUME NEW x \in ToSet(q) PROVE \E j \in {i \in 1..Len(f) : i > l} : x = f[j]
    BY <2>1, <2>2 DEF ToSet
  <2> QED
    BY <2>3, <2>4
<1> HIDE DEF q
<1>6. {x \in ToSet(q) : x.kind = "reply"} = {f[j] : j \in R}
  BY <1>4, <1>5
<1>7. {g[i] : i \in R} = {f[j] : j \in R}
  BY <1>2, <1>4
<1>8. Changes(f) = {x.n : x \in {y \in ToSet(q) : y.kind = "reply"}}
  BY Zenon DEF Changes, Since, q, l
<1>9. ChangedSinceStart(g) = {m.n : m \in {g[i] : i \in R}}
  BY Zenon DEF ChangedSinceStart, R
<1>10. Changes(f) = ChangedSinceStart(g)
  BY <1>6, <1>7, <1>8, <1>9
<1> QED
  BY <1>10 DEF g, e

LEMMA NoSummaryYet ==
  ASSUME NEW f, f \in {<<>>, <<Said("started", 0), Said("user", 0), Said("reply", 0)>>}
  PROVE  LastSummary(f) = {}
<1>1. f \in Seq(Entries) /\ Len(f) \in Nat /\ \A i \in 1..Len(f) : f[i].kind # "summary"
  <2>1. CASE f = <<>>
    BY <2>1
  <2>2. CASE f = <<Said("started", 0), Said("user", 0), Said("reply", 0)>>
    <3> DEFINE a == Said("started", 0)
               b == Said("user", 0)
               c == Said("reply", 0)
    <3>1. /\ a \in Entries /\ b \in Entries /\ c \in Entries
          /\ a.kind # "summary" /\ b.kind # "summary" /\ c.kind # "summary"
      BY SaidIsTyped
    <3> HIDE DEF a, b, c
    <3>2. f = <<a, b, c>>
      BY <2>2 DEF a, b, c
    <3> QED
      BY <3>1, <3>2
  <2> QED
    BY <2>1, <2>2
<1>2. LastOf(f, "summary") \in 0..Len(f)
        /\ (LastOf(f, "summary") # 0 => f[LastOf(f, "summary")].kind = "summary")
  BY <1>1, LastPlace
<1>3. LastOf(f, "summary") = 0
  BY <1>1, <1>2
<1> QED
  BY <1>3 DEF LastSummary


(***************************************************************************)
(* The chain that moves, when it is the only one of its session.           *)
(***************************************************************************)
LEMMA SoleChain ==
  ASSUME TabsTypes, NEW n \in Messages, ChainMoves(n), NEW t, t = chain[n].session,
         \A k, m \in ChainsOf(t) : k = m
  PROVE  /\ ChainsOf(t) = {n} /\ ChainsOf(t)' \subseteq {n}
         /\ AtWork(t) <=> chain[n].at # "sending"
         /\ Taking(t) <=> chain[n].at \notin {"sending", "finishing"}
         /\ chain'[n].session = t
         /\ AtWork(t)' <=> chain'[n].at \notin {"off", "sending"}
         /\ Taking(t)' <=> chain'[n].at \notin {"off", "sending", "finishing"}
<1>1. KeptBy(n, t)
  BY ChainMovesFacts
<1>2. ChainsOf(t) = {n} /\ ChainsOf(t)' \subseteq {n}
  BY <1>1 DEF KeptBy
<1>3. chain'[n].session = t
  <2>1. ASSUME NEW where, ChainIs(n, where) PROVE chain'[n].session = t
    BY <2>1 DEF ChainIs
  <2>2. CASE Takes(n)
    BY <2>2, TakesStep, Zenon
  <2>3. CASE SendBegins(n) \/ SendFails(n) \/ PromptStarts(n) \/ PromptRefused(n)
    BY <2>1, <2>3, SendBeginsStep, SendFailsStep, PromptStartsStep, PromptRefusedStep
  <2>4. CASE PromptFails(n) \/ Replies(n) \/ PromptReturns(n) \/ PromptReturnsError(n)
    BY <2>1, <2>4, PromptFailsStep, RepliesStep, PromptReturnsStep, PromptReturnsErrorStep
  <2>5. CASE ReportError(n) \/ TakesNothing(n) \/ Finish(n)
    BY <2>1, <2>5, ReportErrorStep, TakesNothingStep, FinishStep
  <2> QED
    BY <2>2, <2>3, <2>4, <2>5 DEF ChainMoves, ChainSteps
<1>4. n \in ChainsOf(t)' <=> chain'[n].at # "off"
  BY <1>3 DEF ChainsOf
<1> QED
  BY <1>1, <1>2, <1>3, <1>4 DEF AtWork, Taking, KeptBy

LEMMA ChainLasts ==
  ASSUME TabsTypes, NEW n \in Messages, ChainMoves(n), NEW t, t = chain[n].session,
         \A k, m \in ChainsOf(t) : k = m,
         Lasts(live[t], AtWork(t), Taking(t), file[t])
  PROVE  Lasts(live'[t], AtWork(t)', Taking(t)', file'[t])
<1>0. t \in Sessions /\ live[t] \in ViewType /\ IsView(live[t]) /\ file[t] \in Seq(Entries)
  BY ChainFacts
<1>1. /\ AtWork(t) <=> chain[n].at # "sending"
      /\ Taking(t) <=> chain[n].at \notin {"sending", "finishing"}
      /\ AtWork(t)' <=> chain'[n].at \notin {"off", "sending"}
      /\ Taking(t)' <=> chain'[n].at \notin {"off", "sending", "finishing"}
  BY SoleChain
<1>2. \A where : ChainIs(n, where) => chain'[n].at = where
  BY DEF ChainIs
<1>3. ASSUME live' = live, AtWork(t), AtWork(t)', Taking(t)' PROVE Lasts(live'[t], AtWork(t)', Taking(t)', file'[t])
  BY <1>3 DEF Lasts
<1>4. CASE SendBegins(n)
  <2>1. Sees(t, Begun(live[t])) /\ ChainIs(n, "prompting")
    BY <1>4, SendBeginsStep, Zenon
  <2> QED
    BY <1>0, <1>1, <1>2, <2>1, BegunType DEF Sees, Lasts
<1>5. CASE SendFails(n)
  <2>1. chain[n].at = "sending" /\ ChainIs(n, "off") /\ live' = live /\ file' = file
    BY <1>5, SendFailsStep, Zenon DEF agentVars
  <2> QED
    BY <1>1, <1>2, <2>1 DEF Lasts
<1>6. CASE PromptStarts(n) \/ PromptRefused(n) \/ PromptFails(n) \/ Replies(n)
  <2>1. CASE PromptStarts(n)
    <3>1. chain[n].at = "prompting" /\ ChainIs(n, "running") /\ live' = live
      BY <2>1, PromptStartsStep, Zenon
    <3> QED
      BY <1>1, <1>2, <1>3, <3>1
  <2>2. CASE PromptRefused(n)
    <3>1. chain[n].at = "prompting" /\ ChainIs(n, "failed") /\ live' = live
      BY <2>2, PromptRefusedStep, Zenon
    <3> QED
      BY <1>1, <1>2, <1>3, <3>1
  <2>3. CASE PromptFails(n)
    <3>1. chain[n].at = "prompting" /\ ChainIs(n, "failed") /\ live' = live
      BY <2>3, PromptFailsStep, Zenon
    <3> QED
      BY <1>1, <1>2, <1>3, <3>1
  <2>4. CASE Replies(n)
    <3>1. chain[n].at = "running" /\ ChainIs(n, "replied") /\ live' = live
      BY <2>4, RepliesStep, Zenon
    <3> QED
      BY <1>1, <1>2, <1>3, <3>1
  <2> QED
    BY <1>6, <2>1, <2>2, <2>3, <2>4
<1>7. CASE PromptReturns(n) \/ PromptReturnsError(n)
  <2>1. CASE PromptReturns(n)
    <3>1. chain[n].at = "replied" /\ ChainIs(n, "returned") /\ live' = live
      BY <2>1, PromptReturnsStep, Zenon
    <3> QED
      BY <1>1, <1>2, <1>3, <3>1
  <2>2. CASE PromptReturnsError(n)
    <3>1. chain[n].at = "replied" /\ ChainIs(n, "failed") /\ live' = live
      BY <2>2, PromptReturnsErrorStep, Zenon
    <3> QED
      BY <1>1, <1>2, <1>3, <3>1
  <2> QED
    BY <1>7, <2>1, <2>2
<1>8. CASE ReportError(n)
  <2>1. /\ chain[n].at = "failed" /\ ChainIs(n, "returned")
        /\ live'[t].interaction = live[t].interaction /\ live'[t].summary = live[t].summary
    BY <1>8, ReportErrorStep, Zenon
  <2> QED
    BY <1>1, <1>2, <2>1 DEF Lasts
<1>9. CASE Takes(n)
  <2>1. /\ chain[n].at = "returned" /\ chain'[n].at = "prompting" /\ live[t].queue # <<>>
        /\ Sees(t, [live[t] EXCEPT !.queue = Tail(live[t].queue)])
    BY <1>9, TakesStep, Zenon
  <2>2. live[t].queue \in Seq(Nat)
    BY <1>0 DEF ViewType
  <2>3. Tail(live[t].queue) \in Seq(Nat)
    BY <2>1, <2>2
  <2>4. SameRun(live[t], [live[t] EXCEPT !.queue = Tail(live[t].queue)])
    BY <1>0, <2>3, QueueType
  <2>5. SameRun(live[t], live'[t])
    BY <2>1, <2>4 DEF Sees
  <2> QED
    BY <1>1, <2>1, <2>5 DEF Lasts, SameRun
<1>10. CASE TakesNothing(n)
  <2>1. /\ chain[n].at = "returned" /\ live[t].queue = <<>> /\ live' = live
        /\ ChainIs(n, IF live[t].interaction THEN "finishing" ELSE "off")
    BY <1>10, TakesNothingStep, Zenon
  <2>2. AtWork(t) /\ live[t].interaction
    BY <1>1, <2>1 DEF Lasts
  <2>3. chain'[n].at = "finishing"
    BY <1>2, <2>1, <2>2
  <2> QED
    BY <1>1, <2>1, <2>2, <2>3 DEF Lasts
<1>11. CASE Finish(n)
  <2> DEFINE c == Changes(file[t])
  <2>1. /\ chain[n].at = "finishing" /\ ChainIs(n, "off")
        /\ Writes(t, [kind |-> "summary", changes |-> c]) /\ Sees(t, Finished(live[t], c))
    BY <1>11, FinishStep, Zenon
  <2>2. c \in SUBSET Nat
    BY <1>0, ChangesType
  <2>3. c = ChangedSinceStart(Append(file[t], [kind |-> "summary", changes |-> c]))
    BY <1>0, <2>2, ChangesAreSince
  <2>4. file'[t] = Append(file[t], [kind |-> "summary", changes |-> c])
          /\ live'[t] = Finished(live[t], c)
    BY <2>1 DEF Writes, Sees
  <2> HIDE DEF c
  <2>5. c = ChangedSinceStart(file'[t])
    BY <2>3, <2>4
  <2>6. /\ ~live'[t].streaming /\ ~live'[t].interaction /\ live'[t].summary = {c}
        /\ live'[t].queue = live[t].queue
    BY <1>0, <2>2, <2>4, FinishedType
  <2>7. live[t].queue = <<>> /\ ~AtWork(t)'
    BY <1>1, <1>2, <2>1 DEF Lasts
  <2> QED
    BY <2>5, <2>6, <2>7 DEF Lasts
<1> QED
  BY <1>4, <1>5, <1>6, <1>7, <1>8, <1>9, <1>10, <1>11 DEF ChainMoves, ChainSteps

LEMMA InteractionLastsStep ==
  ASSUME TabsTypes, TabsOnce, \A s \in Sessions : OnlyActive(s), [Next]_vars, NEW t \in Sessions,
         OneChain(t), InteractionLasts(t)
  PROVE  InteractionLasts(t)'
<1> SUFFICES ASSUME Spared(t, {"late", "stale", "double"})'
             PROVE  Lasts(live'[t], AtWork(t)', Taking(t)', file'[t])
  BY DEF InteractionLasts
<1>1. Spared(t, {"late", "stale", "double"})
  BY SparedBefore
<1>2. /\ Lasts(live[t], AtWork(t), Taking(t), file[t])
      /\ \A n, m \in ChainsOf(t) : n = m
  BY <1>1 DEF InteractionLasts, OneChain, Spared
<1>3. Taking(t) => AtWork(t)
  BY DEF Taking, AtWork
<1>4. ASSUME Chained(t) PROVE (AtWork(t)' <=> AtWork(t)) /\ (Taking(t)' <=> Taking(t))
  BY <1>4 DEF Chained, AtWork, Taking
<1>5. live[t] \in ViewType /\ IsView(live[t]) /\ channel[t] \in Seq(EventType)
  BY DEF TabsTypes, AgentTypes
<1>6. phase[t] # "active" => ~AtWork(t) /\ ~Taking(t)
  BY DEF OnlyActive, AtWork, Taking
<1>7. ASSUME chain' = chain PROVE (AtWork(t)' <=> AtWork(t)) /\ (Taking(t)' <=> Taking(t))
  BY <1>4, <1>7, NoneIsChained
<1>8. ASSUME SameRun(live[t], live'[t]), live'[t].queue \in {<<>>, live[t].queue}, file'[t] = file[t],
             chain' = chain
      PROVE  Lasts(live'[t], AtWork(t)', Taking(t)', file'[t])
  BY <1>2, <1>7, <1>8 DEF Lasts, SameRun
<1>18. ASSUME live'[t] = live[t], file'[t] = file[t], Chained(t)
       PROVE  Lasts(live'[t], AtWork(t)', Taking(t)', file'[t])
  BY <1>2, <1>4, <1>18 DEF Lasts
<1>9. CASE Same(t)
  BY <1>9, <1>18 DEF Same
<1>10. ASSUME NEW n \in Messages, chain[n].session = t, ChainMoves(n)
       PROVE  Lasts(live'[t], AtWork(t)', Taking(t)', file'[t])
  BY <1>2, <1>10, ChainLasts
<1>11. ASSUME NEW n \in Messages, Send(n), t = Active
       PROVE  Lasts(live'[t], AtWork(t)', Taking(t)', file'[t])
  <2>1. Befalls(t, IF ChainsOf(t) # {} THEN {"double"} ELSE {}) /\ UNCHANGED agentVars
    BY <1>11, SendStep, Zenon
  <2>2. ChainsOf(t) = {}
    BY <2>1 DEF Befalls, Spared
  <2>3. ChainsOf(t)' = {n} /\ chain'[n].at = "sending"
    BY <1>11, <2>2, SendIsNew
  <2>4. ~AtWork(t) /\ ~Taking(t) /\ ~AtWork(t)' /\ ~Taking(t)'
    BY <2>2, <2>3 DEF AtWork, Taking
  <2>5. CASE live' = live
    BY <1>2, <2>1, <2>4, <2>5 DEF agentVars, Lasts
  <2>6. CASE live' # live
    <3>1. /\ phase[t] # "active" /\ live'[t].queue = <<>> /\ ~live'[t].streaming
          /\ ~live'[t].interaction /\ live'[t].summary = LastSummary(file[t])
      BY <1>11, <2>6, SendViews
    <3>2. LastSummary(file[t]) = {}
      BY <3>1, NoSummaryYet DEF OnlyActive
    <3> QED
      BY <2>4, <3>1, <3>2 DEF Lasts
  <2> QED
    BY <2>5, <2>6
<1>12. CASE t = Active /\ Queue
  <2>1. /\ MayRun /\ Sees(t, [live[t] EXCEPT !.queue = Append(live[t].queue, typed + 1)])
        /\ Befalls(t, IF Busy(t) THEN {} ELSE {"stale"}) /\ chain' = chain /\ UNCHANGED agentVars
    BY <1>12, QueueStep, Zenon
  <2>2. Busy(t)
    BY <2>1 DEF Befalls, Spared
  <2>3. AtWork(t)
    BY <1>2, <1>12, <2>1 DEF MayRun, Lasts
  <2>4. Taking(t)
    BY <1>2, <2>2, <2>3 DEF Taking, AtWork, Busy
  <2>5. live[t].queue \in Seq(Nat) /\ typed + 1 \in Nat
    BY <1>5 DEF TabsTypes, ViewType
  <2>6. Append(live[t].queue, typed + 1) \in Seq(Nat)
    BY <2>5
  <2>7. SameRun(live[t], [live[t] EXCEPT !.queue = Append(live[t].queue, typed + 1)])
    BY <1>5, <2>6, QueueType
  <2>8. SameRun(live[t], live'[t]) /\ file'[t] = file[t]
    BY <2>1, <2>7 DEF Sees, agentVars
  <2> QED
    BY <1>2, <1>7, <2>1, <2>4, <2>8 DEF Lasts, SameRun
<1>13. CASE t = Active /\ Steer
  <2>1. /\ Sees(t, [live[t] EXCEPT !.steering = Append(live[t].steering, typed + 1)])
        /\ file' = file /\ chain' = chain
    BY <1>13, SteerStep, Zenon
  <2>2. live[t].steering \in Seq(Nat) /\ typed + 1 \in Nat
    BY <1>5 DEF TabsTypes, ViewType
  <2>3. Append(live[t].steering, typed + 1) \in Seq(Nat)
    BY <2>2
  <2> DEFINE w == [live[t] EXCEPT !.steering = Append(live[t].steering, typed + 1)]
  <2>4. SameRun(live[t], w) /\ w.queue = live[t].queue
    BY <1>5, <2>3, SteeringType
  <2> QED
    BY <1>8, <2>1, <2>4 DEF Sees
<1>14. CASE t = Active /\ Abort
  <2>1. Sees(t, [live[t] EXCEPT !.queue = <<>>]) /\ file' = file /\ chain' = chain
    BY <1>14, AbortStep, Zenon
  <2> DEFINE w == [live[t] EXCEPT !.queue = <<>>]
  <2>2. <<>> \in Seq(Nat)
    OBVIOUS
  <2>3. SameRun(live[t], w) /\ w.queue = <<>>
    BY <1>5, <2>2, QueueType
  <2> QED
    BY <1>8, <2>1, <2>3 DEF Sees
<1>15. CASE Subscribe(t)
  <2>1. UNCHANGED <<live, chain>> /\ UNCHANGED agentVars
    BY <1>15, SubscribeStep
  <2> QED
    BY <1>18, <2>1, NoneIsChained DEF agentVars
<1>16. CASE Forward(t)
  <2> DEFINE e == Head(channel[t])
  <2>1. /\ file' = file /\ chain' = chain
        /\ Befalls(t, IF e.type = "start" /\ ~AtWork(t) THEN {"late"} ELSE {})
    BY <1>16, ForwardStep, Zenon
  <2>2. e.type = "start" => AtWork(t)
    BY <2>1 DEF Befalls, Spared
  <2>3. Applied(live[t], live'[t], e)
    BY <1>16, Forwarded
  <2> HIDE DEF e
  <2>4. CASE e.type \in {"user", "partial", "reply"}
    BY <1>8, <2>1, <2>3, <2>4 DEF Applied
  <2>5. CASE e.type = "start"
    BY <1>2, <1>7, <2>1, <2>2, <2>3, <2>5 DEF Lasts, Applied
  <2>6. CASE e.type = "end"
    BY <1>2, <1>3, <1>7, <2>1, <2>3, <2>6 DEF Lasts, Applied
  <2> QED
    BY <2>3, <2>4, <2>5, <2>6 DEF Applied
<1>17. CASE Switch(t) \/ Starts(t)
  <2>1. chain' = chain
    BY <1>17 DEF Switch, Starts, Opens
  <2>2. CASE Switch(t) /\ UNCHANGED <<live, phase>>
    BY <1>18, <2>1, <2>2, NoneIsChained DEF Switch, agentVars
  <2>3. CASE ~(Switch(t) /\ UNCHANGED <<live, phase>>)
    <3>1. phase[t] = "none" /\ Fresh(live'[t])
      BY <1>17, <2>3, OpenedViews
    <3> QED
      BY <1>6, <1>7, <2>1, <3>1 DEF Lasts, Fresh
  <2> QED
    BY <2>2, <2>3
<1> QED
  BY <1>9, <1>10, <1>11, <1>12, <1>13, <1>14, <1>15, <1>16, <1>17, SameOrMoves DEF Moves, OfTheUser

-----------------------------------------------------------------------------
(***************************************************************************)
(* What was steered: of the events only those of users count.              *)
(***************************************************************************)
LEMMA LatestIsEnd ==
  ASSUME NEW X, NEW q \in Seq(X)
  PROVE  \E k \in Nat : \A i \in 1..Len(Latest(q)) : i + k \in 1..Len(q) /\ Latest(q)[i] = q[i + k]
<1>1. Capacity \in Nat /\ Len(q) \in Nat
  BY TabsAssumption
<1>2. CASE Len(q) > Capacity
  <2> DEFINE k == Len(q) - Capacity
             r == SubSeq(q, k + 1, Len(q))
  <2>1. k \in Nat /\ Latest(q) = r
    BY <1>1, <1>2 DEF Latest
  <2>2. k + 1 \in 1..(Len(q) + 1) /\ Len(q) \in 0..Len(q)
    BY <1>1, <2>1
  <2> HIDE DEF k
  <2>3. Len(r) = Len(q) - k /\ \A i \in 1..(Len(q) - k) : r[i] = q[k + i]
    BY <1>1, <2>1, <2>2
  <2>4. \A i \in 1..(Len(q) - k) : i + k \in 1..Len(q) /\ i + k = k + i
    BY <1>1, <2>1
  <2> HIDE DEF r
  <2> QED
    BY <2>1, <2>3, <2>4, ZenonT(40)
<1>3. CASE ~(Len(q) > Capacity)
  <2>1. Latest(q) = q
    BY <1>1, <1>3 DEF Latest
  <2>2. \A i \in 1..Len(q) : i + 0 \in 1..Len(q) /\ q[i] = q[i + 0]
    BY <1>1
  <2> QED
    BY <2>1, <2>2
<1> QED
  BY <1>2, <1>3

LEMMA HeardOfEnd ==
  ASSUME NEW q, NEW c, NEW d, NEW top, NEW k \in Nat,
         \A i \in 1..Len(d) : i + k \in 1..Len(c) /\ d[i] = c[i + k],
         Len(d) \in Nat, HeardOnce(q, c, top)
  PROVE  HeardOnce(q, d, top)
<1>1. \A i \in Hearing(d) : i + k \in Hearing(c) /\ Tells1(d, i) = Tells1(c, i + k)
  BY DEF Hearing, Tells1
<1>2. ASSUME NEW i \in Hearing(d), NEW j \in Hearing(d), Tells1(d, i) = Tells1(d, j) PROVE i = j
  <2>1. i + k = j + k
    BY <1>1, <1>2 DEF HeardOnce
  <2>2. i \in Nat /\ j \in Nat
    BY DEF Hearing
  <2> QED
    BY <2>1, <2>2
<1>3. \A i \in Hearing(d) : Tells1(d, i) <= top /\ Tells1(d, i) \notin ToSet(q)
  BY <1>1 DEF HeardOnce
<1>4. Once(q) /\ \A n \in ToSet(q) : n <= top
  BY DEF HeardOnce
<1> QED
  BY <1>2, <1>3, <1>4 DEF HeardOnce

\* The events of an answer tell what was steered; a start tells nothing of it.
LEMMA AnswerIsHeard ==
  ASSUME NEW c \in Seq(EventType), NEW p \in Nat, NEW q \in Seq(Nat), NEW top
  PROVE  LET d == c \o Answer(p, q) IN
         /\ WaitsAt(<<>>, d) = WaitsAt(q, c)
         /\ HeardOnce(q, c, top) => HeardOnce(<<>>, d, top)
<1> DEFINE a == Answer(p, q)
           d == c \o a
           m == Len(c)
           N == {m + i : i \in 1..Len(q)}
<1>1. m \in Nat /\ Len(q) \in Nat
  OBVIOUS
<1>2. /\ a \in Seq(EventType) /\ Len(a) = Len(q) + 3
      /\ \A i \in 1..Len(q) : a[i] = Event("user", <<Said("steer", q[i])>>)
      /\ a[Len(q) + 1].type = "partial" /\ a[Len(q) + 2].type = "reply"
      /\ a[Len(q) + 3].type = "end"
  <2>1. /\ a \in Seq(EventType) /\ Len(a) = Len(q) + 3
        /\ \A i \in 1..Len(q) : a[i] = Event("user", <<Said("steer", q[i])>>)
        /\ a[Len(q) + 1] = Event("partial", <<Said("partial", p)>>)
        /\ a[Len(q) + 2] = Event("reply", <<Said("reply", p)>>)
        /\ a[Len(q) + 3] = Event("end", Turn(p, q))
    BY AnswerType
  <2> HIDE DEF a
  <2>2. \A x, y : Event(x, y).type = x
    BY DEF Event
  <2> QED
    BY <2>1, <2>2
<1>3. \A i \in 1..Len(q) : a[i].type = "user" /\ a[i].messages[1].n = q[i]
  <2> HIDE DEF a
  <2>1. \A x, y : Event(x, <<y>>).type = x /\ Event(x, <<y>>).messages[1] = y
    BY DEF Event
  <2>3. ASSUME NEW i \in 1..Len(q) PROVE a[i].type = "user" /\ a[i].messages[1].n = q[i]
    <3>1. a[i] = Event("user", <<Said("steer", q[i])>>)
      BY <1>2
    <3> DEFINE x == Said("steer", q[i])
    <3>2. x.n = q[i]
      BY DEF Said
    <3> HIDE DEF x
    <3>3. Event("user", <<x>>).type = "user" /\ Event("user", <<x>>).messages[1] = x
      BY <2>1
    <3>4. a[i] = Event("user", <<x>>)
      BY <3>1 DEF x
    <3> QED
      BY <3>2, <3>3, <3>4
  <2> QED
    BY <2>3
<1>4. \A i \in 1..Len(a) : a[i].type = "user" <=> i \in 1..Len(q)
  <2>1. \A i \in 1..Len(a) : i \in 1..Len(q) \/ i = Len(q) + 1 \/ i = Len(q) + 2 \/ i = Len(q) + 3
    BY <1>1, <1>2
  <2>2. Len(q) + 1 \notin 1..Len(q) /\ Len(q) + 2 \notin 1..Len(q) /\ Len(q) + 3 \notin 1..Len(q)
    BY <1>1
  <2> QED
    BY <1>2, <1>3, <2>1, <2>2
<1> HIDE DEF a
<1>5. /\ Len(d) = m + Len(a)
      /\ \A i \in 1..m : d[i] = c[i]
      /\ \A i \in 1..Len(a) : d[m + i] = a[i]
  <2>1. /\ Len(d) = m + Len(a)
        /\ \A i \in 1..(m + Len(a)) : d[i] = IF i <= m THEN c[i] ELSE a[i - m]
    BY <1>2, ConcatProperties
  <2> HIDE DEF d, m
  <2>2. Len(a) \in Nat
    BY <1>2
  <2>3. \A i \in 1..m : d[i] = c[i]
    BY <1>1, <2>1, <2>2
  <2>4. ASSUME NEW i \in 1..Len(a) PROVE d[m + i] = a[i]
    <3> DEFINE j == m + i
    <3>1. j \in 1..(m + Len(a)) /\ ~(j <= m) /\ j - m = i
      BY <1>1, <2>2
    <3> HIDE DEF j
    <3>2. d[j] = a[j - m]
      BY <2>1, <3>1
    <3> QED
      BY <3>1, <3>2 DEF j
  <2> QED
    BY <2>1, <2>3, <2>4
<1> HIDE DEF d, m
<1>6. Hearing(d) = Hearing(c) \cup N
  <2>1. Len(a) \in Nat /\ Len(a) >= Len(q)
    BY <1>1, <1>2
  <2>2. ASSUME NEW j \in Hearing(d) PROVE j \in Hearing(c) \cup N
    <3>1. j \in 1..(m + Len(a)) /\ d[j].type = "user"
      BY <1>5 DEF Hearing
    <3>2. CASE j <= m
      BY <1>1, <1>5, <3>1, <3>2 DEF Hearing, m
    <3>3. CASE j > m
      <4>1. j - m \in 1..Len(a) /\ m + (j - m) = j
        BY <1>1, <2>1, <3>1, <3>3
      <4>2. j - m \in 1..Len(q)
        BY <1>4, <1>5, <3>1, <4>1
      <4> QED
        BY <4>1, <4>2
    <3> QED
      BY <1>1, <3>1, <3>2, <3>3
  <2>3. ASSUME NEW j \in Hearing(c) PROVE j \in Hearing(d)
    BY <1>1, <1>5, <2>1 DEF Hearing, m
  <2>4. ASSUME NEW i \in 1..Len(q) PROVE m + i \in Hearing(d)
    <3>1. i \in 1..Len(a) /\ m + i \in 1..(m + Len(a))
      BY <1>1, <2>1
    <3> QED
      BY <1>4, <1>5, <3>1 DEF Hearing
  <2> QED
    BY <2>2, <2>3, <2>4
<1>7. /\ \A j \in Hearing(c) : Tells1(d, j) = Tells1(c, j) /\ j <= m /\ j \in Nat
      /\ \A i \in 1..Len(q) : Tells1(d, m + i) = q[i]
  <2>1. \A i \in 1..Len(q) : i \in 1..Len(a)
    BY <1>1, <1>2
  <2> QED
    BY <1>1, <1>3, <1>5, <2>1, SMTT(30) DEF Hearing, Tells1, m
<1>8. ToSet(q) = {q[i] : i \in 1..Len(q)} /\ ToSet(<<>>) = {}
  BY DEF ToSet
<1>9. WaitsAt(<<>>, d) = WaitsAt(q, c)
  <2>1. {Tells1(d, j) : j \in Hearing(d)} = {Tells1(c, j) : j \in Hearing(c)} \cup {q[i] : i \in 1..Len(q)}
    BY <1>6, <1>7
  <2> QED
    BY <1>8, <2>1 DEF WaitsAt
<1>10. ASSUME HeardOnce(q, c, top) PROVE HeardOnce(<<>>, d, top)
  <2>1. /\ \A i, j \in 1..Len(q) : q[i] = q[j] => i = j
        /\ \A i \in 1..Len(q) : q[i] <= top
        /\ \A i, j \in Hearing(c) : Tells1(c, i) = Tells1(c, j) => i = j
        /\ \A i \in Hearing(c) : Tells1(c, i) <= top /\ \A j \in 1..Len(q) : Tells1(c, i) # q[j]
    BY <1>8, <1>10 DEF HeardOnce, Once
  <2>2. \A i, j \in Hearing(d) : Tells1(d, i) = Tells1(d, j) => i = j
    BY <1>6, <1>7, <2>1, SMTT(30)
  <2>3. \A i \in Hearing(d) : Tells1(d, i) <= top /\ Tells1(d, i) \notin ToSet(<<>>)
    BY <1>6, <1>7, <1>8, <2>1
  <2>4. Once(<<>>) /\ \A n \in ToSet(<<>>) : n <= top
    BY <1>8 DEF Once
  <2> QED
    BY <2>2, <2>3, <2>4 DEF HeardOnce
<1> QED
  BY <1>9, <1>10 DEF a, d

LEMMA StartIsNotHeard ==
  ASSUME NEW c \in Seq(EventType), NEW q, NEW e \in EventType, e.type # "user", NEW top
  PROVE  LET d == c \o <<e>> IN
         /\ WaitsAt(q, d) = WaitsAt(q, c)
         /\ HeardOnce(q, c, top) => HeardOnce(q, d, top)
<1> DEFINE d == c \o <<e>>
<1>1. Len(d) = Len(c) + 1 /\ d[Len(c) + 1] = e /\ Len(c) \in Nat
        /\ \A i \in 1..Len(c) : d[i] = c[i]
  OBVIOUS
<1> HIDE DEF d
<1>2. Hearing(d) = Hearing(c) /\ \A i \in Hearing(c) : Tells1(d, i) = Tells1(c, i)
  BY <1>1 DEF Hearing, Tells1
<1>3. WaitsAt(q, d) = WaitsAt(q, c)
  BY <1>2 DEF WaitsAt
<1>4. HeardOnce(q, c, top) => HeardOnce(q, d, top)
  BY <1>2 DEF HeardOnce
<1> QED
  BY <1>3, <1>4 DEF d

\* The first event is forwarded.
LEMMA HeadIsHeard ==
  ASSUME NEW c \in Seq(EventType), c # <<>>, NEW q, NEW top, HeardOnce(q, c, top)
  PROVE  /\ HeardOnce(q, Tail(c), top)
         /\ Head(c).type # "user" => WaitsAt(q, Tail(c)) = WaitsAt(q, c)
         /\ Head(c).type = "user" => WaitsAt(q, Tail(c)) = WaitsAt(q, c) \ {Head(c).messages[1].n}
<1> DEFINE d == Tail(c)
           e == Head(c)
<1>1. /\ Len(c) \in Nat \ {0} /\ Len(d) = Len(c) - 1 /\ e = c[1]
      /\ \A i \in 1..(Len(c) - 1) : d[i] = c[i + 1]
  OBVIOUS
<1> HIDE DEF d, e
<1>2. Len(d) \in Nat /\ \A i \in 1..Len(d) : i + 1 \in 1..Len(c) /\ d[i] = c[i + 1]
  BY <1>1
<1>3. HeardOnce(q, d, top)
  BY <1>2, HeardOfEnd
<1>4. /\ Hearing(c) \ {1} = {i + 1 : i \in Hearing(d)}
      /\ \A i \in Hearing(d) : Tells1(d, i) = Tells1(c, i + 1) /\ i + 1 \in Hearing(c) \ {1}
  <2>1. ASSUME NEW j \in Hearing(c), j # 1 PROVE \E i \in Hearing(d) : j = i + 1
    <3>1. j - 1 \in 1..Len(d) /\ (j - 1) + 1 = j
      BY <1>1, <2>1 DEF Hearing
    <3>2. j - 1 \in Hearing(d)
      BY <1>2, <3>1 DEF Hearing
    <3> QED
      BY <3>1, <3>2
  <2>2. ASSUME NEW i \in Hearing(d)
        PROVE  Tells1(d, i) = Tells1(c, i + 1) /\ i + 1 \in Hearing(c) /\ i + 1 # 1
    BY <1>1, <1>2 DEF Hearing, Tells1
  <2> QED
    BY <2>1, <2>2
<1>5. 1 \in Hearing(c) <=> e.type = "user"
  BY <1>1 DEF Hearing
<1>6. {Tells1(d, i) : i \in Hearing(d)} = {Tells1(c, j) : j \in Hearing(c) \ {1}}
  BY <1>4
<1>7. CASE e.type # "user"
  <2>1. Hearing(c) \ {1} = Hearing(c)
    BY <1>5, <1>7
  <2>2. WaitsAt(q, d) = WaitsAt(q, c)
    BY <1>6, <2>1 DEF WaitsAt
  <2> QED
    BY <1>3, <1>7, <2>2 DEF d, e
<1>8. CASE e.type = "user"
  <2>1. e.messages[1].n = Tells1(c, 1) /\ 1 \in Hearing(c)
    BY <1>1, <1>5, <1>8 DEF Tells1
  <2>2. \A j \in Hearing(c) : Tells1(c, j) = Tells1(c, 1) => j = 1
    BY <2>1 DEF HeardOnce
  <2>3. Tells1(c, 1) \notin ToSet(q)
    BY <2>1 DEF HeardOnce
  <2>4. WaitsAt(q, d) = WaitsAt(q, c) \ {Tells1(c, 1)}
    BY <1>6, <2>2, <2>3 DEF WaitsAt
  <2> QED
    BY <1>3, <1>8, <2>1, <2>4 DEF d, e
<1> QED
  BY <1>7, <1>8

LEMMA HeardLater ==
  ASSUME NEW c \in Seq(EventType), NEW q \in Seq(Nat), NEW top \in Nat, NEW later \in Nat,
         top <= later, HeardOnce(q, c, top)
  PROVE  HeardOnce(q, c, later)
<1>1. \A n \in ToSet(q) : n \in Nat
  BY DEF ToSet
<1>2. ASSUME NEW i \in Hearing(c) PROVE Tells1(c, i) \in Nat
  <2>1. c[i] \in EventType /\ c[i].type = "user"
    BY DEF Hearing
  <2>2. c[i].messages[1] \in SaidType
    BY <2>1, EventFacts
  <2> QED
    BY <2>2 DEF Tells1, SaidType
<1> QED
  BY <1>1, <1>2 DEF HeardOnce

LEMMA SteeringStep ==
  ASSUME TabsTypes, TabsOnce, \A s \in Sessions : OnlyActive(s), [Next]_vars, NEW t \in Sessions,
         SteeredOnce(t), SteeringIsShown(t)
  PROVE  SteeredOnce(t)' /\ SteeringIsShown(t)'
<1> DEFINE q == steering[t]
           c == channel[t]
           Now == SteeredOnce(t)' /\ SteeringIsShown(t)'
<1>1. /\ typed \in Nat /\ typed' \in Nat /\ typed <= typed' /\ TabsTypes'
      /\ q \in Seq(Nat) /\ c \in Seq(EventType) /\ live[t].steering \in Seq(Nat) /\ IsView(live[t])
      /\ live[t] \in ViewType
  <2>1. TabsTypes' /\ typed <= typed'
    BY TypesStep
  <2>2. typed \in Nat /\ typed' \in Nat
    BY <2>1 DEF TabsTypes
  <2>3. /\ q \in Seq(Nat) /\ c \in Seq(EventType) /\ live[t] \in ViewType /\ IsView(live[t])
    BY DEF TabsTypes, AgentTypes
  <2> QED
    BY <2>1, <2>2, <2>3 DEF ViewType
<1>2. HeardOnce(q, c, typed) /\ HeardOnce(q, c, typed')
  BY <1>1, HeardLater DEF SteeredOnce
<1>3. Once(live[t].steering) /\ \A n \in ToSet(live[t].steering) : n <= typed /\ n <= typed'
  <2>1. \A n \in ToSet(live[t].steering) : n \in Nat /\ n <= typed
    BY <1>1 DEF SteeredOnce, ToSet
  <2> QED
    BY <1>1, <2>1 DEF SteeredOnce
<1>4. Spared(t, Lost \cup {"aborted"})' => Spared(t, Lost \cup {"aborted"})
  BY SparedBefore
<1>5. Spared(t, Lost \cup {"aborted"})' =>
        mishaps'[t] \cap Lost = {} /\ ToSet(live[t].steering) = WaitsAt(q, c)
  BY <1>4 DEF Spared, SteeringIsShown
<1>6. ASSUME live'[t].steering = live[t].steering, HeardOnce(steering'[t], channel'[t], typed'),
             Spared(t, Lost \cup {"aborted"})' => WaitsAt(steering'[t], channel'[t]) = WaitsAt(q, c)
      PROVE  Now
  <2>1. SteeredOnce(t)'
    BY <1>3, <1>6 DEF SteeredOnce
  <2>2. SteeringIsShown(t)'
    BY <1>5, <1>6 DEF SteeringIsShown
  <2> QED
    BY <2>1, <2>2
<1>7. ASSUME live'[t].steering = live[t].steering, steering'[t] = q, channel'[t] = c PROVE Now
  BY <1>2, <1>6, <1>7
<1> HIDE DEF Now
<1> SUFFICES Now
  BY DEF Now
<1>8. CASE Same(t)
  BY <1>7, <1>8 DEF Same
<1>9. ASSUME NEW n \in Messages, chain[n].session = t, ChainMoves(n) PROVE Now
  <2>1. live'[t].steering = live[t].steering
    BY <1>9, ChainViews
  <2>2. ASSUME UNCHANGED <<steering, channel>> PROVE Now
    BY <1>7, <2>1, <2>2
  <2>3. CASE PromptStarts(n)
    <3> DEFINE e == Event("start", <<Said("user", chain[n].prompt)>>)
    <3>1. Tells(t, <<e>>, {}) /\ <<e>> \in Seq(EventType) /\ steering' = steering
      BY <1>9, <2>3, PromptStartsStep, Zenon
    <3>2. e.type = "start"
      BY DEF Event
    <3>3. e \in EventType
      <4> HIDE DEF e
      <4>1. <<e>>[1] = e /\ 1 \in 1..Len(<<e>>)
        OBVIOUS
      <4> QED
        BY <3>1, <4>1
    <3> HIDE DEF e
    <3>4. \/ channel'[t] = c
          \/ channel'[t] = Latest(c \o <<e>>)
      BY <3>1, TellsFacts DEF TabsTypes
    <3>5. mishaps'[t] \cap Lost = {} => channel'[t] = c \o <<e>>
      BY <3>1, TellsFacts DEF TabsTypes
    <3> DEFINE d == c \o <<e>>
    <3>6. d \in Seq(EventType) /\ WaitsAt(q, d) = WaitsAt(q, c) /\ HeardOnce(q, d, typed')
      <4>1. d \in Seq(EventType)
        BY <1>1, <3>1, ConcatProperties
      <4> QED
        BY <1>1, <1>2, <3>2, <3>3, <4>1, StartIsNotHeard
    <3> HIDE DEF d
    <3>7. HeardOnce(q, Latest(d), typed')
      <4>1. Latest(d) \in Seq(EventType)
        BY <3>6, LatestType
      <4>2. PICK k \in Nat : \A i \in 1..Len(Latest(d)) : i + k \in 1..Len(d) /\ Latest(d)[i] = d[i + k]
        BY <3>6, LatestIsEnd
      <4>3. Len(Latest(d)) \in Nat
        BY <4>1
      <4> QED
        BY <3>6, <4>2, <4>3, HeardOfEnd
    <3>8. HeardOnce(q, channel'[t], typed')
      BY <1>2, <3>4, <3>7 DEF d
    <3>9. Spared(t, Lost \cup {"aborted"})' => WaitsAt(q, channel'[t]) = WaitsAt(q, c)
      BY <1>5, <3>5, <3>6 DEF d
    <3> QED
      BY <1>6, <2>1, <3>1, <3>8, <3>9
  <2>4. CASE Replies(n)
    <3> DEFINE p == chain[n].prompt
               a == Answer(p, q)
    <3>1. Tells(t, a, {}) /\ steering'[t] = <<>>
      BY <1>9, <2>4, RepliesStep, Zenon
    <3>2. p \in Nat
      BY ChainFacts
    <3>3. a \in Seq(EventType)
      BY <1>1, <3>2, AnswerType
    <3> DEFINE d == c \o a
    <3>4. d \in Seq(EventType) /\ WaitsAt(<<>>, d) = WaitsAt(q, c) /\ HeardOnce(<<>>, d, typed')
      <4>1. d \in Seq(EventType)
        BY <1>1, <3>3, ConcatProperties
      <4> QED
        BY <1>1, <1>2, <3>2, <4>1, AnswerIsHeard
    <3> HIDE DEF p, a, d
    <3>5. /\ \/ channel'[t] = c
             \/ channel'[t] = Latest(d)
          /\ mishaps'[t] \cap Lost = {} => channel'[t] = d
      BY <3>1, <3>3, TellsFacts DEF TabsTypes, d
    <3>6. HeardOnce(<<>>, Latest(d), typed')
      BY <3>4, LatestIsEnd, LatestType, HeardOfEnd
    <3>7. HeardOnce(<<>>, c, typed')
      <4>1. ToSet(<<>>) = {} /\ Once(<<>>)
        BY DEF ToSet, Once
      <4> QED
        BY <1>2, <4>1 DEF HeardOnce
    <3>8. HeardOnce(<<>>, channel'[t], typed')
      BY <3>5, <3>6, <3>7
    <3>9. Spared(t, Lost \cup {"aborted"})' => WaitsAt(<<>>, channel'[t]) = WaitsAt(q, c)
      BY <1>5, <3>4, <3>5
    <3> QED
      BY <1>6, <2>1, <3>1, <3>8, <3>9
  <2> QED
    BY <1>9, <2>2, <2>3, <2>4
       DEF ChainMoves, ChainSteps, SendBegins, SendFails, PromptRefused, PromptFails, PromptReturns,
           PromptReturnsError, ReportError, Takes, TakesNothing, Finish, agentVars
<1>10. ASSUME NEW n \in Messages, Send(n), t = Active PROVE Now
  <2>1. live'[t].steering = live[t].steering
    <3>1. live' = live \/ (Fresh(live[t]) /\ live'[t].steering = <<>>)
      BY <1>10, SendViews
    <3> QED
      BY <3>1 DEF Fresh
  <2> QED
    BY <1>7, <1>10, <2>1 DEF Send, agentVars
<1>11. CASE t = Active /\ (Queue \/ Abort)
  <2>1. PICK w \in Seq(Nat) : Sees(t, [live[t] EXCEPT !.queue = w])
    <3>1. CASE Queue
      <4>1. Sees(t, [live[t] EXCEPT !.queue = Append(live[t].queue, typed + 1)])
        BY <1>11, <3>1, QueueStep, Zenon
      <4>2. live[t].queue \in Seq(Nat)
        BY <1>1 DEF ViewType
      <4>3. Append(live[t].queue, typed + 1) \in Seq(Nat)
        BY <1>1, <4>2
      <4> QED
        BY <4>1, <4>3
    <3>2. CASE Abort
      <4>1. Sees(t, [live[t] EXCEPT !.queue = <<>>]) /\ <<>> \in Seq(Nat)
        BY <1>11, <3>2, AbortStep
      <4> QED
        BY <4>1
    <3> QED
      BY <1>11, <3>1, <3>2
  <2> DEFINE v == [live[t] EXCEPT !.queue = w]
  <2>2. v.steering = live[t].steering
    BY <1>1, QueueType
  <2>3. live'[t].steering = live[t].steering
    BY <2>1, <2>2 DEF Sees
  <2>4. CASE Queue
    BY <1>7, <2>3, <2>4 DEF Queue, agentVars
  <2>5. CASE Abort
    <3>1. steering'[t] = <<>> /\ channel' = channel /\ Befalls(t, {"aborted"})
      BY <1>11, <2>5, AbortStep, Zenon
    <3>2. HeardOnce(<<>>, c, typed')
      <4>1. ToSet(<<>>) = {} /\ Once(<<>>)
        BY DEF ToSet, Once
      <4> QED
        BY <1>2, <4>1 DEF HeardOnce
    <3>3. ~Spared(t, Lost \cup {"aborted"})'
      BY <3>1 DEF Befalls, Spared
    <3> QED
      BY <1>6, <2>3, <3>1, <3>2, <3>3
  <2> QED
    BY <1>11, <2>4, <2>5
<1>12. CASE t = Active /\ Steer
  <2> DEFINE n == typed + 1
             r == live[t].steering
  <2>1. /\ typed' = n /\ steering'[t] = Append(q, n) /\ channel' = channel
        /\ Sees(t, [live[t] EXCEPT !.steering = Append(r, n)])
    BY <1>12, SteerStep, Zenon
  <2>2. Append(r, n) \in Seq(Nat) /\ n \in Nat
    BY <1>1
  <2> DEFINE w == [live[t] EXCEPT !.steering = Append(r, n)]
  <2>3. w.steering = Append(r, n)
    BY <1>1, <2>2, SteeringType
  <2>4. live'[t].steering = Append(r, n)
    BY <2>1, <2>3 DEF Sees
  <2>5. ASSUME NEW x \in Seq(Nat), Once(x), \A y \in ToSet(x) : y <= typed
        PROVE  Once(Append(x, n)) /\ ToSet(Append(x, n)) = ToSet(x) \cup {n}
                 /\ \A y \in ToSet(Append(x, n)) : y <= n
    <3>1. \A i \in 1..Len(x) : x[i] \in Nat /\ x[i] <= typed
      BY <2>5 DEF ToSet
    <3>2. \A i \in 1..Len(x) : x[i] # n /\ x[i] <= n
      BY <1>1, <3>1
    <3> HIDE DEF n
    <3>3. /\ Len(Append(x, n)) = Len(x) + 1 /\ Len(x) \in Nat
          /\ \A i \in 1..Len(x) : Append(x, n)[i] = x[i]
          /\ Append(x, n)[Len(x) + 1] = n
          /\ DOMAIN Append(x, n) = 1..(Len(x) + 1) /\ DOMAIN x = 1..Len(x)
      BY <2>2
    <3>4. Once(Append(x, n))
      BY <2>5, <3>2, <3>3 DEF Once
    <3>5. ToSet(Append(x, n)) = ToSet(x) \cup {n}
      BY <3>3 DEF ToSet
    <3>6. \A y \in ToSet(x) : y <= n
      BY <3>2, <3>3 DEF ToSet
    <3> QED
      BY <2>2, <3>4, <3>5, <3>6
  <2>6. /\ Once(Append(r, n)) /\ ToSet(Append(r, n)) = ToSet(r) \cup {n}
        /\ \A y \in ToSet(Append(r, n)) : y <= n
    BY <1>1, <1>3, <2>5
  <2>7. /\ Once(Append(q, n)) /\ ToSet(Append(q, n)) = ToSet(q) \cup {n}
        /\ \A y \in ToSet(Append(q, n)) : y <= n
    <3>1. Once(q) /\ \A y \in ToSet(q) : y <= typed
      BY <1>2 DEF HeardOnce
    <3> QED
      BY <1>1, <2>5, <3>1
  <2>8. HeardOnce(Append(q, n), c, n)
    <3>1. \A i \in Hearing(c) : Tells1(c, i) <= typed
      BY <1>2 DEF HeardOnce
    <3>2. ~(n <= typed)
      BY <1>1
    <3>3. \A i \in Hearing(c) : Tells1(c, i) # n
      BY <3>1, <3>2
    <3>4. /\ \A i, j \in Hearing(c) : Tells1(c, i) = Tells1(c, j) => i = j
          /\ \A i \in Hearing(c) : Tells1(c, i) <= n /\ Tells1(c, i) \notin ToSet(q)
      BY <1>2, <2>1 DEF HeardOnce
    <3> HIDE DEF n, q, c
    <3> QED
      BY <2>7, <3>3, <3>4 DEF HeardOnce
  <2> HIDE DEF n, r, w
  <2>9. SteeredOnce(t)'
    BY <2>1, <2>4, <2>6, <2>8 DEF SteeredOnce
  <2>10. WaitsAt(Append(q, n), c) = WaitsAt(q, c) \cup {n}
    BY <2>7 DEF WaitsAt
  <2>11. SteeringIsShown(t)'
    BY <1>5, <2>1, <2>4, <2>6, <2>10 DEF SteeringIsShown, r
  <2> QED
    BY <2>9, <2>11 DEF Now
<1>13. CASE Subscribe(t)
  BY <1>7, <1>13 DEF Subscribe, agentVars
<1>14. CASE Forward(t)
  <2> DEFINE e == Head(c)
             r == live[t].steering
             m == e.messages[1]
  <2>1. c # <<>> /\ channel'[t] = Tail(c) /\ steering' = steering
    BY <1>14, ForwardStep, Zenon
  <2>2. HeardOnce(q, Tail(c), typed')
    BY <1>1, <1>2, <2>1, HeadIsHeard
  <2>3. Applied(live[t], live'[t], e)
    BY <1>14, Forwarded
  <2>4. CASE e.type # "user"
    <3>1. live'[t].steering = r
      BY <2>3, <2>4 DEF Applied
    <3>2. WaitsAt(q, Tail(c)) = WaitsAt(q, c)
      BY <1>1, <1>2, <2>1, <2>4, HeadIsHeard
    <3> QED
      BY <1>6, <2>1, <2>2, <3>1, <3>2
  <2>5. CASE e.type = "user"
    <3>1. live'[t].steering = IF Contains(r, m.n) THEN RemoveAt(r, FirstOf(r, m.n)) ELSE r
      BY <2>3, <2>5 DEF Applied
    <3>2. WaitsAt(q, Tail(c)) = WaitsAt(q, c) \ {m.n}
      BY <1>1, <1>2, <2>1, <2>5, HeadIsHeard
    <3> DEFINE w == live'[t].steering
    <3>3. Once(w) /\ ToSet(w) = ToSet(r) \ {m.n}
      <4> HIDE DEF m, r, w
      <4>1. CASE Contains(r, m.n)
        <5>1. w = RemoveAt(r, FirstOf(r, m.n))
          BY <3>1, <4>1 DEF w
        <5>2. r \in Seq(Nat) /\ Once(r)
          BY <1>1, <1>3 DEF r
        <5> QED
          BY <4>1, <5>1, <5>2, RemovedOnce
      <4>2. CASE ~Contains(r, m.n)
        <5>1. w = r /\ Once(r)
          BY <1>3, <3>1, <4>2 DEF w, r
        <5>2. m.n \notin ToSet(r)
          BY <4>2 DEF Contains, ToSet
        <5> QED
          BY <5>1, <5>2
      <4> QED
        BY <4>1, <4>2
    <3>4. SteeredOnce(t)'
      <4>1. \A n \in ToSet(w) : n <= typed'
        BY <1>3, <3>3
      <4> QED
        BY <2>1, <2>2, <3>3, <4>1 DEF SteeredOnce
    <3>5. SteeringIsShown(t)'
      BY <1>5, <2>1, <3>2, <3>3 DEF SteeringIsShown
    <3> QED
      BY <3>4, <3>5 DEF Now
  <2> QED
    BY <2>4, <2>5
<1>15. CASE Switch(t) \/ Starts(t)
  <2>1. live'[t].steering = live[t].steering
    BY <1>15, OpenedViews DEF Fresh
  <2>2. UNCHANGED <<steering, channel>>
    BY <1>15 DEF Switch, Starts, Opens, agentVars
  <2> QED
    BY <1>7, <2>1, <2>2
<1> QED
  BY <1>8, <1>9, <1>10, <1>11, <1>12, <1>13, <1>14, <1>15, SameOrMoves DEF Moves, OfTheUser

-----------------------------------------------------------------------------
(***************************************************************************)
(* What was queued waits, is prompted, or is on file.                      *)
(***************************************************************************)
Grown(f, g) == g = f \/ \E e \in Entries : g = Append(f, e)

LEMMA GrownHas ==
  ASSUME NEW X, NEW f \in Seq(X), NEW e \in X
  PROVE  /\ Contains(Append(f, e), e)
         /\ \A x : Contains(f, x) => Contains(Append(f, e), x)
<1>1. /\ Len(Append(f, e)) = Len(f) + 1 /\ Len(f) \in Nat
      /\ Append(f, e)[Len(f) + 1] = e
      /\ \A i \in 1..Len(f) : Append(f, e)[i] = f[i]
  OBVIOUS
<1>2. Len(f) + 1 \in 1..(Len(f) + 1) /\ \A i \in 1..Len(f) : i \in 1..(Len(f) + 1)
  BY <1>1
<1> QED
  BY <1>1, <1>2 DEF Contains

LEMMA FileGrows ==
  ASSUME TabsTypes, NEW n \in Messages, ChainMoves(n), NEW t, t = chain[n].session
  PROVE  Grown(file[t], file'[t])
<1>0. chain[n].prompt \in Nat /\ file[t] \in Seq(Entries)
  BY ChainFacts
<1>1. ASSUME NEW kind \in {"started", "user", "reply", "error"}, NEW p \in Nat, Writes(t, Said(kind, p))
      PROVE  Grown(file[t], file'[t])
  <2>1. Said(kind, p) \in Entries
    BY SaidIsTyped
  <2> QED
    BY <1>1, <2>1 DEF Writes, Grown
<1>2. CASE SendBegins(n)
  <2>1. Writes(t, Said("started", 0))
    BY <1>2, SendBeginsStep, Zenon
  <2> QED
    BY <1>1, <2>1
<1>3. CASE PromptStarts(n) \/ PromptFails(n)
  <2>1. Writes(t, Said("user", chain[n].prompt))
    BY <1>3, PromptStartsStep, PromptFailsStep, Zenon
  <2> QED
    BY <1>0, <1>1, <2>1
<1>4. CASE PromptReturns(n) \/ PromptReturnsError(n)
  <2>1. Writes(t, Said("reply", chain[n].prompt))
    BY <1>4, PromptReturnsStep, PromptReturnsErrorStep, Zenon
  <2> QED
    BY <1>0, <1>1, <2>1
<1>5. CASE ReportError(n)
  <2>1. Writes(t, Said("error", chain[n].prompt))
    BY <1>5, ReportErrorStep, Zenon
  <2> QED
    BY <1>0, <1>1, <2>1
<1>6. CASE Finish(n)
  <2> DEFINE e == [kind |-> "summary", changes |-> Changes(file[t])]
  <2>1. Writes(t, e)
    BY <1>6, FinishStep, Zenon
  <2>2. e \in Entries
    BY <1>0, ChangesType DEF Entries
  <2> QED
    BY <2>1, <2>2 DEF Writes, Grown
<1>7. CASE SendFails(n) \/ PromptRefused(n) \/ Replies(n) \/ Takes(n) \/ TakesNothing(n)
  BY <1>7 DEF SendFails, PromptRefused, Replies, Takes, TakesNothing, agentVars, Grown
<1> QED
  BY <1>2, <1>3, <1>4, <1>5, <1>6, <1>7 DEF ChainMoves, ChainSteps

LEMMA HeldStep ==
  ASSUME TabsTypes, TabsOnce, \A s \in Sessions : OnlyActive(s), [Next]_vars, NEW t \in Sessions,
         OneRun(t), OneChain(t), Spared(t, Unheard)', NEW n \in accepted', Held(t, n)
  PROVE  Held(t, n)'
<1> DEFINE q == live[t].queue
           f == file[t]
           u == Said("user", n)
           OnFile == Contains(f, u)
           Prompted == \E m \in ChainsOf(t) : chain[m].prompt = n /\ chain[m].at = "prompting"
<1>0. f \in Seq(Entries) /\ q \in Seq(Nat) /\ live[t] \in ViewType /\ IsView(live[t])
  BY DEF TabsTypes, AgentTypes, ViewType
<1>1. \A k, m \in ChainsOf(t) : k = m
  <2>1. Spared(t, Unheard)
    BY SparedBefore
  <2> QED
    BY <2>1 DEF OneChain, Unheard, Spared
<1>2. Contains(q, n) \/ OnFile \/ Prompted
  BY DEF Held
<1>3. ASSUME Contains(live'[t].queue, n) \/ Contains(file'[t], u) PROVE Held(t, n)'
  BY <1>3 DEF Held
<1>4. ASSUME Chained(t), Prompted PROVE Held(t, n)'
  BY <1>4 DEF Held, Chained
<1>5. ASSUME live'[t].queue = q, file'[t] = f, Chained(t) PROVE Held(t, n)'
  BY <1>2, <1>3, <1>4, <1>5
<1>6. CASE Same(t)
  BY <1>5, <1>6 DEF Same
<1>7. ASSUME NEW m \in Messages, chain[m].session = t, ChainMoves(m) PROVE Held(t, n)'
  <2>1. CASE OnFile
    <3>1. Grown(f, file'[t])
      BY <1>7, FileGrows
    <3>2. Contains(file'[t], u)
      <4>1. CASE file'[t] = f
        BY <2>1, <4>1
      <4>2. ASSUME NEW e \in Entries, file'[t] = Append(f, e) PROVE Contains(file'[t], u)
        BY <1>0, <2>1, <4>2, GrownHas
      <4> QED
        BY <3>1, <4>1, <4>2 DEF Grown
    <3> QED
      BY <1>3, <3>2
  <2>2. CASE Contains(q, n)
    <3>1. CASE ~Takes(m)
      BY <1>3, <1>7, <2>2, <3>1, ChainViews
    <3>2. CASE Takes(m)
      <4>1. /\ q # <<>> /\ chain'[m].session = t /\ chain'[m].prompt = Head(q)
            /\ chain'[m].at = "prompting" /\ live'[t].queue = Tail(q)
        <5>1. /\ q # <<>> /\ chain'[m].session = t /\ chain'[m].prompt = Head(q)
              /\ chain'[m].at = "prompting"
          BY <1>7, <3>2, TakesStep, Zenon
        <5> QED
          BY <1>7, <3>2, <5>1, ChainViews
      <4>2. PICK i \in 1..Len(q) : q[i] = n
        BY <2>2 DEF Contains
      <4>3. CASE i = 1
        <5>1. Head(q) = n /\ m \in ChainsOf(t)'
          BY <1>0, <4>1, <4>2, <4>3 DEF ChainsOf
        <5> QED
          BY <4>1, <5>1 DEF Held
      <4>4. CASE i # 1
        <5>1. Len(Tail(q)) = Len(q) - 1 /\ \A j \in 1..(Len(q) - 1) : Tail(q)[j] = q[j + 1]
          BY <1>0, <4>1
        <5>2. i - 1 \in 1..(Len(q) - 1) /\ (i - 1) + 1 = i
          BY <1>0, <4>2, <4>4
        <5>3. Tail(q)[i - 1] = n
          BY <4>2, <5>1, <5>2
        <5>4. Contains(Tail(q), n)
          BY <5>1, <5>2, <5>3 DEF Contains
        <5> QED
          BY <1>3, <4>1, <5>4
      <4> QED
        BY <4>3, <4>4
    <3> QED
      BY <3>1, <3>2
  <2>3. CASE Prompted
    <3>1. PICK k \in ChainsOf(t) : chain[k].prompt = n /\ chain[k].at = "prompting"
      BY <2>3
    <3>2. KeptBy(m, t)
      BY <1>7, ChainMovesFacts
    <3>3. k = m
      BY <1>1, <3>2 DEF KeptBy
    <3>4. chain[m].prompt = n /\ chain[m].at = "prompting"
      BY <3>1, <3>3
    <3>5. CASE PromptStarts(m) \/ PromptFails(m)
      <4>1. Writes(t, Said("user", chain[m].prompt))
        BY <1>7, <3>5, PromptStartsStep, PromptFailsStep, Zenon
      <4>2. u \in Entries
        BY <3>4, ChainFacts, SaidIsTyped
      <4>3. file'[t] = Append(f, u)
        BY <3>4, <4>1 DEF Writes
      <4>4. Contains(file'[t], u)
        BY <1>0, <4>2, <4>3, GrownHas
      <4> QED
        BY <1>3, <4>4
    <3>6. CASE PromptRefused(m)
      <4>1. running[t]
        BY <1>7, <3>6 DEF PromptRefused
      <4>2. PICK r \in ChainsOf(t) : InRun(r)
        BY <4>1 DEF OneRun
      <4>3. r = m
        BY <1>1, <3>1, <3>3
      <4> QED
        BY <3>4, <4>2, <4>3 DEF InRun
    <3> QED
      BY <1>7, <3>4, <3>5, <3>6
         DEF ChainMoves, ChainSteps, SendBegins, SendFails, Replies, PromptReturns,
             PromptReturnsError, Written, ReportError, Takes, TakesNothing, Finish
  <2> QED
    BY <1>2, <2>1, <2>2, <2>3
<1>8. ASSUME NEW m \in Messages, Send(m), t = Active PROVE Held(t, n)'
  <2>1. live'[t].queue = q
    <3>1. live' = live \/ (Fresh(live[t]) /\ live'[t].queue = <<>>)
      BY <1>8, SendViews
    <3> QED
      BY <3>1 DEF Fresh
  <2>2. file' = file
    BY <1>8 DEF Send, agentVars
  <2>3. ASSUME Prompted PROVE Held(t, n)'
    BY <1>8, <2>3, SendIsNew DEF Held
  <2> QED
    BY <1>2, <1>3, <2>1, <2>2, <2>3
<1>9. CASE t = Active /\ Queue
  <2>1. /\ Sees(t, [live[t] EXCEPT !.queue = Append(q, typed + 1)]) /\ chain' = chain
        /\ UNCHANGED agentVars
    BY <1>9, QueueStep, Zenon
  <2>2. typed + 1 \in Nat
    BY DEF TabsTypes
  <2>3. Append(q, typed + 1) \in Seq(Nat)
    BY <1>0, <2>2
  <2> DEFINE v == [live[t] EXCEPT !.queue = Append(q, typed + 1)]
  <2>4. v.queue = Append(q, typed + 1)
    BY <1>0, <2>3, QueueType
  <2>5. live'[t].queue = Append(q, typed + 1)
    BY <2>1, <2>4 DEF Sees
  <2>6. Contains(q, n) => Contains(live'[t].queue, n)
    BY <1>0, <2>2, <2>5, GrownHas
  <2> QED
    BY <1>2, <1>3, <1>4, <2>1, <2>6, NoneIsChained DEF agentVars
<1>10. CASE t = Active /\ Steer
  <2>1. /\ Sees(t, [live[t] EXCEPT !.steering = Append(live[t].steering, typed + 1)])
        /\ chain' = chain /\ file' = file
    BY <1>10, SteerStep, Zenon
  <2>2. Append(live[t].steering, typed + 1) \in Seq(Nat)
    BY <1>0 DEF TabsTypes, ViewType
  <2> DEFINE v == [live[t] EXCEPT !.steering = Append(live[t].steering, typed + 1)]
  <2>3. v.queue = q
    BY <1>0, <2>2, SteeringType
  <2>4. live'[t].queue = q
    BY <2>1, <2>3 DEF Sees
  <2> QED
    BY <1>5, <2>1, <2>4, NoneIsChained
<1>11. CASE t = Active /\ Abort
  <2>1. accepted' = accepted \ ToSet(q) /\ UNCHANGED <<file, chain>>
    BY <1>11, AbortStep
  <2>2. ~Contains(q, n)
    <3>1. n \notin ToSet(q)
      BY <2>1
    <3> QED
      BY <3>1 DEF Contains, ToSet
  <2> QED
    BY <1>2, <1>3, <1>4, <2>1, <2>2, NoneIsChained
<1>12. CASE Subscribe(t)
  BY <1>5, <1>12, NoneIsChained DEF Subscribe, agentVars
<1>13. CASE Forward(t)
  <2>1. live'[t].queue = q
    BY <1>13, Forwarded DEF Applied
  <2> QED
    BY <1>5, <1>13, <2>1, NoneIsChained DEF Forward
<1>14. CASE Switch(t) \/ Starts(t)
  <2>1. live'[t].queue = q
    BY <1>14, OpenedViews DEF Fresh
  <2>2. chain' = chain
    BY <1>14 DEF Switch, Starts, Opens
  <2>3. CASE Switch(t)
    BY <1>5, <2>1, <2>2, <2>3, NoneIsChained DEF Switch, agentVars
  <2>4. CASE Starts(t)
    <3>1. phase[t] = "none" /\ t \notin Saved
      BY <2>4, OpenedViews DEF Starts, Opens
    <3>2. f = <<>>
      BY <3>1 DEF OnlyActive
    <3>3. ~OnFile
      BY <3>2 DEF Contains
    <3> QED
      BY <1>2, <1>3, <1>4, <2>1, <2>2, <3>3, NoneIsChained
  <2> QED
    BY <1>14, <2>3, <2>4
<1> QED
  BY <1>6, <1>7, <1>8, <1>9, <1>10, <1>11, <1>12, <1>13, <1>14, SameOrMoves DEF Moves, OfTheUser

LEMMA AllAccountedStep ==
  ASSUME TabsTypes, TabsOnce, \A s \in Sessions : OnlyActive(s), [Next]_vars,
         \A s \in Sessions : OneRun(s) /\ OneChain(s), AllAccounted
  PROVE  AllAccounted'
<1> SUFFICES ASSUME \A s \in Sessions : Spared(s, Unheard)', NEW n \in accepted'
             PROVE  \E s \in Sessions : Held(s, n)'
  BY DEF AllAccounted
<1>1. CASE n \in accepted
  <2>1. \A s \in Sessions : Spared(s, Unheard)
    BY SparedBefore
  <2>2. PICK s \in Sessions : Held(s, n)
    BY <1>1, <2>1 DEF AllAccounted
  <2>3. Held(s, n)'
    BY <2>2, HeldStep
  <2> QED
    BY <2>3
<1>2. CASE n \notin accepted
  <2>1. accepted' # accepted
    BY <1>2
  <2>2. CASE Queue
    <3> DEFINE s == Active
               q == live[s].queue
    <3>1. Sees(s, [live[s] EXCEPT !.queue = Append(q, typed + 1)])
            /\ accepted' = accepted \cup {typed + 1}
      BY <2>2, QueueStep, Zenon
    <3>2. typed + 1 \in Nat /\ s \in Sessions /\ live[s] \in ViewType /\ IsView(live[s]) /\ q \in Seq(Nat)
      <4>1. s \in Sessions /\ live[s] \in ViewType /\ IsView(live[s])
        BY ActiveFacts
      <4>2. typed + 1 \in Nat
        BY DEF TabsTypes
      <4> HIDE DEF s
      <4> QED
        BY <4>1, <4>2 DEF ViewType
    <3> HIDE DEF s
    <3>3. Append(q, typed + 1) \in Seq(Nat)
      BY <3>2
    <3> DEFINE v == [live[s] EXCEPT !.queue = Append(q, typed + 1)]
    <3>4. v.queue = Append(q, typed + 1)
      BY <3>2, <3>3, QueueType
    <3>5. live'[s].queue = Append(q, typed + 1) /\ n = typed + 1
      BY <1>2, <3>1, <3>4 DEF Sees
    <3>6. Contains(live'[s].queue, n)
      BY <3>2, <3>5, GrownHas
    <3> QED
      BY <3>2, <3>6 DEF Held
  <2>3. CASE Abort
    BY <1>2, <2>3 DEF Abort
  <2>4. CASE ~Queue /\ ~Abort
    <3>1. accepted' = accepted
      <4>1. ASSUME NEW m \in Messages, ChainMoves(m) PROVE accepted' = accepted
        BY <4>1, ChainMovesFacts DEF KeptBy
      <4>2. ASSUME NEW m \in Messages, Send(m) PROVE accepted' = accepted
        BY <4>2 DEF Send
      <4>3. CASE Steer
        BY <4>3 DEF Steer
      <4>4. ASSUME NEW s \in Sessions, Subscribe(s) \/ Forward(s) \/ Switch(s) \/ NewSession(s) \/ Fork(s)
            PROVE  accepted' = accepted
        BY <4>4 DEF Subscribe, Forward, Switch, NewSession, Fork, Opens
      <4>5. ASSUME NEW e \in emitting, Show(e) PROVE accepted' = accepted
        BY <4>5 DEF Show
      <4>6. CASE UNCHANGED vars
        BY <4>6 DEF vars
      <4> QED
        BY <2>4, <4>1, <4>2, <4>3, <4>4, <4>5, <4>6 DEF Next, ChainMoves
    <3> QED
      BY <2>1, <3>1
  <2> QED
    BY <2>2, <2>3, <2>4
<1> QED
  BY <1>1, <1>2

-----------------------------------------------------------------------------
(***************************************************************************)
(* What a tab shows and what a file holds, by the messages they are of.    *)
(***************************************************************************)
Heeded == {m \in SaidType : m.kind # "steer"}
OnRecord == {e \in Entries : IsMessage(e)}

LEMMA UnsteeredIs ==
  ASSUME NEW ms \in Seq(SaidType)
  PROVE  Unsteered(ms) = Kept(ms, Heeded) /\ Unsteered(ms) \in Seq(SaidType)
<1> DEFINE X == ToSet(ms)
           S == {m \in X : m.kind # "steer"}
<1>1. ms \in Seq(X) /\ X \subseteq SaidType
  BY OverItsElements DEF ToSet
<1>2. \A m \in X : m \in S <=> m \in Heeded
  BY <1>1 DEF Heeded
<1>3. Unsteered(ms) = Kept(ms, S)
  BY Zenon DEF Unsteered
<1> HIDE DEF X, S
<1>4. Kept(ms, S) = Kept(ms, Heeded)
  BY <1>1, <1>2, KeptAgree
<1>5. Kept(ms, Heeded) \in Seq(SaidType)
  BY KeptType
<1> QED
  BY <1>3, <1>4, <1>5

LEMMA UnsteeredConcat ==
  ASSUME NEW a \in Seq(SaidType), NEW b \in Seq(SaidType)
  PROVE  Unsteered(a \o b) = Unsteered(a) \o Unsteered(b)
<1>1. a \o b \in Seq(SaidType)
  BY ConcatProperties
<1>2. Kept(a \o b, Heeded) = Kept(a, Heeded) \o Kept(b, Heeded)
  BY KeptConcat
<1> QED
  BY <1>1, <1>2, UnsteeredIs

LEMMA UnsteeredAll ==
  ASSUME NEW ms \in Seq(SaidType), \A i \in 1..Len(ms) : ms[i].kind # "steer"
  PROVE  Unsteered(ms) = ms
<1>1. \A i \in 1..Len(ms) : ms[i] \in Heeded
  BY DEF Heeded
<1>2. ms \in Seq(Heeded)
  BY <1>1, OverItsElements
<1>3. Kept(ms, Heeded) = ms
  BY <1>2, KeptAll
<1> QED
  BY <1>3, UnsteeredIs

LEMMA LoadedIs ==
  ASSUME NEW f \in Seq(Entries)
  PROVE  Loaded(f) = Kept(f, OnRecord)
<1> DEFINE X == ToSet(f)
           S == {e \in X : IsMessage(e)}
<1>1. f \in Seq(X) /\ X \subseteq Entries
  BY OverItsElements DEF ToSet
<1>2. \A e \in X : e \in S <=> e \in OnRecord
  BY <1>1 DEF OnRecord
<1>3. Loaded(f) = Kept(f, S)
  BY Zenon DEF Loaded
<1> HIDE DEF X, S
<1> QED
  BY <1>1, <1>2, <1>3, KeptAgree

LEMMA LoadedAppend ==
  ASSUME NEW f \in Seq(Entries), NEW e \in Entries
  PROVE  Loaded(Append(f, e)) = IF IsMessage(e) THEN Append(Loaded(f), e) ELSE Loaded(f)
<1>1. Append(f, e) \in Seq(Entries)
  BY AppendProperties
<1>2. Kept(Append(f, e), OnRecord)
        = IF e \in OnRecord THEN Append(Kept(f, OnRecord), e) ELSE Kept(f, OnRecord)
  BY KeptAppend
<1>3. e \in OnRecord <=> IsMessage(e)
  BY DEF OnRecord
<1> QED
  BY <1>1, <1>2, <1>3, LoadedIs

LEMMA LoadedAll ==
  ASSUME NEW f \in Seq(SaidType), \A i \in 1..Len(f) : IsMessage(f[i])
  PROVE  Loaded(f) = f /\ Unsteered(f) = f
<1>1. \A i \in 1..Len(f) : f[i] \in SaidType /\ f[i] \in Entries /\ f[i] \in OnRecord
  BY DEF OnRecord, Entries
<1>2. f \in Seq(Entries) /\ f \in Seq(OnRecord)
  BY <1>1, OverItsElements
<1>3. Kept(f, OnRecord) = f
  BY <1>2, KeptAll
<1>4. \A i \in 1..Len(f) : f[i].kind # "steer"
  BY DEF IsMessage
<1>5. Unsteered(f) = f
  BY <1>4, UnsteeredAll
<1> QED
  BY <1>2, <1>3, <1>5, LoadedIs

LEMMA UnsteeredLoaded ==
  ASSUME NEW f \in Seq(Entries)
  PROVE  Unsteered(Loaded(f)) = Loaded(f)
<1>1. Loaded(f) \in Seq(SaidType) /\ \A i \in 1..Len(Loaded(f)) : IsMessage(Loaded(f)[i])
  BY LoadedType
<1>2. \A i \in 1..Len(Loaded(f)) : Loaded(f)[i].kind # "steer"
  BY <1>1 DEF IsMessage
<1> QED
  BY <1>1, <1>2, UnsteeredAll

LEMMA TurnUnsteered ==
  ASSUME NEW p \in Nat, NEW q \in Seq(Nat)
  PROVE  Unsteered(Turn(p, q)) = <<Said("user", p), Said("reply", p)>>
<1> DEFINE x == Said("user", p)
           y == Said("reply", p)
           u == [i \in 1..Len(q) |-> Said("steer", q[i])]
<1>1. x \in SaidType /\ y \in SaidType /\ x.kind = "user" /\ y.kind = "reply"
  BY SaidIsTyped
<1>2. \A i \in 1..Len(q) : Said("steer", q[i]) \in SaidType /\ Said("steer", q[i]).kind = "steer"
  <2>1. \A i \in 1..Len(q) : q[i] \in Nat
    OBVIOUS
  <2> QED
    BY <2>1, SaidIsTyped
<1> DEFINE Steers == {m \in SaidType : m.kind = "steer"}
<1>3. u \in Seq(Steers)
  BY <1>2
<1>4. Steers \cap Heeded = {} /\ Steers \subseteq SaidType
  BY DEF Heeded
<1> HIDE DEF Steers
<1>5. Kept(u, Heeded) = <<>>
  BY <1>3, <1>4, KeptNone
<1>6. u \in Seq(SaidType)
  BY <1>2
<1> HIDE DEF u
<1>7. Unsteered(u) = <<>>
  BY <1>5, <1>6, UnsteeredIs
<1>8. Turn(p, q) = <<x>> \o u \o <<y>>
  BY Zenon DEF Turn, u
<1> HIDE DEF x, y
<1>9. /\ <<x>> \in Seq(SaidType) /\ <<y>> \in Seq(SaidType)
      /\ Unsteered(<<x>>) = <<x>> /\ Unsteered(<<y>>) = <<y>>
  <2>1. ASSUME NEW z \in SaidType, z.kind # "steer" PROVE <<z>> \in Seq(SaidType) /\ Unsteered(<<z>>) = <<z>>
    <3>1. <<z>> \in Seq(SaidType) /\ \A i \in 1..Len(<<z>>) : <<z>>[i] = z
      OBVIOUS
    <3> QED
      BY <2>1, <3>1, UnsteeredAll
  <2> QED
    BY <1>1, <2>1
<1>10. Unsteered(<<x>> \o u) = <<x>> /\ <<x>> \o u \in Seq(SaidType)
  <2>1. Unsteered(<<x>> \o u) = <<x>> \o <<>>
    BY <1>6, <1>7, <1>9, UnsteeredConcat
  <2> QED
    BY <1>6, <1>9, <2>1, ConcatEmptySeq, ConcatProperties
<1>11. Unsteered(<<x>> \o u \o <<y>>) = <<x>> \o <<y>>
  BY <1>9, <1>10, UnsteeredConcat
<1>12. <<x>> \o <<y>> = <<x, y>>
  <2>1. Append(<<x>>, y) = <<x>> \o <<y>>
    BY <1>1, <1>9, AppendIsConcat DEF x, y
  <2> DEFINE a == Append(<<x>>, y)
  <2>2. a = <<x, y>>
    <3>1. Len(a) = 2 /\ a[1] = x /\ a[2] = y /\ a \in Seq({x, y})
      OBVIOUS
    <3> HIDE DEF a
    <3>2. a = [i \in 1..2 |-> a[i]]
      BY <3>1
    <3>3. <<x, y>> = [i \in 1..2 |-> <<x, y>>[i]]
      OBVIOUS
    <3> QED
      BY <3>1, <3>2, <3>3
  <2> QED
    BY <2>1, <2>2
<1> QED
  BY <1>8, <1>11, <1>12 DEF x, y

(***************************************************************************)
(* The texts of a tab, event by event: what shows the same tells the same; *)
(* an event more; the first event applied.                                 *)
(***************************************************************************)
LEMMA TellingSame ==
  ASSUME NEW v, NEW w, w.messages = v.messages, w.base = v.base, NEW c, NEW loop, NEW text,
         c # <<>> => w.at = v.at, c \in Seq(EventType), Telling(v, c, loop, text)
  PROVE  Telling(w, c, loop, text)
<1>1. PICK t \in [1..(Len(c) + 1) -> Seq(SaidType)] : Texts(t, v, c, loop) /\ t[Len(c) + 1] = text
  BY DEF Telling
<1>2. Len(c) > 0 => c # <<>>
  OBVIOUS
<1>3. Text(w, Rests(c, loop, 1)) = Text(v, Rests(c, loop, 1))
  BY Zenon DEF Text
<1>4. Texts(t, w, c, loop)
  BY <1>1, <1>2, <1>3 DEF Texts
<1> QED
  BY <1>1, <1>4 DEF Telling

LEMMA TellingOn ==
  ASSUME NEW v, NEW c \in Seq(EventType), NEW loop \in BOOLEAN, NEW text \in Seq(SaidType),
         NEW e \in EventType, Telling(v, c, loop, text),
         e.type = "start" <=> ~loop,
         e.type = "reply" => c # <<>> /\ c[Len(c)].type = "partial"
  PROVE  Telling(v, Append(c, e), e.type # "end",
                 IF e.type = "end" THEN text \o Unsteered(e.messages) ELSE text)
<1> DEFINE d == Append(c, e)
           N == Len(c)
           next == IF e.type = "end" THEN text \o Unsteered(e.messages) ELSE text
           on == e.type # "end"
<1>1. /\ N \in Nat /\ Len(d) = N + 1 /\ d[N + 1] = e
      /\ \A i \in 1..N : d[i] = c[i]
  OBVIOUS
<1>2. next \in Seq(SaidType)
  <2>1. e.messages \in Seq(SaidType)
    BY EventFacts
  <2> QED
    BY <2>1, UnsteeredIs, ConcatProperties
<1>3. PICK t \in [1..(N + 1) -> Seq(SaidType)] : Texts(t, v, c, loop) /\ t[N + 1] = text
  BY DEF Telling
<1> DEFINE u == [i \in 1..(N + 1 + 1) |-> IF i <= N + 1 THEN t[i] ELSE next]
<1>4. /\ u \in [1..(N + 1 + 1) -> Seq(SaidType)]
      /\ \A i \in 1..(N + 1) : u[i] = t[i]
      /\ u[N + 1 + 1] = next
  <2>1. \A i \in 1..(N + 1) : i \in 1..(N + 1 + 1) /\ i <= N + 1
    BY <1>1
  <2>2. N + 1 + 1 \in 1..(N + 1 + 1) /\ ~(N + 1 + 1 <= N + 1)
    BY <1>1
  <2>3. \A i \in 1..(N + 1 + 1) : (IF i <= N + 1 THEN t[i] ELSE next) \in Seq(SaidType)
    <3>1. \A i \in 1..(N + 1 + 1) : i <= N + 1 => i \in 1..(N + 1)
      BY <1>1
    <3> QED
      BY <1>2, <1>3, <3>1
  <2> HIDE DEF N, next
  <2> QED
    BY <2>1, <2>2, <2>3
<1> HIDE DEF d, next, u, on
<1>5. \A i \in 1..(N + 1) : Rests(d, on, i) <=> Rests(c, loop, i)
  <2>1. ASSUME NEW i \in 1..N PROVE Rests(d, on, i) <=> Rests(c, loop, i)
    BY <1>1 DEF Rests
  <2>2. Rests(d, on, N + 1) <=> Rests(c, loop, N + 1)
    BY <1>1 DEF Rests
  <2>3. \A i \in 1..(N + 1) : i \in 1..N \/ i = N + 1
    BY <1>1
  <2> QED
    BY <2>1, <2>2, <2>3
<1>6. u[1] = Text(v, Rests(d, on, 1))
  <2>1. 1 \in 1..(N + 1)
    BY <1>1
  <2>2. t[1] = Text(v, Rests(c, loop, 1))
    BY <1>3 DEF Texts
  <2>3. Text(v, Rests(d, on, 1)) = Text(v, Rests(c, loop, 1))
    BY <1>5, <2>1 DEF Text
  <2> QED
    BY <1>4, <2>1, <2>2, <2>3
<1>7. d[1].type = "reply" => v.at > v.base /\ v.at <= Len(v.messages)
  <2>1. CASE N = 0
    <3>1. c = <<>> /\ d[1] = e
      BY <1>1, <2>1
    <3> QED
      BY <3>1
  <2>2. CASE N # 0
    <3>1. N > 0 /\ d[1] = c[1]
      BY <1>1, <2>2
    <3> QED
      BY <1>3, <3>1 DEF Texts
  <2> QED
    BY <2>1, <2>2
<1>8. ASSUME NEW i \in 1..(N + 1)
      PROVE  /\ d[i].type = "end" => u[i + 1] = u[i] \o Unsteered(d[i].messages) /\ Rests(d, on, i + 1)
             /\ d[i].type # "end" => u[i + 1] = u[i] /\ ~Rests(d, on, i + 1)
             /\ i < N + 1 /\ d[i + 1].type = "reply" => d[i].type = "partial"
  <2>1. CASE i # N + 1
    <3>1. i \in 1..N /\ i \in 1..(N + 1) /\ i + 1 \in 1..(N + 1)
      BY <1>1, <2>1
    <3>2. d[i] = c[i] /\ u[i] = t[i] /\ u[i + 1] = t[i + 1]
            /\ (Rests(d, on, i + 1) <=> Rests(c, loop, i + 1))
      BY <1>1, <1>4, <1>5, <3>1
    <3>3. /\ c[i].type = "end" => t[i + 1] = t[i] \o Unsteered(c[i].messages) /\ Rests(c, loop, i + 1)
          /\ c[i].type # "end" => t[i + 1] = t[i] /\ ~Rests(c, loop, i + 1)
          /\ i < N /\ c[i + 1].type = "reply" => c[i].type = "partial"
      BY <1>3, <3>1 DEF Texts
    <3>4. d[i + 1].type = "reply" => d[i].type = "partial"
      <4>1. CASE i < N
        <5>1. i + 1 \in 1..N
          BY <1>1, <3>1, <4>1
        <5> QED
          BY <1>1, <3>2, <3>3, <4>1, <5>1
      <4>2. CASE i = N
        <5>1. d[i + 1] = e
          BY <1>1, <4>2
        <5> QED
          BY <3>2, <4>2, <5>1
      <4> QED
        BY <1>1, <3>1, <4>1, <4>2
    <3> QED
      BY <3>2, <3>3, <3>4
  <2>2. CASE i = N + 1
    <3>1. d[i] = e /\ u[i] = text /\ u[i + 1] = next /\ ~(i < N + 1)
      BY <1>1, <1>3, <1>4, <2>2
    <3>2. Rests(d, on, i + 1) <=> ~on
      <4>1. ~(i + 1 <= Len(d))
        BY <1>1, <2>2
      <4> QED
        BY <4>1 DEF Rests
    <3> QED
      BY <3>1, <3>2 DEF next, on
  <2> QED
    BY <2>1, <2>2
<1>9. Texts(u, v, d, on)
  BY <1>1, <1>6, <1>7, <1>8 DEF Texts
<1>10. Telling(v, d, on, next)
  BY <1>1, <1>4, <1>9 DEF Telling
<1> QED
  BY <1>10 DEF d, on, next

\* A start, and an answer with what was steered before it.
LEMMA StartIsTold ==
  ASSUME NEW v, NEW c \in Seq(EventType), NEW text \in Seq(SaidType), NEW e \in EventType,
         e.type = "start", Telling(v, c, FALSE, text)
  PROVE  Telling(v, c \o <<e>>, TRUE, text)
<1>1. Telling(v, Append(c, e), TRUE, text)
  <2>1. Telling(v, Append(c, e), e.type # "end",
                IF e.type = "end" THEN text \o Unsteered(e.messages) ELSE text)
    BY TellingOn
  <2> QED
    BY <2>1
<1>2. Append(c, e) = c \o <<e>>
  BY AppendIsConcat
<1> QED
  BY <1>1, <1>2

LEMMA SteeredIsTold ==
  ASSUME NEW v, NEW c \in Seq(EventType), NEW text \in Seq(SaidType), Telling(v, c, TRUE, text)
  PROVE  \A u \in Seq({e \in EventType : e.type = "user"}) : Telling(v, c \o u, TRUE, text)
<1> DEFINE Steers == {e \in EventType : e.type = "user"}
           P == {u \in Seq(Steers) : Telling(v, c \o u, TRUE, text)}
<1>1. Steers \subseteq EventType /\ P \subseteq Seq(Steers)
  OBVIOUS
<1>2. <<>> \in P
  <2>1. c \o <<>> = c
    BY ConcatEmptySeq
  <2>2. <<>> \in Seq(Steers)
    BY EmptySeq
  <2> HIDE DEF Steers
  <2> QED
    BY <2>1, <2>2
<1>3. ASSUME NEW u \in P, NEW e \in Steers PROVE Append(u, e) \in P
  <2>1. u \in Seq(Steers) /\ e \in EventType /\ e.type = "user" /\ Telling(v, c \o u, TRUE, text)
    OBVIOUS
  <2>2. u \in Seq(EventType) /\ Append(u, e) \in Seq(Steers)
    <3> HIDE DEF Steers
    <3> QED
      BY <1>1, <2>1, SeqMonotonic, AppendProperties
  <2>3. c \o u \in Seq(EventType)
    BY <2>2, ConcatProperties
  <2>4. Telling(v, Append(c \o u, e), e.type # "end",
                IF e.type = "end" THEN text \o Unsteered(e.messages) ELSE text)
    BY <2>1, <2>3, TellingOn
  <2>5. Append(c \o u, e) = c \o Append(u, e)
    <3>1. \A a, b \in Seq(EventType), x \in EventType : PutBehind(a, b, x)
      BY AppendToConcat
    <3>2. PutBehind(c, u, e)
      BY <2>1, <2>2, <3>1
    <3> QED
      BY <3>2 DEF PutBehind
  <2>6. Telling(v, c \o Append(u, e), TRUE, text)
    BY <2>1, <2>4, <2>5
  <2> QED
    BY <2>2, <2>6
<1> HIDE DEF Steers, P
<1>4. P = Seq(Steers)
  BY <1>1, <1>2, <1>3, SequenceInduction
<1> QED
  BY <1>4 DEF P, Steers

LEMMA AnswerIsTold ==
  ASSUME NEW v, NEW c \in Seq(EventType), NEW text \in Seq(SaidType), NEW p \in Nat,
         NEW q \in Seq(Nat), Telling(v, c, TRUE, text)
  PROVE  Telling(v, c \o Answer(p, q), FALSE,
                 Append(Append(text, Said("user", p)), Said("reply", p)))
<1> DEFINE x == Event("partial", <<Said("partial", p)>>)
           y == Event("reply", <<Said("reply", p)>>)
           z == Event("end", Turn(p, q))
           u == [i \in 1..Len(q) |-> Event("user", <<Said("steer", q[i])>>)]
           a == Answer(p, q)
           n == Len(q)
           Steers == {e \in EventType : e.type = "user"}
<1>1. /\ a \in Seq(EventType) /\ Len(a) = n + 3
      /\ \A i \in 1..n : a[i] = Event("user", <<Said("steer", q[i])>>)
      /\ a[n + 1] = x /\ a[n + 2] = y /\ a[n + 3] = z
  BY AnswerType
<1>2. n \in Nat /\ \A i \in 1..n : i \in 1..(n + 3)
  <2>1. n \in Nat
    OBVIOUS
  <2> QED
    BY <2>1
<1>3. \A i \in 1..n : a[i] \in Steers
  <2>1. ASSUME NEW i \in 1..n PROVE a[i] \in EventType /\ a[i].type = "user"
    <3>1. a[i] = Event("user", <<Said("steer", q[i])>>)
      BY <1>1
    <3>2. a[i] \in EventType
      <4> HIDE DEF a
      <4> QED
        BY <1>1, <1>2
    <3> QED
      BY <3>1, <3>2 DEF Event
  <2> QED
    BY <2>1
<1>4. u \in Seq(Steers) /\ Len(u) = n /\ \A i \in 1..n : u[i] = a[i]
  <2>1. \A i \in 1..n : u[i] = a[i]
    <3> HIDE DEF a
    <3> QED
      BY <1>1
  <2>2. \A i \in 1..n : Event("user", <<Said("steer", q[i])>>) \in Steers
    BY <1>1, <1>3
  <2> HIDE DEF Steers
  <2>3. u \in Seq(Steers) /\ Len(u) = n
    BY <1>2, <2>2
  <2> QED
    BY <2>1, <2>3
<1>5. /\ x \in EventType /\ y \in EventType /\ z \in EventType
      /\ x.type = "partial" /\ y.type = "reply" /\ z.type = "end" /\ z.messages = Turn(p, q)
  <2>1. n + 1 \in 1..(n + 3) /\ n + 2 \in 1..(n + 3) /\ n + 3 \in 1..(n + 3)
    BY <1>2
  <2>2. x \in EventType /\ y \in EventType /\ z \in EventType
    <3> HIDE DEF a, n
    <3> QED
      BY <1>1, <2>1
  <2> QED
    BY <2>2 DEF Event
<1> HIDE DEF x, y, z, u, a, Steers
<1> DEFINE d1 == c \o u
           d2 == Append(d1, x)
           d3 == Append(d2, y)
           d4 == Append(d3, z)
<1>6. Telling(v, d1, TRUE, text) /\ u \in Seq(EventType) /\ d1 \in Seq(EventType)
  <2>1. Steers \subseteq EventType
    BY DEF Steers
  <2>2. u \in Seq(EventType)
    BY <1>4, <2>1, SeqMonotonic
  <2>3. Telling(v, c \o u, TRUE, text)
    BY <1>4, SteeredIsTold DEF Steers
  <2> QED
    BY <2>2, <2>3, ConcatProperties
<1> HIDE DEF d1
<1>7. d2 \in Seq(EventType) /\ d2 # <<>> /\ d2[Len(d2)] = x
  <2>1. /\ d2 \in Seq(EventType) /\ d2 # <<>> /\ Len(d2) = Len(d1) + 1
        /\ d2[Len(d1) + 1] = x
    BY <1>5, <1>6, AppendProperties
  <2> HIDE DEF d2
  <2> QED
    BY <2>1
<1>8. Telling(v, d2, TRUE, text)
  <2>1. Telling(v, d2, x.type # "end", IF x.type = "end" THEN text \o Unsteered(x.messages) ELSE text)
    BY <1>5, <1>6, TellingOn
  <2> QED
    BY <1>5, <2>1
<1> HIDE DEF d2
<1>9. Telling(v, d3, TRUE, text) /\ d3 \in Seq(EventType)
  <2>1. Telling(v, d3, y.type # "end", IF y.type = "end" THEN text \o Unsteered(y.messages) ELSE text)
    BY <1>5, <1>7, <1>8, TellingOn
  <2>2. d3 \in Seq(EventType)
    BY <1>5, <1>7, AppendProperties
  <2> QED
    BY <1>5, <2>1, <2>2
<1> HIDE DEF d3
<1>10. Telling(v, d4, FALSE, text \o Unsteered(Turn(p, q)))
  <2>1. Telling(v, d4, z.type # "end", IF z.type = "end" THEN text \o Unsteered(z.messages) ELSE text)
    BY <1>5, <1>9, TellingOn
  <2> QED
    BY <1>5, <2>1
<1>11. text \o Unsteered(Turn(p, q)) = Append(Append(text, Said("user", p)), Said("reply", p))
  <2> DEFINE r == Said("user", p)
             s == Said("reply", p)
  <2>1. r \in SaidType /\ s \in SaidType /\ Unsteered(Turn(p, q)) = <<r, s>>
    BY SaidIsTyped, TurnUnsteered
  <2> HIDE DEF r, s
  <2>2. /\ text \o <<r, s>> \in Seq(SaidType) /\ Append(Append(text, r), s) \in Seq(SaidType)
        /\ Len(text \o <<r, s>>) = Len(text) + 2 /\ Len(Append(Append(text, r), s)) = Len(text) + 2
        /\ \A i \in 1..(Len(text) + 2) : (text \o <<r, s>>)[i] = Append(Append(text, r), s)[i]
    <3>1. <<r, s>> \in Seq(SaidType) /\ Len(<<r, s>>) = 2 /\ <<r, s>>[1] = r /\ <<r, s>>[2] = s
      BY <2>1
    <3>2. /\ text \o <<r, s>> \in Seq(SaidType) /\ Len(text \o <<r, s>>) = Len(text) + 2
          /\ \A i \in 1..(Len(text) + 2) :
               (text \o <<r, s>>)[i] = IF i <= Len(text) THEN text[i] ELSE <<r, s>>[i - Len(text)]
      BY <3>1, ConcatProperties
    <3>3. /\ Append(Append(text, r), s) \in Seq(SaidType)
          /\ Len(Append(Append(text, r), s)) = Len(text) + 2
          /\ \A i \in 1..Len(text) : Append(Append(text, r), s)[i] = text[i]
          /\ Append(Append(text, r), s)[Len(text) + 1] = r
          /\ Append(Append(text, r), s)[Len(text) + 2] = s
      BY <2>1
    <3>4. ASSUME NEW i \in 1..(Len(text) + 2)
          PROVE  (text \o <<r, s>>)[i] = Append(Append(text, r), s)[i]
      <4>1. \/ i <= Len(text) /\ i \in 1..Len(text)
            \/ i = Len(text) + 1 /\ i - Len(text) = 1 /\ ~(i <= Len(text))
            \/ i = Len(text) + 2 /\ i - Len(text) = 2 /\ ~(i <= Len(text))
        OBVIOUS
      <4>2. (text \o <<r, s>>)[i] = IF i <= Len(text) THEN text[i] ELSE <<r, s>>[i - Len(text)]
        BY <3>2
      <4> QED
        BY <3>1, <3>3, <4>1, <4>2
    <3> QED
      BY <3>2, <3>3, <3>4
  <2>3. text \o <<r, s>> = Append(Append(text, r), s)
    <3> DEFINE g == text \o <<r, s>>
               h == Append(Append(text, r), s)
    <3>1. g \in Seq(SaidType) /\ h \in Seq(SaidType) /\ Len(g) = Len(h)
            /\ \A i \in 1..Len(g) : g[i] = h[i]
      BY <2>2
    <3> HIDE DEF g, h
    <3>2. g = h
      BY <3>1, SeqEqual
    <3> QED
      BY <3>2 DEF g, h
  <2> QED
    BY <2>1, <2>3 DEF r, s
<1>12. d4 = c \o a
  <2>1. /\ Len(d4) = Len(c) + (n + 3) /\ d4 \in Seq(EventType) /\ Len(c) \in Nat
        /\ \A i \in 1..Len(c) : d4[i] = c[i]
        /\ \A i \in 1..n : d4[Len(c) + i] = a[i]
        /\ d4[Len(c) + (n + 1)] = x /\ d4[Len(c) + (n + 2)] = y /\ d4[Len(c) + (n + 3)] = z
    <3>1. /\ Len(d1) = Len(c) + n /\ Len(c) \in Nat /\ d1 \in Seq(EventType)
          /\ \A i \in 1..(Len(c) + n) : d1[i] = IF i <= Len(c) THEN c[i] ELSE u[i - Len(c)]
      <4>1. /\ c \o u \in Seq(EventType) /\ Len(c \o u) = Len(c) + Len(u)
            /\ \A i \in 1..(Len(c) + Len(u)) :
                 (c \o u)[i] = IF i <= Len(c) THEN c[i] ELSE u[i - Len(c)]
        BY <1>6, ConcatProperties
      <4>2. Len(c) \in Nat /\ Len(u) = n
        BY <1>4
      <4> QED
        BY <4>1, <4>2, Zenon DEF d1
    <3>2. \A i \in 1..Len(c) : d1[i] = c[i]
      BY <1>2, <3>1
    <3>3. ASSUME NEW i \in 1..n PROVE d1[Len(c) + i] = a[i]
      <4> DEFINE j == Len(c) + i
      <4>1. j \in 1..(Len(c) + n) /\ ~(j <= Len(c)) /\ j - Len(c) = i
        BY <1>2, <3>1
      <4> HIDE DEF j
      <4>2. d1[j] = u[i]
        BY <3>1, <4>1
      <4> QED
        BY <1>4, <4>2 DEF j
    <3>4. /\ Len(d2) = Len(d1) + 1 /\ d2[Len(d1) + 1] = x /\ d2 \in Seq(EventType)
          /\ \A i \in 1..Len(d1) : d2[i] = d1[i]
      BY <1>5, <1>6, AppendProperties DEF d2
    <3>5. /\ Len(d3) = Len(d2) + 1 /\ d3[Len(d2) + 1] = y /\ d3 \in Seq(EventType)
          /\ \A i \in 1..Len(d2) : d3[i] = d2[i]
      BY <1>5, <3>4 DEF d3
    <3>6. /\ Len(d4) = Len(d3) + 1 /\ d4[Len(d3) + 1] = z /\ d4 \in Seq(EventType)
          /\ \A i \in 1..Len(d3) : d4[i] = d3[i]
      BY <1>5, <3>5
    <3> HIDE DEF d4, n
    <3>7. /\ Len(d2) = Len(c) + (n + 1) /\ Len(d3) = Len(c) + (n + 2) /\ Len(d4) = Len(c) + (n + 3)
          /\ Len(d1) + 1 = Len(c) + (n + 1) /\ Len(d2) + 1 = Len(c) + (n + 2)
          /\ Len(d3) + 1 = Len(c) + (n + 3)
      BY <1>2, <3>1, <3>4, <3>5, <3>6
    <3>8. /\ Len(c) + (n + 1) \in 1..Len(d2) /\ Len(c) + (n + 1) \in 1..Len(d3)
          /\ Len(c) + (n + 2) \in 1..Len(d3)
          /\ \A i \in 1..Len(d1) : i \in 1..Len(d2) /\ i \in 1..Len(d3)
          /\ \A i \in 1..Len(c) : i \in 1..Len(d1)
          /\ \A i \in 1..n : Len(c) + i \in 1..Len(d1)
      BY <1>2, <3>1, <3>7
    <3>9. \A i \in 1..Len(d1) : d4[i] = d1[i]
      BY <3>4, <3>5, <3>6, <3>8
    <3>10. d4[Len(c) + (n + 1)] = x /\ d4[Len(c) + (n + 2)] = y /\ d4[Len(c) + (n + 3)] = z
      BY <3>4, <3>5, <3>6, <3>7, <3>8
    <3> QED
      BY <3>1, <3>2, <3>3, <3>6, <3>7, <3>8, <3>9, <3>10
  <2> HIDE DEF d4
  <2> DEFINE e == c \o a
  <2>2. /\ e \in Seq(EventType) /\ Len(e) = Len(c) + (n + 3)
        /\ \A i \in 1..(Len(c) + (n + 3)) : e[i] = IF i <= Len(c) THEN c[i] ELSE a[i - Len(c)]
    <3>1. /\ e \in Seq(EventType) /\ Len(e) = Len(c) + Len(a)
          /\ \A i \in 1..(Len(c) + Len(a)) : e[i] = IF i <= Len(c) THEN c[i] ELSE a[i - Len(c)]
      BY <1>1, ConcatProperties
    <3> HIDE DEF e, n
    <3> QED
      BY <1>1, <3>1, Zenon
  <2> HIDE DEF e, n
  <2>3. ASSUME NEW i \in 1..(Len(c) + (n + 3)) PROVE d4[i] = e[i]
    <3>1. CASE i <= Len(c)
      <4>1. i \in 1..Len(c)
        BY <1>2, <2>1, <3>1
      <4> QED
        BY <2>1, <2>2, <3>1, <4>1
    <3>2. CASE ~(i <= Len(c))
      <4> DEFINE k == i - Len(c)
      <4>1. k \in 1..(n + 3) /\ i = Len(c) + k
        BY <1>2, <2>1, <3>2
      <4>2. e[i] = a[k]
        BY <2>2, <3>2
      <4> HIDE DEF k
      <4>3. k \in 1..n \/ k = n + 1 \/ k = n + 2 \/ k = n + 3
        BY <1>2, <4>1
      <4>4. d4[Len(c) + k] = a[k]
        BY <1>1, <2>1, <4>3
      <4> QED
        BY <4>1, <4>2, <4>4
    <3> QED
      BY <3>1, <3>2
  <2>4. d4 = e
    BY <2>1, <2>2, <2>3, SeqEqual
  <2> QED
    BY <2>4 DEF e
<1> QED
  BY <1>10, <1>11, <1>12 DEF a

LEMMA SameBeginning ==
  ASSUME NEW a \in Seq(SaidType), NEW b \in Seq(SaidType), NEW k \in Nat, k <= Len(a), k <= Len(b),
         \A i \in 1..k : a[i] = b[i]
  PROVE  SubSeq(a, 1, k) = SubSeq(b, 1, k) /\ SubSeq(a, 1, k) \in Seq(SaidType)
<1>1. /\ SubSeq(a, 1, k) \in Seq(SaidType) /\ Len(SubSeq(a, 1, k)) = k
      /\ \A i \in 1..k : SubSeq(a, 1, k)[i] = a[i]
  OBVIOUS
<1>2. /\ SubSeq(b, 1, k) \in Seq(SaidType) /\ Len(SubSeq(b, 1, k)) = k
      /\ \A i \in 1..k : SubSeq(b, 1, k)[i] = b[i]
  OBVIOUS
<1>3. \A i \in 1..k : SubSeq(a, 1, k)[i] = SubSeq(b, 1, k)[i]
  BY <1>1, <1>2
<1> QED
  BY <1>1, <1>2, <1>3, SeqEqual

LEMMA WholeBeginning ==
  ASSUME NEW a \in Seq(SaidType)
  PROVE  SubSeq(a, 1, Len(a)) = a
<1>1. /\ SubSeq(a, 1, Len(a)) \in Seq(SaidType) /\ Len(SubSeq(a, 1, Len(a))) = Len(a)
      /\ \A i \in 1..Len(a) : SubSeq(a, 1, Len(a))[i] = a[i]
  OBVIOUS
<1> QED
  BY <1>1, SeqEqual

\* What an event makes of the text of a view.
LEMMA TextApplied ==
  ASSUME NEW v, NEW w, NEW e, IsView(v), Applied(v, w, e),
         e.type = "reply" => v.at > v.base /\ v.at <= Len(v.messages)
  PROVE  /\ Text(w, e.type = "end") = IF e.type = "end" THEN Text(v, FALSE) \o Unsteered(e.messages)
                                      ELSE Text(v, e.type = "start")
         /\ e.type = "partial" => w.at > w.base /\ w.at <= Len(w.messages)
<1> DEFINE ms == v.messages
           k == v.base
           m == e.messages[1]
<1>1. ms \in Seq(SaidType) /\ k \in Nat /\ k <= Len(ms) /\ v.at \in Nat /\ Len(ms) \in Nat
  BY DEF IsView, ViewType
<1>2. e.type \in {"start", "user", "partial", "reply", "end"} /\ e.messages \in Seq(SaidType)
  BY DEF Applied
<1>3. CASE e.type \in {"start", "user", "partial"}
  <2>1. w.messages = Append(ms, m) /\ m \in SaidType
    BY <1>3 DEF Applied
  <2> HIDE DEF ms, m
  <2>2. /\ w.messages \in Seq(SaidType) /\ Len(w.messages) = Len(ms) + 1
        /\ \A i \in 1..Len(ms) : w.messages[i] = ms[i]
    BY <1>1, <2>1
  <2>3. \A j \in 0..Len(ms) : SubSeq(w.messages, 1, j) = SubSeq(ms, 1, j)
    <3> SUFFICES ASSUME NEW j \in 0..Len(ms) PROVE SubSeq(w.messages, 1, j) = SubSeq(ms, 1, j)
      OBVIOUS
    <3>1. j \in Nat /\ j <= Len(ms) /\ j <= Len(w.messages) /\ \A i \in 1..j : w.messages[i] = ms[i]
      BY <1>1, <2>2
    <3> QED
      BY <1>1, <2>2, <3>1, SameBeginning
  <2>4. CASE e.type = "start"
    <3>1. w.base = Len(ms)
      BY <2>4 DEF Applied, ms
    <3>2. SubSeq(w.messages, 1, w.base) = ms
      BY <1>1, <2>3, <3>1, WholeBeginning
    <3>3. Text(w, FALSE) = Unsteered(SubSeq(w.messages, 1, w.base)) /\ Text(v, TRUE) = Unsteered(ms)
      BY DEF Text, ms
    <3>4. Text(w, FALSE) = Text(v, TRUE)
      BY <3>2, <3>3, Zenon
    <3> QED
      BY <2>4, <3>4
  <2>5. CASE e.type \in {"user", "partial"}
    <3>1. w.base = k
      BY <2>5 DEF Applied, SameRun
    <3>2. SubSeq(w.messages, 1, w.base) = SubSeq(ms, 1, k)
      BY <1>1, <2>3, <3>1
    <3>3. Text(w, FALSE) = Unsteered(SubSeq(w.messages, 1, w.base))
            /\ Text(v, FALSE) = Unsteered(SubSeq(ms, 1, k))
      BY DEF Text, ms
    <3>4. Text(w, FALSE) = Text(v, FALSE)
      BY <3>2, <3>3, Zenon
    <3>5. e.type = "partial" => w.at = Len(ms) + 1
      BY DEF Applied, IsAssistant, ms
    <3>6. w.at = Len(ms) + 1 => w.at > w.base /\ w.at <= Len(w.messages)
      BY <1>1, <2>2, <3>1
    <3>7. Text(w, e.type = "end") = Text(w, FALSE) /\ Text(v, e.type = "start") = Text(v, FALSE)
      BY <2>5 DEF Text
    <3> QED
      BY <2>5, <3>4, <3>5, <3>6, <3>7
  <2> QED
    BY <1>3, <2>4, <2>5
<1>4. CASE e.type = "reply"
  <2>1. PlaceOf(v) = v.at /\ v.at # 0 /\ v.at \in 1..Len(ms) /\ v.at > k
    BY <1>1, <1>4 DEF PlaceOf
  <2>2. w.messages = [ms EXCEPT ![v.at] = m] /\ w.base = k /\ m \in SaidType
    BY <1>4, <2>1 DEF Applied, SameRun
  <2> HIDE DEF ms, m
  <2>3. w.messages \in Seq(SaidType) /\ Len(w.messages) = Len(ms)
    BY <1>1, <2>1, <2>2, ExceptSeq
  <2>4. \A i \in 1..k : w.messages[i] = ms[i]
    BY <1>1, <2>1, <2>2
  <2>5. SubSeq(w.messages, 1, k) = SubSeq(ms, 1, k)
    BY <1>1, <2>3, <2>4, SameBeginning
  <2>6. Text(w, FALSE) = Unsteered(SubSeq(w.messages, 1, w.base))
          /\ Text(v, FALSE) = Unsteered(SubSeq(ms, 1, k))
    BY DEF Text, ms
  <2>7. Text(w, FALSE) = Text(v, FALSE)
    BY <2>2, <2>5, <2>6, Zenon
  <2> QED
    BY <1>4, <2>7
<1>5. CASE e.type = "end"
  <2> DEFINE a == SubSeq(ms, 1, k)
  <2>1. w.messages = a \o e.messages
    BY <1>5 DEF Applied
  <2>2. a \in Seq(SaidType)
    BY <1>1, SameBeginning
  <2>3. Text(w, TRUE) = Unsteered(w.messages) /\ Text(v, FALSE) = Unsteered(a)
    BY DEF Text
  <2> HIDE DEF a
  <2>4. Unsteered(a \o e.messages) = Unsteered(a) \o Unsteered(e.messages)
    BY <1>2, <2>2, UnsteeredConcat
  <2>5. Text(w, TRUE) = Text(v, FALSE) \o Unsteered(e.messages)
    BY <2>1, <2>3, <2>4, Zenon
  <2> QED
    BY <1>5, <2>5
<1> QED
  BY <1>2, <1>3, <1>4, <1>5

\* The first event applied.
LEMMA ForwardIsTold ==
  ASSUME NEW v, NEW w, NEW c \in Seq(EventType), NEW loop \in BOOLEAN, NEW text,
         c # <<>>, IsView(v), Applied(v, w, Head(c)), Telling(v, c, loop, text)
  PROVE  Telling(w, Tail(c), loop, text)
<1> DEFINE d == Tail(c)
           N == Len(d)
           e == Head(c)
<1>1. /\ Len(c) = N + 1 /\ N \in Nat /\ e = c[1] /\ d \in Seq(EventType)
      /\ \A i \in 1..N : d[i] = c[i + 1]
  OBVIOUS
<1>2. PICK t \in [1..(N + 1 + 1) -> Seq(SaidType)] : Texts(t, v, c, loop) /\ t[N + 1 + 1] = text
  BY <1>1 DEF Telling
<1> HIDE DEF d, e, N
<1> DEFINE u == [i \in 1..(N + 1) |-> t[i + 1]]
<1>3. /\ u \in [1..(N + 1) -> Seq(SaidType)] /\ \A i \in 1..(N + 1) : u[i] = t[i + 1]
      /\ u[N + 1] = text
  <2>1. \A i \in 1..(N + 1) : i + 1 \in 1..(N + 1 + 1)
    BY <1>1
  <2> QED
    BY <1>1, <1>2, <2>1
<1> HIDE DEF u
<1>4. ASSUME NEW i \in 1..(N + 1) PROVE Rests(d, loop, i) <=> Rests(c, loop, i + 1)
  <2>1. i <= N <=> i + 1 <= N + 1
    BY <1>1
  <2>2. i <= N => d[i] = c[i + 1]
    BY <1>1
  <2> QED
    BY <1>1, <2>1, <2>2 DEF Rests, N
<1>5. /\ t[1] = Text(v, Rests(c, loop, 1))
      /\ c[1].type = "reply" => v.at > v.base /\ v.at <= Len(v.messages)
      /\ \A i \in 1..(N + 1) :
           /\ c[i].type = "end" => t[i + 1] = t[i] \o Unsteered(c[i].messages) /\ Rests(c, loop, i + 1)
           /\ c[i].type # "end" => t[i + 1] = t[i] /\ ~Rests(c, loop, i + 1)
           /\ i < N + 1 /\ c[i + 1].type = "reply" => c[i].type = "partial"
  <2>1. Len(c) = N + 1 /\ N + 1 > 0
    BY <1>1
  <2>2. /\ t[1] = Text(v, Rests(c, loop, 1))
        /\ Len(c) > 0 /\ c[1].type = "reply" => v.at > v.base /\ v.at <= Len(v.messages)
        /\ \A i \in 1..Len(c) :
             /\ c[i].type = "end" => t[i + 1] = t[i] \o Unsteered(c[i].messages)
                                       /\ Rests(c, loop, i + 1)
             /\ c[i].type # "end" => t[i + 1] = t[i] /\ ~Rests(c, loop, i + 1)
             /\ i < Len(c) /\ c[i + 1].type = "reply" => c[i].type = "partial"
    BY <1>2, Zenon DEF Texts
  <2> QED
    BY <2>1, <2>2
<1>6. Rests(c, loop, 1) <=> e.type = "start"
  BY <1>1 DEF Rests
<1>7. /\ Text(w, e.type = "end") = IF e.type = "end" THEN Text(v, FALSE) \o Unsteered(e.messages)
                                   ELSE Text(v, e.type = "start")
      /\ e.type = "partial" => w.at > w.base /\ w.at <= Len(w.messages)
  <2>1. Applied(v, w, e) /\ (e.type = "reply" => v.at > v.base /\ v.at <= Len(v.messages))
    BY <1>1, <1>5 DEF e
  <2> QED
    BY <2>1, TextApplied
<1>8. 1 \in 1..(N + 1) /\ 1 + 1 = 2
  BY <1>1
<1>9. u[1] = Text(w, Rests(d, loop, 1))
  <2>1. u[1] = t[1 + 1] /\ (Rests(d, loop, 1) <=> Rests(c, loop, 1 + 1))
    BY <1>3, <1>4, <1>8
  <2>2. CASE e.type = "end"
    <3>1. t[1 + 1] = t[1] \o Unsteered(e.messages) /\ Rests(c, loop, 1 + 1)
      BY <1>1, <1>5, <1>8, <2>2
    <3>2. t[1] = Text(v, FALSE) /\ Text(w, TRUE) = Text(v, FALSE) \o Unsteered(e.messages)
      BY <1>5, <1>6, <1>7, <2>2 DEF Text
    <3>3. Text(w, Rests(d, loop, 1)) = Text(w, TRUE)
      BY <2>1, <3>1 DEF Text
    <3> QED
      BY <2>1, <3>1, <3>2, <3>3
  <2>3. CASE e.type # "end"
    <3>1. t[1 + 1] = t[1] /\ ~Rests(c, loop, 1 + 1)
      BY <1>1, <1>5, <1>8, <2>3
    <3>2. t[1] = Text(v, e.type = "start") /\ Text(w, FALSE) = Text(v, e.type = "start")
      BY <1>5, <1>6, <1>7, <2>3 DEF Text
    <3>3. Text(w, Rests(d, loop, 1)) = Text(w, FALSE)
      BY <2>1, <3>1 DEF Text
    <3> QED
      BY <2>1, <3>1, <3>2, <3>3
  <2> QED
    BY <2>2, <2>3
<1>10. N > 0 /\ d[1].type = "reply" => w.at > w.base /\ w.at <= Len(w.messages)
  <2> SUFFICES ASSUME N > 0, d[1].type = "reply" PROVE e.type = "partial"
    BY <1>7
  <2>1. 1 \in 1..N /\ 1 < N + 1
    BY <1>1
  <2>2. d[1] = c[1 + 1]
    BY <1>1, <2>1
  <2> QED
    BY <1>1, <1>5, <1>8, <2>1, <2>2
<1>11. ASSUME NEW i \in 1..N
       PROVE  /\ d[i].type = "end" => u[i + 1] = u[i] \o Unsteered(d[i].messages)
                                        /\ Rests(d, loop, i + 1)
              /\ d[i].type # "end" => u[i + 1] = u[i] /\ ~Rests(d, loop, i + 1)
              /\ i < N /\ d[i + 1].type = "reply" => d[i].type = "partial"
  <2> DEFINE j == i + 1
  <2>1. j \in 1..(N + 1) /\ i \in 1..(N + 1) /\ (i < N => j \in 1..N /\ j < N + 1)
    BY <1>1
  <2>2. d[i] = c[j] /\ u[i] = t[j] /\ u[j] = t[j + 1]
          /\ (Rests(d, loop, j) <=> Rests(c, loop, j + 1))
    BY <1>1, <1>3, <1>4, <2>1
  <2>3. i < N => d[j] = c[j + 1]
    BY <1>1, <2>1
  <2> HIDE DEF j
  <2>4. /\ d[i].type = "end" => u[j] = u[i] \o Unsteered(d[i].messages) /\ Rests(d, loop, j)
        /\ d[i].type # "end" => u[j] = u[i] /\ ~Rests(d, loop, j)
        /\ i < N /\ d[j].type = "reply" => d[i].type = "partial"
    BY <1>5, <2>1, <2>2, <2>3
  <2> QED
    BY <2>4 DEF j
<1>12. Texts(u, w, d, loop)
  BY <1>1, <1>9, <1>10, <1>11 DEF Texts, N
<1> QED
  BY <1>3, <1>12 DEF Telling, d, N

-----------------------------------------------------------------------------
(***************************************************************************)
(* A tab follows its file.  Whose prompts run goes on, or none is begun;   *)
(* a tab at rest that shows what is in the file.                           *)
(***************************************************************************)
LEMMA LoopAlike ==
  ASSUME NEW v, NEW c, NEW a \in BOOLEAN, NEW b \in BOOLEAN, a <=> b, NEW text,
         Telling(v, c, a, text)
  PROVE  Telling(v, c, b, text)
<1>1. a = b
  OBVIOUS
<1> QED
  BY <1>1, Zenon

LEMMA RestIsTold ==
  ASSUME NEW v, v.messages \in Seq(SaidType)
  PROVE  Telling(v, <<>>, FALSE, Unsteered(v.messages)) /\ Unsteered(v.messages) \in Seq(SaidType)
<1> DEFINE text == Unsteered(v.messages)
           t == [i \in 1..1 |-> text]
<1>1. text \in Seq(SaidType)
  BY UnsteeredIs
<1>2. Rests(<<>>, FALSE, 1) /\ Text(v, Rests(<<>>, FALSE, 1)) = text
  BY DEF Rests, Text
<1> HIDE DEF text
<1>3. t \in [1..(Len(<<>>) + 1) -> Seq(SaidType)] /\ t[Len(<<>>) + 1] = text /\ t[1] = text
  BY <1>1
<1> HIDE DEF t
<1>4. Texts(t, v, <<>>, FALSE)
  <2>1. Len(<<>>) = 0 /\ ~(0 > 0) /\ 1..0 = {}
    OBVIOUS
  <2>2. t[1] = Text(v, Rests(<<>>, FALSE, 1))
    BY <1>2, <1>3
  <2> QED
    BY <2>1, <2>2, Zenon DEF Texts
<1>5. Telling(v, <<>>, FALSE, text)
  BY <1>3, <1>4 DEF Telling
<1> QED
  BY <1>1, <1>5 DEF text

LEMMA ToldAtRest ==
  ASSUME NEW v, NEW text, Telling(v, <<>>, FALSE, text)
  PROVE  text = Unsteered(v.messages)
<1>1. Len(<<>>) = 0 /\ 0 + 1 = 1 /\ Rests(<<>>, FALSE, 1)
  BY DEF Rests
<1>2. PICK t : Texts(t, v, <<>>, FALSE) /\ t[Len(<<>>) + 1] = text
  BY DEF Telling
<1>3. t[1] = text
  BY <1>1, <1>2
<1>4. t[1] = Text(v, Rests(<<>>, FALSE, 1))
  BY <1>2, Zenon DEF Texts
<1> QED
  BY <1>1, <1>3, <1>4 DEF Text

RunsOn(t) ==
  \A n \in Messages :
    /\ n \in ChainsOf(t) /\ InRun(n) =>
         /\ n \in ChainsOf(t)'
         /\ chain'[n].at = chain[n].at /\ chain'[n].prompt = chain[n].prompt
    /\ n \in ChainsOf(t)' /\ InRun(n)' => n \in ChainsOf(t) /\ InRun(n)

LEMMA RunsOnFacts ==
  ASSUME NEW t \in Sessions, RunsOn(t), Loaded(file'[t]) = Loaded(file[t])
  PROVE  /\ InLoop(t)' <=> InLoop(t)
         /\ \A text : Due(t, text) => Due(t, text)'
<1>1. ChainsOf(t) \subseteq Messages /\ ChainsOf(t)' \subseteq Messages
  BY DEF ChainsOf, Messages
<1>2. \A n \in ChainsOf(t) : InRun(n) =>
        n \in ChainsOf(t)' /\ chain'[n].at = chain[n].at /\ chain'[n].prompt = chain[n].prompt
  BY <1>1 DEF RunsOn
<1>3. \A n \in ChainsOf(t)' : InRun(n)' => n \in ChainsOf(t) /\ InRun(n)
  BY <1>1 DEF RunsOn
<1>4. InLoop(t)' <=> InLoop(t)
  BY <1>2, <1>3 DEF InLoop, InRun
<1>5. ASSUME NEW text, Due(t, text) PROVE Due(t, text)'
  <2>1. \A n \in ChainsOf(t)' : InRun(n)' =>
          n \in ChainsOf(t) /\ chain'[n].at = chain[n].at /\ chain'[n].prompt = chain[n].prompt
    BY <1>2, <1>3
  <2>2. \A n \in ChainsOf(t)' :
          /\ chain'[n].at = "running" =>
               Loaded(file'[t]) = Append(text, Said("user", chain'[n].prompt))
          /\ chain'[n].at = "replied" =>
               text = Append(Loaded(file'[t]), Said("reply", chain'[n].prompt))
    BY <1>5, <2>1 DEF Due, InRun
  <2>3. (\A n \in ChainsOf(t)' : ~InRun(n)') => text = Loaded(file'[t])
    BY <1>2, <1>5 DEF Due, InRun
  <2> QED
    BY <2>2, <2>3 DEF Due
<1> QED
  BY <1>4, <1>5

LEMMA SameFollows ==
  ASSUME TabsTypes, NEW t \in Sessions, Follows(t), RunsOn(t),
         live'[t].messages = live[t].messages, live'[t].base = live[t].base,
         channel[t] # <<>> => live'[t].at = live[t].at,
         channel'[t] = channel[t], Loaded(file'[t]) = Loaded(file[t])
  PROVE  Follows(t)'
<1>1. PICK text \in Seq(SaidType) : Telling(live[t], channel[t], InLoop(t), text) /\ Due(t, text)
  BY DEF Follows
<1>2. channel[t] \in Seq(EventType)
  BY DEF TabsTypes, AgentTypes
<1>3. Telling(live'[t], channel[t], InLoop(t), text)
  BY <1>1, <1>2, TellingSame
<1>4. (InLoop(t)' <=> InLoop(t)) /\ Due(t, text)'
  BY <1>1, RunsOnFacts
<1>5. InLoop(t) \in BOOLEAN /\ InLoop(t)' \in BOOLEAN
  BY DEF InLoop
<1>6. Telling(live'[t], channel[t], InLoop(t)', text)
  BY <1>3, <1>4, <1>5, LoopAlike
<1>7. Telling(live'[t], channel'[t], InLoop(t)', text)
  BY <1>6, Zenon
<1> QED
  BY <1>4, <1>7 DEF Follows

LEMMA RestFollows ==
  ASSUME NEW t \in Sessions, channel'[t] = <<>>, \A n \in ChainsOf(t)' : ~InRun(n)',
         live'[t].messages \in Seq(SaidType), Unsteered(live'[t].messages) = Loaded(file'[t])
  PROVE  Follows(t)'
<1>1. PICK text \in Seq(SaidType) : Telling(live'[t], <<>>, FALSE, text) /\ text = Loaded(file'[t])
  BY RestIsTold
<1>2. Due(t, text)'
  BY <1>1 DEF Due, InRun
<1>3. (InLoop(t)' <=> FALSE) /\ InLoop(t)' \in BOOLEAN
  BY DEF InLoop, InRun
<1>4. Telling(live'[t], <<>>, InLoop(t)', text)
  BY <1>1, <1>3, LoopAlike
<1>5. Telling(live'[t], channel'[t], InLoop(t)', text)
  BY <1>4, Zenon
<1> QED
  BY <1>1, <1>2, <1>5 DEF Follows

(***************************************************************************)
(* The steps of a chain that begin no run and end none; the others.        *)
(***************************************************************************)
LEMMA OffRunFollows ==
  ASSUME TabsTypes, NEW n \in Messages, ChainMoves(n), NEW t, t = chain[n].session,
         ~PromptStarts(n), ~Replies(n), ~PromptReturns(n), ~PromptReturnsError(n),
         ~PromptFails(n), ~PromptRefused(n), ~ReportError(n), Follows(t)
  PROVE  Follows(t)'
<1>0. /\ t \in Sessions /\ n \in ChainsOf(t) /\ ChainsOf(t)' \subseteq ChainsOf(t)
      /\ \A m \in ChainsOf(t) : m # n => chain'[m] = chain[m] /\ m \in ChainsOf(t)'
      /\ file[t] \in Seq(Entries)
  <2>1. KeptBy(n, t)
    BY ChainMovesFacts
  <2>2. t \in Sessions /\ file[t] \in Seq(Entries)
    BY ChainFacts
  <2> QED
    BY <2>1, <2>2 DEF KeptBy
<1>1. SameText(live[t], live'[t])
  BY ChainViews
<1> DEFINE Quiet == /\ ~InRun(n) /\ ~InRun(n)' /\ channel'[t] = channel[t]
                    /\ Loaded(file'[t]) = Loaded(file[t])
<1>2. ASSUME Quiet PROVE Follows(t)'
  <2>1. RunsOn(t)
    <3>1. ~InRun(n) /\ ~InRun(n)'
      BY <1>2
    <3>2. \A m \in ChainsOf(t) : m # n => (InRun(m)' <=> InRun(m))
      BY <1>0 DEF InRun
    <3> HIDE DEF InRun
    <3>3. \A m \in ChainsOf(t) : InRun(m) => m \in ChainsOf(t)' /\ chain'[m] = chain[m]
      BY <1>0, <3>1
    <3>4. \A m \in ChainsOf(t)' : InRun(m)' => m \in ChainsOf(t) /\ InRun(m)
      BY <1>0, <3>1, <3>2
    <3> QED
      BY <3>3, <3>4 DEF RunsOn
  <2> QED
    BY <1>0, <1>1, <1>2, <2>1, SameFollows DEF SameText
<1>3. CASE SendBegins(n)
  <2>1. chain[n].at = "sending" /\ ChainIs(n, "prompting") /\ Writes(t, Said("started", 0))
          /\ channel' = channel
    BY <1>3, SendBeginsStep, Zenon
  <2>2. Said("started", 0) \in Entries /\ ~IsMessage(Said("started", 0))
    BY SaidIsTyped DEF Said, IsMessage
  <2>3. Loaded(file'[t]) = Loaded(file[t])
    BY <1>0, <2>1, <2>2, LoadedAppend DEF Writes
  <2> QED
    BY <1>2, <2>1, <2>3 DEF InRun, ChainIs
<1>4. CASE SendFails(n)
  <2>1. chain[n].at = "sending" /\ ChainIs(n, "off") /\ UNCHANGED agentVars
    BY <1>4, SendFailsStep, Zenon
  <2> QED
    BY <1>2, <2>1 DEF InRun, ChainIs, agentVars
<1>5. CASE Takes(n)
  <2>1. chain[n].at = "returned" /\ chain'[n].at = "prompting" /\ UNCHANGED agentVars
    BY <1>5, TakesStep, Zenon
  <2> QED
    BY <1>2, <2>1 DEF InRun, agentVars
<1>6. CASE TakesNothing(n)
  <2>1. PICK where \in {"finishing", "off"} :
          chain[n].at = "returned" /\ ChainIs(n, where) /\ UNCHANGED agentVars
    <3>1. chain[n].at = "returned" /\ UNCHANGED agentVars
            /\ ChainIs(n, IF live[t].interaction THEN "finishing" ELSE "off")
      BY <1>6, TakesNothingStep, Zenon
    <3>2. (IF live[t].interaction THEN "finishing" ELSE "off") \in {"finishing", "off"}
      OBVIOUS
    <3> QED
      BY <3>1, <3>2, Zenon
  <2> QED
    BY <1>2, <2>1 DEF InRun, ChainIs, agentVars
<1>7. CASE Finish(n)
  <2> DEFINE e == [kind |-> "summary", changes |-> Changes(file[t])]
  <2>1. chain[n].at = "finishing" /\ ChainIs(n, "off") /\ Writes(t, e) /\ channel' = channel
    BY <1>7, FinishStep, Zenon
  <2>2. e \in Entries /\ ~IsMessage(e)
    BY <1>0, ChangesType DEF Entries, IsMessage
  <2> HIDE DEF e
  <2>3. Loaded(file'[t]) = Loaded(file[t])
    BY <1>0, <2>1, <2>2, LoadedAppend DEF Writes
  <2> QED
    BY <1>2, <2>1, <2>3 DEF InRun, ChainIs
<1> QED
  BY <1>3, <1>4, <1>5, <1>6, <1>7 DEF ChainMoves, ChainSteps

LEMMA ErrorFollows ==
  ASSUME TabsTypes, NEW n \in Messages, ReportError(n), NEW t, t = chain[n].session,
         OneRun(t), Spared(t, {"error in turn"})'
  PROVE  Follows(t)'
<1> DEFINE said == Said("error", chain[n].prompt)
<1>0. t \in Sessions /\ chain[n].prompt \in Nat /\ file[t] \in Seq(Entries)
  BY ChainFacts
<1>1. /\ chain[n].at = "failed" /\ ChainIs(n, "returned") /\ Writes(t, said)
      /\ live'[t].messages = Append(Loaded(file[t]), said)
      /\ Befalls(t, IF InTurn(t) THEN {"error in turn"} ELSE {}) /\ channel' = channel
  BY ReportErrorStep, Zenon
<1>2. said \in SaidType /\ said \in Entries /\ IsMessage(said)
  BY <1>0, SaidIsTyped DEF Said, IsMessage
<1> HIDE DEF said
<1>3. ~running[t] /\ channel[t] = <<>>
  BY <1>1 DEF Befalls, Spared, InTurn
<1>4. \A m \in ChainsOf(t)' : ~InRun(m)'
  <2>1. \A m \in ChainsOf(t) : ~InRun(m)
    BY <1>3 DEF OneRun
  <2>2. \A m \in ChainsOf(t)' : m # n => m \in ChainsOf(t) /\ chain'[m] = chain[m]
    BY <1>1 DEF ChainIs, ChainsOf
  <2>3. ~InRun(n)'
    BY <1>1 DEF ChainIs, InRun
  <2> QED
    BY <2>1, <2>2, <2>3 DEF InRun
<1>5. Loaded(file'[t]) = live'[t].messages /\ file'[t] \in Seq(Entries)
  <2>1. Loaded(Append(file[t], said)) = Append(Loaded(file[t]), said)
    BY <1>0, <1>2, LoadedAppend
  <2>2. Append(file[t], said) \in Seq(Entries)
    BY <1>0, <1>2, AppendProperties
  <2> QED
    BY <1>1, <2>1, <2>2 DEF Writes
<1>6. Unsteered(live'[t].messages) = Loaded(file'[t]) /\ live'[t].messages \in Seq(SaidType)
  <2>1. Unsteered(Loaded(file'[t])) = Loaded(file'[t]) /\ Loaded(file'[t]) \in Seq(SaidType)
    BY <1>5, UnsteeredLoaded, LoadedType
  <2> QED
    BY <1>5, <2>1, Zenon
<1> QED
  BY <1>0, <1>1, <1>3, <1>4, <1>6, RestFollows

LEMMA StartFollows ==
  ASSUME TabsTypes, NEW n \in Messages, PromptStarts(n), NEW t, t = chain[n].session,
         OneRun(t), Spared(t, Lost)', Follows(t)
  PROVE  Follows(t)'
<1> DEFINE said == Said("user", chain[n].prompt)
           e == Event("start", <<said>>)
<1>0. t \in Sessions /\ chain[n].prompt \in Nat /\ file[t] \in Seq(Entries)
        /\ channel[t] \in Seq(EventType) /\ IsView(live[t])
  BY ChainFacts
<1>1. /\ chain[n].at = "prompting" /\ ChainIs(n, "running") /\ ~running[t] /\ Writes(t, said)
      /\ Tells(t, <<e>>, {}) /\ <<e>> \in Seq(EventType) /\ live' = live
  BY PromptStartsStep, Zenon
<1>2. said \in Entries /\ IsMessage(said)
  BY <1>0, SaidIsTyped DEF Said, IsMessage
<1>3. e \in EventType /\ e.type = "start"
  <2>1. \A x : <<x>> \in Seq(EventType) => x \in EventType
    OBVIOUS
  <2>2. e \in EventType
    BY <1>1, <2>1
  <2> QED
    BY <2>2 DEF Event
<1> HIDE DEF e
<1>4. channel'[t] = channel[t] \o <<e>>
  <2>1. mishaps'[t] \cap Lost = {} => channel'[t] = channel[t] \o <<e>>
    <3> DEFINE es == <<e>>
    <3>1. es \in Seq(EventType) /\ Tells(t, es, {})
      BY <1>1
    <3> HIDE DEF es
    <3>2. mishaps'[t] \cap Lost = {} => channel'[t] = channel[t] \o es
      BY <1>0, <3>1, TellsFacts DEF TabsTypes
    <3> QED
      BY <3>2 DEF es
  <2> QED
    BY <2>1 DEF Spared
<1>5. PICK text \in Seq(SaidType) : Telling(live[t], channel[t], InLoop(t), text) /\ Due(t, text)
  BY DEF Follows
<1>6. \A m \in ChainsOf(t) : ~InRun(m)
  BY <1>1 DEF OneRun
<1>7. text = Loaded(file[t]) /\ (InLoop(t) <=> FALSE) /\ InLoop(t) \in BOOLEAN
  BY <1>5, <1>6 DEF Due, InLoop, InRun
<1>8. Telling(live[t], channel[t], FALSE, text)
  BY <1>5, <1>7, LoopAlike
<1>9. Telling(live[t], channel[t] \o <<e>>, TRUE, text)
  BY <1>0, <1>3, <1>8, StartIsTold
<1>10. /\ n \in ChainsOf(t)' /\ chain'[n].at = "running" /\ chain'[n].prompt = chain[n].prompt
       /\ \A m \in ChainsOf(t)' : m # n => m \in ChainsOf(t) /\ chain'[m] = chain[m]
  BY <1>0, <1>1 DEF ChainIs, ChainsOf
<1>11. (InLoop(t)' <=> TRUE) /\ InLoop(t)' \in BOOLEAN
  BY <1>10 DEF InLoop
<1>12. Telling(live[t], channel[t] \o <<e>>, InLoop(t)', text)
  BY <1>9, <1>11, LoopAlike
<1>13. Telling(live'[t], channel'[t], InLoop(t)', text)
  BY <1>1, <1>4, <1>12, Zenon
<1>14. Loaded(file'[t]) = Append(text, Said("user", chain'[n].prompt))
  <2>1. Loaded(Append(file[t], said)) = Append(Loaded(file[t]), said)
    BY <1>0, <1>2, LoadedAppend
  <2> QED
    BY <1>1, <1>7, <1>10, <2>1 DEF Writes
<1>15. Due(t, text)'
  <2>1. \A m \in ChainsOf(t)' : m # n => ~InRun(m)'
    BY <1>6, <1>10 DEF InRun
  <2> QED
    BY <1>10, <1>14, <2>1 DEF Due, InRun
<1> QED
  BY <1>13, <1>15 DEF Follows

LEMMA AnswerFollows ==
  ASSUME TabsTypes, NEW n \in Messages, Replies(n), NEW t, t = chain[n].session,
         OneRun(t), Spared(t, Lost)', Follows(t)
  PROVE  Follows(t)'
<1> DEFINE p == chain[n].prompt
           q == steering[t]
           es == Answer(p, q)
<1>0. t \in Sessions /\ p \in Nat /\ q \in Seq(Nat) /\ channel[t] \in Seq(EventType)
  BY ChainFacts
<1>1. /\ chain[n].at = "running" /\ ChainIs(n, "replied") /\ Tells(t, es, {})
      /\ live' = live /\ file' = file
  BY RepliesStep, Zenon
<1>2. es \in Seq(EventType)
  BY <1>0, AnswerType
<1> HIDE DEF p, q
<1>3. channel'[t] = channel[t] \o es
  <2> HIDE DEF es
  <2>1. mishaps'[t] \cap Lost = {} => channel'[t] = channel[t] \o es
    BY <1>0, <1>1, <1>2, TellsFacts DEF TabsTypes
  <2> QED
    BY <2>1 DEF Spared
<1>4. PICK text \in Seq(SaidType) : Telling(live[t], channel[t], InLoop(t), text) /\ Due(t, text)
  BY DEF Follows
<1>5. n \in ChainsOf(t) /\ \A m \in ChainsOf(t) : m # n => ~InRun(m)
  BY <1>0, <1>1 DEF OneRun, InRun, ChainsOf
<1>6. (InLoop(t) <=> TRUE) /\ InLoop(t) \in BOOLEAN
        /\ Loaded(file[t]) = Append(text, Said("user", p))
  BY <1>1, <1>4, <1>5 DEF InLoop, Due, p
<1>7. Telling(live[t], channel[t], TRUE, text)
  BY <1>4, <1>6, LoopAlike
<1>8. PICK told \in Seq(SaidType) :
        /\ told = Append(Append(text, Said("user", p)), Said("reply", p))
        /\ Telling(live[t], channel[t] \o es, FALSE, told)
  <2>1. Telling(live[t], channel[t] \o es, FALSE,
                Append(Append(text, Said("user", p)), Said("reply", p)))
    BY <1>0, <1>7, AnswerIsTold
  <2>2. Said("user", p) \in SaidType /\ Said("reply", p) \in SaidType
    BY <1>0, SaidIsTyped
  <2>3. Append(text, Said("user", p)) \in Seq(SaidType)
    BY <2>2, AppendProperties
  <2>4. Append(Append(text, Said("user", p)), Said("reply", p)) \in Seq(SaidType)
    BY <2>2, <2>3, AppendProperties
  <2> HIDE DEF es
  <2> QED
    BY <2>1, <2>4
<1> HIDE DEF es
<1>9. /\ chain'[n].at = "replied" /\ chain'[n].prompt = p
      /\ \A m \in ChainsOf(t)' : m # n => m \in ChainsOf(t) /\ chain'[m] = chain[m]
  BY <1>1 DEF ChainIs, ChainsOf, p
<1>10. \A m \in ChainsOf(t)' : m # n => ~InRun(m)'
  BY <1>5, <1>9 DEF InRun
<1>11. (InLoop(t)' <=> FALSE) /\ InLoop(t)' \in BOOLEAN
  BY <1>9, <1>10 DEF InLoop, InRun
<1>12. Telling(live[t], channel[t] \o es, InLoop(t)', told)
  BY <1>8, <1>11, LoopAlike
<1>13. Telling(live'[t], channel'[t], InLoop(t)', told)
  BY <1>1, <1>3, <1>12, Zenon
<1>14. told = Append(Loaded(file'[t]), Said("reply", chain'[n].prompt))
  BY <1>1, <1>6, <1>8, <1>9
<1>15. n \in ChainsOf(t)' /\ InRun(n)'
  BY <1>0, <1>1, <1>5, <1>9 DEF ChainIs, ChainsOf, InRun
<1>16. Due(t, told)'
  BY <1>9, <1>10, <1>14, <1>15 DEF Due, InRun
<1> QED
  BY <1>13, <1>16 DEF Follows

LEMMA ReturnFollows ==
  ASSUME TabsTypes, NEW n \in Messages, PromptReturns(n), NEW t, t = chain[n].session,
         OneRun(t), Follows(t)
  PROVE  Follows(t)'
<1> DEFINE said == Said("reply", chain[n].prompt)
<1>0. t \in Sessions /\ chain[n].prompt \in Nat /\ file[t] \in Seq(Entries)
  BY ChainFacts
<1>1. /\ chain[n].at = "replied" /\ ChainIs(n, "returned") /\ Writes(t, said)
      /\ UNCHANGED <<channel, live>>
  BY PromptReturnsStep, Zenon
<1>2. said \in Entries /\ IsMessage(said)
  BY <1>0, SaidIsTyped DEF Said, IsMessage
<1>3. n \in ChainsOf(t) /\ \A m \in ChainsOf(t) : m # n => ~InRun(m)
  BY <1>0, <1>1 DEF OneRun, InRun, ChainsOf
<1>4. PICK text \in Seq(SaidType) : Telling(live[t], channel[t], InLoop(t), text) /\ Due(t, text)
  BY DEF Follows
<1>5. text = Append(Loaded(file[t]), said) /\ (InLoop(t) <=> FALSE) /\ InLoop(t) \in BOOLEAN
  BY <1>1, <1>3, <1>4 DEF Due, InLoop, InRun
<1>6. text = Loaded(file'[t])
  <2>1. Loaded(Append(file[t], said)) = Append(Loaded(file[t]), said)
    BY <1>0, <1>2, LoadedAppend
  <2> QED
    BY <1>1, <1>5, <2>1 DEF Writes
<1>7. \A m \in ChainsOf(t)' : ~InRun(m)'
  <2>1. \A m \in ChainsOf(t)' : m # n => m \in ChainsOf(t) /\ chain'[m] = chain[m]
    BY <1>1 DEF ChainIs, ChainsOf
  <2>2. ~InRun(n)'
    BY <1>1 DEF ChainIs, InRun
  <2> QED
    BY <1>3, <2>1, <2>2 DEF InRun
<1>8. (InLoop(t)' <=> InLoop(t)) /\ InLoop(t)' \in BOOLEAN
  BY <1>5, <1>7 DEF InLoop, InRun
<1>9. Telling(live[t], channel[t], InLoop(t)', text)
  BY <1>4, <1>5, <1>8, LoopAlike
<1>10. Telling(live'[t], channel'[t], InLoop(t)', text)
  BY <1>1, <1>9, Zenon
<1>11. Due(t, text)'
  BY <1>6, <1>7 DEF Due, InRun
<1> QED
  BY <1>10, <1>11 DEF Follows

LEMMA ForwardFollows ==
  ASSUME TabsTypes, NEW t \in Sessions, Forward(t), Follows(t)
  PROVE  Follows(t)'
<1> DEFINE c == channel[t]
<1>1. /\ c # <<>> /\ c \in Seq(EventType) /\ IsView(live[t]) /\ channel'[t] = Tail(c)
      /\ file' = file /\ chain' = chain
  BY ForwardStep, Zenon
<1>2. Applied(live[t], live'[t], Head(c))
  BY Forwarded
<1>3. PICK text \in Seq(SaidType) : Telling(live[t], c, InLoop(t), text) /\ Due(t, text)
  BY DEF Follows
<1>4. InLoop(t) \in BOOLEAN
  BY DEF InLoop
<1> HIDE DEF c
<1>5. Telling(live'[t], Tail(c), InLoop(t), text)
  BY <1>1, <1>2, <1>3, <1>4, ForwardIsTold
<1>6. RunsOn(t)
  BY <1>1 DEF RunsOn, ChainsOf, InRun
<1>7. (InLoop(t)' <=> InLoop(t)) /\ Due(t, text)'
  <2>1. Loaded(file'[t]) = Loaded(file[t])
    BY <1>1
  <2> QED
    BY <1>3, <1>6, <2>1, RunsOnFacts
<1>8. InLoop(t)' \in BOOLEAN
  BY DEF InLoop
<1>9. Telling(live'[t], Tail(c), InLoop(t)', text)
  BY <1>4, <1>5, <1>7, <1>8, LoopAlike
<1>10. Telling(live'[t], channel'[t], InLoop(t)', text)
  BY <1>1, <1>9, Zenon
<1> QED
  BY <1>7, <1>10 DEF Follows

\* A tab that is opened shows what the file holds.
LEMMA OpenFollows ==
  ASSUME TabsTypes, TabsOnce, NEW t \in Sessions, OnlyActive(t), ~HasTab(t), Switch(t) \/ Starts(t)
  PROVE  Follows(t)'
<1>1. phase[t] = "none" /\ channel[t] = <<>> /\ ChainsOf(t) = {}
  <2>1. phase[t] = "none"
    BY DEF TabsOnce
  <2>2. \A n \in ChainsOf(t) : phase[t] = "active"
    BY DEF OnlyActive
  <2> QED
    BY <2>1, <2>2 DEF OnlyActive
<1>2. file[t] \in Seq(Entries)
  BY DEF TabsTypes, AgentTypes
<1>3. PICK ms \in Seq(SaidType) :
        /\ live'[t] = [EmptyView EXCEPT !.messages = ms]
        /\ Unsteered(ms) = Loaded(file'[t]) /\ chain' = chain /\ channel' = channel
  <2>1. CASE Switch(t)
    <3>1. Sees(t, [EmptyView EXCEPT !.messages = Loaded(file[t])])
            /\ chain' = chain /\ UNCHANGED agentVars
      BY <2>1, SwitchStep, Zenon
    <3>2. Loaded(file[t]) \in Seq(SaidType) /\ Unsteered(Loaded(file[t])) = Loaded(file[t])
      BY <1>2, LoadedType, UnsteeredLoaded
    <3> QED
      BY <3>1, <3>2 DEF Sees, agentVars
  <2>2. CASE Starts(t)
    <3>1. PICK entries \in Seq(SaidType) :
            Opens(t, entries) /\ \A i \in 1..Len(entries) : IsMessage(entries[i])
      BY <2>2 DEF Starts
    <3>2. Sees(t, [EmptyView EXCEPT !.messages = entries]) /\ file'[t] = entries
            /\ chain' = chain /\ channel' = channel
      BY <3>1, OpensStep, Zenon
    <3>3. Loaded(entries) = entries /\ Unsteered(entries) = entries
      BY <3>1, LoadedAll
    <3> QED
      BY <3>2, <3>3 DEF Sees
  <2> QED
    BY <2>1, <2>2
<1>4. live'[t].messages = ms
  BY <1>3, EmptyViewType
<1>5. ChainsOf(t)' = {} /\ channel'[t] = <<>>
  BY <1>1, <1>3 DEF ChainsOf
<1>6. live'[t].messages \in Seq(SaidType) /\ Unsteered(live'[t].messages) = Loaded(file'[t])
  BY <1>3, <1>4
<1> QED
  BY <1>5, <1>6, RestFollows

LEMMA ViewFollowsStep ==
  ASSUME TabsTypes, TabsOnce, \A s \in Sessions : OnlyActive(s), [Next]_vars, NEW t \in Sessions,
         OneRun(t), ViewFollows(t)
  PROVE  ViewFollows(t)'
<1> DEFINE Spoils == Lost \cup {"error in turn"}
<1> SUFFICES ASSUME HasTab(t)', Spared(t, Spoils)', ~Failing(t)'
             PROVE  Follows(t)'
  BY DEF ViewFollows
<1>1. Spared(t, Spoils)
  BY SparedBefore
<1>2. Spared(t, Lost)' /\ Spared(t, {"error in turn"})'
  BY DEF Spared
<1> HIDE DEF Spoils
<1>3. HasTab(t) /\ ~Failing(t) => Follows(t)
  BY <1>1 DEF ViewFollows, Spoils
<1>4. /\ live[t] \in ViewType /\ IsView(live[t])
      /\ phase[t] # "active" => channel[t] = <<>>
  BY DEF TabsTypes, OnlyActive
<1>5. ASSUME ChainsStay(t) PROVE RunsOn(t) /\ ~Failing(t)
  <2>1. RunsOn(t)
    BY <1>5 DEF ChainsStay, RunsOn, InRun, ChainsOf
  <2>2. ~Failing(t)
    BY <1>5 DEF ChainsStay, Failing
  <2> QED
    BY <2>1, <2>2
<1>6. ASSUME ChainsStay(t), HasTab(t), live'[t].messages = live[t].messages,
             live'[t].base = live[t].base, channel[t] # <<>> => live'[t].at = live[t].at,
             channel'[t] = channel[t], file'[t] = file[t]
      PROVE  Follows(t)'
  BY <1>3, <1>5, <1>6, SameFollows
<1>7. CASE Same(t)
  BY <1>6, <1>7, NotChained DEF Same
<1>8. ASSUME NEW n \in Messages, chain[n].session = t, ChainMoves(n) PROVE Follows(t)'
  <2>1. KeptBy(n, t)
    BY <1>8, ChainMovesFacts
  <2>2. HasTab(t) /\ n \in ChainsOf(t)
    BY <2>1 DEF KeptBy, HasTab
  <2>3. ASSUME ChainIs(n, "failed") PROVE FALSE
    <3>1. n \in ChainsOf(t)' /\ chain'[n].at = "failed"
      BY <1>8, <2>2, <2>3 DEF ChainIs, ChainsOf
    <3> QED
      BY <3>1 DEF Failing
  <2>4. ~PromptRefused(n) /\ ~PromptFails(n) /\ ~PromptReturnsError(n)
    BY <2>3, PromptRefusedStep, PromptFailsStep, PromptReturnsErrorStep
  <2>5. CASE ReportError(n)
    BY <1>2, <1>8, <2>5, ErrorFollows
  <2>6. CASE ~ReportError(n)
    <3>1. ~Failing(t)
      <4> SUFFICES ASSUME NEW m \in ChainsOf(t), chain[m].at = "failed" PROVE FALSE
        BY DEF Failing
      <4>1. CASE m # n
        <5>1. chain'[m].at = "failed" /\ m \in ChainsOf(t)'
          BY <2>1, <4>1 DEF KeptBy
        <5> QED
          BY <5>1 DEF Failing
      <4>2. CASE m = n
        <5>1. chain[n].at = "failed"
          BY <4>2
        <5> QED
          BY <1>8, <2>6, <5>1
             DEF ChainMoves, ChainSteps, SendBegins, SendFails, PromptStarts, PromptRefused,
                 PromptFails, Replies, PromptReturns, PromptReturnsError, Written, Takes,
                 TakesNothing, Finish
      <4> QED
        BY <4>1, <4>2
    <3>2. Follows(t)
      BY <1>3, <2>2, <3>1
    <3>3. CASE PromptStarts(n)
      BY <1>2, <1>8, <3>2, <3>3, StartFollows
    <3>4. CASE Replies(n)
      BY <1>2, <1>8, <3>2, <3>4, AnswerFollows
    <3>5. CASE PromptReturns(n)
      BY <1>8, <3>2, <3>5, ReturnFollows
    <3> QED
      BY <1>8, <2>4, <2>6, <3>2, <3>3, <3>4, <3>5, OffRunFollows
  <2> QED
    BY <2>5, <2>6
<1>9. ASSUME NEW n \in Messages, Send(n), t = Active PROVE Follows(t)'
  <2>1. UNCHANGED agentVars
    BY <1>9, SendStep, Zenon
  <2>2. /\ live'[t].messages = live[t].messages
        /\ live' = live \/ (phase[t] # "active" /\ live[t].base = 0 /\ live'[t].base = 0)
    BY <1>9, SendViews DEF Fresh
  <2>3. live'[t].base = live[t].base /\ (channel[t] # <<>> => live'[t].at = live[t].at)
    BY <1>4, <2>2
  <2>4. HasTab(t) /\ ChainsStay(t)
    BY <1>9, ActiveFacts, NotChained DEF OfTheUser
  <2> QED
    BY <1>6, <2>1, <2>2, <2>3, <2>4 DEF agentVars
<1>10. CASE t = Active /\ (Queue \/ Steer \/ Abort)
  <2>1. HasTab(t) /\ ChainsStay(t)
    BY <1>10, ActiveFacts, NotChained DEF OfTheUser
  <2>2. channel' = channel /\ file' = file
    BY <1>10 DEF Queue, Steer, Abort, agentVars
  <2>3. live'[t].messages = live[t].messages /\ live'[t].base = live[t].base
          /\ live'[t].at = live[t].at
    <3>1. CASE Queue
      <4>1. Sees(t, [live[t] EXCEPT !.queue = Append(live[t].queue, typed + 1)])
        BY <1>10, <3>1, QueueStep, Zenon
      <4> QED
        BY <1>4, <4>1 DEF Sees, ViewType
    <3>2. CASE Steer
      <4>1. Sees(t, [live[t] EXCEPT !.steering = Append(live[t].steering, typed + 1)])
        BY <1>10, <3>2, SteerStep, Zenon
      <4> QED
        BY <1>4, <4>1 DEF Sees, ViewType
    <3>3. CASE Abort
      <4>1. Sees(t, [live[t] EXCEPT !.queue = <<>>])
        BY <1>10, <3>3, AbortStep, Zenon
      <4> QED
        BY <1>4, <4>1 DEF Sees, ViewType
    <3> QED
      BY <1>10, <3>1, <3>2, <3>3
  <2> QED
    BY <1>6, <2>1, <2>2, <2>3
<1>11. CASE Subscribe(t)
  <2>1. UNCHANGED <<agentVars, Screen, live>> /\ ChainsStay(t)
    BY <1>11, SubscribeStep, NotChained
  <2>2. HasTab(t)
    BY <2>1 DEF Screen, HasTab
  <2> QED
    BY <1>6, <2>1, <2>2 DEF agentVars
<1>12. CASE Forward(t)
  <2>1. ChainsStay(t) /\ tabs' = tabs
    BY <1>12, NotChained DEF Forward
  <2>2. Follows(t)
    BY <1>3, <1>5, <2>1 DEF HasTab
  <2> QED
    BY <1>12, <2>2, ForwardFollows
<1>13. CASE Switch(t) \/ Starts(t)
  <2>1. CASE HasTab(t)
    <3>1. ~Starts(t)
      BY <2>1 DEF Starts, Opens
    <3>2. UNCHANGED live /\ UNCHANGED agentVars
      BY <1>13, <2>1, <3>1, SwitchStep, Zenon
    <3>3. ChainsStay(t)
      BY <1>13, NotChained
    <3> QED
      BY <1>6, <2>1, <3>2, <3>3 DEF agentVars
  <2>2. CASE ~HasTab(t)
    BY <1>13, <2>2, OpenFollows
  <2> QED
    BY <2>1, <2>2
<1> QED
  BY <1>7, <1>8, <1>9, <1>10, <1>11, <1>12, <1>13, SameOrMoves DEF Moves, OfTheUser

-----------------------------------------------------------------------------
(***************************************************************************)
(* The invariant: it holds at the start, and every step keeps it.          *)
(***************************************************************************)
LEMMA TabsInit == Init => TabsInvariant
<1> SUFFICES ASSUME Init PROVE TabsInvariant
  OBVIOUS
<1>1. /\ tabs = <<Initial>> /\ active = 1 /\ Active = Initial /\ Initial \in Sessions
      /\ phase = [s \in Sessions |-> IF s = Initial THEN "active" ELSE "none"]
      /\ live = [s \in Sessions |-> EmptyView]
      /\ running = [s \in Sessions |-> FALSE]
      /\ steering = [s \in Sessions |-> <<>>] /\ channel = [s \in Sessions |-> <<>>]
      /\ forwarder = [s \in Sessions |-> IF s = Initial THEN "on" ELSE "off"]
      /\ chain = [n \in Messages |-> NoChain(Initial)]
      /\ emitting = {} /\ shown = Snapshot(Initial, EmptyView)
      /\ typed = 0 /\ accepted = {} /\ mishaps = [s \in Sessions |-> {}]
  BY TabsAssumption DEF Init, Active
<1> DEFINE old == <<Said("started", 0), Said("user", 0), Said("reply", 0)>>
<1>2. old \in Seq(Entries)
  BY SaidIsTyped
<1>3. \A s \in Sessions : file[s] = IF s \in Saved THEN old ELSE <<>>
  BY DEF Init
<1>4. file \in [Sessions -> Seq(Entries)]
  <2>1. file = [s \in Sessions |-> IF s \in Saved THEN old ELSE <<>>]
    BY DEF Init
  <2>2. <<>> \in Seq(Entries)
    BY EmptySeq
  <2> HIDE DEF old
  <2> QED
    BY <1>2, <2>1, <2>2
<1>5. EmptyView \in ViewType /\ IsView(EmptyView) /\ Fresh(EmptyView) /\ EmptyView.messages = <<>>
  BY DEF EmptyView, ViewType, IsView, Fresh
<1>6. \A s \in Sessions : HasTab(s) <=> s = Initial
  BY <1>1 DEF HasTab, ToSet
<1>7. \A s \in Sessions : ChainsOf(s) = {}
  BY <1>1 DEF ChainsOf, NoChain
<1>8. TabsTypes
  <2>1. AgentTypes
    BY <1>1, <1>4 DEF AgentTypes
  <2>2. ScreenTypes
    BY <1>1, <1>5 DEF ScreenTypes, Snapshot, ViewType
  <2>3. chain \in [Messages -> ChainType]
    BY <1>1 DEF NoChain, ChainType
  <2> QED
    BY <1>1, <1>5, <2>1, <2>2, <2>3, TabsAssumption DEF TabsTypes
<1>9. TabsOnce
  BY <1>1, <1>6 DEF TabsOnce
<1>10. ScreenIsTold /\ AllAccounted
  BY <1>1, <1>5 DEF ScreenIsTold, AllAccounted, Snapshot, Fresh
<1>11. ASSUME NEW s \in Sessions
       PROVE  /\ OnlyActive(s) /\ OneRun(s) /\ SteeredOnce(s) /\ SteeringIsShown(s)
              /\ OneChain(s) /\ QueueIsTaken(s) /\ InteractionLasts(s) /\ ViewFollows(s)
  <2>1. /\ live[s] = EmptyView /\ steering[s] = <<>> /\ channel[s] = <<>> /\ ~running[s]
        /\ ChainsOf(s) = {} /\ Fresh(live[s])
    BY <1>1, <1>5, <1>7
  <2>2. OnlyActive(s)
    BY <1>1, <1>3, <2>1 DEF OnlyActive
  <2>3. OneRun(s) /\ OneChain(s)
    BY <2>1 DEF OneRun, OneChain
  <2>4. ToSet(<<>>) = {} /\ Len(<<>>) = 0 /\ Hearing(<<>>) = {}
    BY DEF ToSet, Hearing
  <2>5. SteeredOnce(s) /\ SteeringIsShown(s) /\ QueueIsTaken(s)
    BY <2>1, <2>4 DEF SteeredOnce, SteeringIsShown, QueueIsTaken, HeardOnce, Once, WaitsAt, Fresh
  <2>6. InteractionLasts(s)
    BY <2>1 DEF InteractionLasts, Lasts, AtWork, Fresh
  <2>7. HasTab(s) => Follows(s)
    <3> SUFFICES ASSUME HasTab(s) PROVE Follows(s)
      OBVIOUS
    <3>1. file[s] = <<>>
      BY <1>3, <1>6, TabsAssumption
    <3>2. <<>> \in Seq(SaidType) /\ \A i \in 1..Len(<<>>) : IsMessage(<<>>[i])
      OBVIOUS
    <3>3. Loaded(<<>>) = <<>> /\ Unsteered(<<>>) = <<>>
      BY <3>2, LoadedAll
    <3>4. Telling(EmptyView, <<>>, FALSE, <<>>)
      <4>1. EmptyView.messages \in Seq(SaidType) /\ Unsteered(EmptyView.messages) = <<>>
        BY <1>5, <3>2, <3>3
      <4>2. Telling(EmptyView, <<>>, FALSE, Unsteered(EmptyView.messages))
        BY <4>1, RestIsTold
      <4> QED
        BY <4>1, <4>2, Zenon
    <3>5. (InLoop(s) <=> FALSE) /\ InLoop(s) \in BOOLEAN
      BY <2>1 DEF InLoop
    <3>6. Telling(EmptyView, <<>>, InLoop(s), <<>>)
      BY <3>4, <3>5, LoopAlike
    <3>7. Due(s, <<>>)
      BY <2>1, <3>1, <3>3 DEF Due
    <3>8. Telling(live[s], channel[s], InLoop(s), <<>>)
      BY <2>1, <3>6, Zenon
    <3> QED
      BY <3>2, <3>7, <3>8 DEF Follows
  <2> QED
    BY <2>2, <2>3, <2>5, <2>6, <2>7 DEF ViewFollows
<1> QED
  BY <1>8, <1>9, <1>10, <1>11 DEF TabsInvariant

LEMMA TabsStep == TabsInvariant /\ [Next]_vars => TabsInvariant'
<1> SUFFICES ASSUME TabsInvariant, [Next]_vars PROVE TabsInvariant'
  OBVIOUS
<1>1. /\ TabsTypes /\ TabsOnce /\ \A s \in Sessions : OnlyActive(s)
      /\ \A s \in Sessions : OneRun(s) /\ OneChain(s)
      /\ AllAccounted /\ ScreenIsTold
  BY DEF TabsInvariant
<1>2. TabsTypes' /\ TabsOnce' /\ AllAccounted' /\ ScreenIsTold'
  BY <1>1, TypesStep, TabsOnceStep, AllAccountedStep, ScreenIsToldStep
<1>3. ASSUME NEW s \in Sessions
      PROVE  /\ OnlyActive(s)' /\ OneRun(s)' /\ SteeredOnce(s)' /\ SteeringIsShown(s)'
             /\ OneChain(s)' /\ QueueIsTaken(s)' /\ InteractionLasts(s)' /\ ViewFollows(s)'
  <2>1. /\ SteeredOnce(s) /\ SteeringIsShown(s) /\ QueueIsTaken(s) /\ InteractionLasts(s)
        /\ ViewFollows(s)
    BY DEF TabsInvariant
  <2>2. OnlyActive(s)' /\ OneRun(s)' /\ OneChain(s)'
    BY <1>1, OnlyActiveStep, OneRunStep, OneChainStep
  <2>3. QueueIsTaken(s)' /\ InteractionLasts(s)' /\ ViewFollows(s)'
    BY <1>1, <2>1, QueueIsTakenStep, InteractionLastsStep, ViewFollowsStep
  <2>4. SteeredOnce(s)' /\ SteeringIsShown(s)'
    BY <1>1, <2>1, SteeringStep
  <2> QED
    BY <2>2, <2>3, <2>4
<1> QED
  BY <1>2, <1>3 DEF TabsInvariant

(***************************************************************************)
(* What the sessions, their agents and their tabs share is kept by every   *)
(* step, of the commands and of the tasks they spawn: who runs, what       *)
(* waits, what was told and to whom, and the turns a tab has still to hear *)
(* of (send_message, advance_interaction, spawn_event_forwarder and        *)
(* LiveState::apply).                                                      *)
(***************************************************************************)
THEOREM TabsAreKept == Spec => []TabsInvariant
  BY TabsInit, TabsStep, PTL DEF Spec

-----------------------------------------------------------------------------
(***************************************************************************)
(* What the invariant says of types, queued messages and steered ones, as  *)
(* the run states it.                                                      *)
(***************************************************************************)
LEMMA TabsAreTyped == TabsInvariant => TypeOK
<1> SUFFICES ASSUME TabsInvariant PROVE TypeOK
  OBVIOUS
<1>1. TabsTypes /\ TabsOnce /\ \A s \in Sessions : OnlyActive(s) /\ OneRun(s)
  BY DEF TabsInvariant
<1>2. tabs \in Seq(Sessions) /\ Len(tabs) \in Nat /\ active \in 1..Len(tabs)
  BY <1>1, ActiveFacts
<1>3. ToSet(tabs) = {tabs[i] : i \in 1..Len(tabs)} /\ ToSet(tabs) \subseteq Sessions
  <2>1. DOMAIN tabs = 1..Len(tabs)
    BY <1>2
  <2> QED
    BY <1>2, <2>1 DEF ToSet
<1>4. Cardinality(ToSet(tabs)) = Len(tabs)
  <2> DEFINE N == Len(tabs)
             f == [i \in 1..N |-> tabs[i]]
  <2>1. f \in [1..N -> ToSet(tabs)]
    BY <1>3
  <2>2. \A i, j \in 1..N : f[i] = f[j] => i = j
    BY <1>1 DEF TabsOnce
  <2>3. \A x \in ToSet(tabs) : \E i \in 1..N : f[i] = x
    BY <1>3
  <2> HIDE DEF f
  <2>4. f \in Bijection(1..N, ToSet(tabs))
    <3>1. DOMAIN f = 1..N
      BY <2>1
    <3> QED
      BY <2>1, <2>2, <2>3, <3>1 DEF Bijection, Injection, IsInjective, Surjection
  <2>5. ExistsBijection(1..N, ToSet(tabs))
    BY <2>4 DEF ExistsBijection
  <2> QED
    BY <1>2, <2>5, FS_CountingElements
<1>5. ASSUME NEW s \in Sessions
      PROVE  /\ (phase[s] = "none") <=> ~HasTab(s)
             /\ forwarder[s] # "off" => phase[s] = "active"
             /\ live[s].at \in Nat /\ live[s].base <= Len(live[s].messages)
             /\ {n \in ChainsOf(s) : chain[n].at \in {"running", "replied"}} # {} <=> running[s]
  <2>1. live[s] \in ViewType /\ IsView(live[s])
    BY <1>1 DEF TabsTypes
  <2>2. {n \in ChainsOf(s) : chain[n].at \in {"running", "replied"}} # {} <=> running[s]
    BY <1>1 DEF OneRun, InRun
  <2> QED
    BY <1>1, <2>1, <2>2 DEF TabsOnce, OnlyActive, IsView, ViewType
<1> QED
  BY <1>2, <1>3, <1>4, <1>5 DEF TypeOK

LEMMA QueuedAreHeard == TabsInvariant => QueuedIsHeard
<1> SUFFICES ASSUME TabsInvariant, NEW s \in Sessions, Spared(s, Unheard)
             PROVE  /\ Idle(s) => live[s].queue = <<>>
                    /\ \A n \in accepted :
                         \/ \E t \in Sessions : Contains(live[t].queue, n)
                                                  \/ Contains(file[t], Said("user", n))
                         \/ \E m \in Messages : chain[m].prompt = n /\ chain[m].at = "prompting"
                         \/ \E t \in Sessions : ~Spared(t, Unheard)
  BY DEF QueuedIsHeard
<1>1. Idle(s) => live[s].queue = <<>>
  BY DEF TabsInvariant, QueueIsTaken, Busy, Idle
<1>2. ASSUME NEW n \in accepted, \A t \in Sessions : Spared(t, Unheard)
      PROVE  \/ \E t \in Sessions : Contains(live[t].queue, n) \/ Contains(file[t], Said("user", n))
             \/ \E m \in Messages : chain[m].prompt = n /\ chain[m].at = "prompting"
  <2>1. PICK t \in Sessions : Held(t, n)
    BY <1>2 DEF TabsInvariant, AllAccounted
  <2>2. \A m \in ChainsOf(t) : m \in Messages
    BY DEF ChainsOf
  <2> QED
    BY <2>1, <2>2 DEF Held
<1> QED
  BY <1>1, <1>2

LEMMA SteeredIsShown == TabsInvariant => SteeringShownIsWaiting
<1> SUFFICES ASSUME TabsInvariant, NEW s \in Sessions, Spared(s, Lost \cup {"aborted"})
             PROVE  ToSet(live[s].steering) =
                      ToSet(steering[s]) \cup {m.n : m \in {x \in UNION {ToSet(e.messages) :
                        e \in {y \in ToSet(channel[s]) : y.type = "user"}} : x.kind = "steer"}}
  BY DEF SteeringShownIsWaiting
<1>1. ToSet(live[s].steering) = WaitsAt(steering[s], channel[s])
  BY DEF TabsInvariant, SteeringIsShown
<1> DEFINE c == channel[s]
           users == {y \in ToSet(c) : y.type = "user"}
<1>2. c \in Seq(EventType) /\ DOMAIN c = 1..Len(c)
  BY DEF TabsInvariant, TabsTypes, AgentTypes
<1> HIDE DEF c
<1>3. users = {c[i] : i \in Hearing(c)}
  BY <1>2 DEF ToSet, Hearing
<1>4. ASSUME NEW i \in Hearing(c)
      PROVE  ToSet(c[i].messages) = {c[i].messages[1]} /\ c[i].messages[1].kind = "steer"
  <2>1. c[i] \in EventType /\ c[i].type = "user"
    BY <1>2 DEF Hearing
  <2>2. c[i].messages \in Seq(SaidType) /\ Len(c[i].messages) = 1
          /\ c[i].messages[1].kind = "steer"
    BY <2>1, EventFacts
  <2>3. DOMAIN c[i].messages = {1}
    BY <2>2
  <2> QED
    BY <2>2, <2>3 DEF ToSet
<1> HIDE DEF users
<1>5. UNION {ToSet(e.messages) : e \in users} = {c[i].messages[1] : i \in Hearing(c)}
  BY <1>3, <1>4
<1>6. {m.n : m \in {x \in UNION {ToSet(e.messages) : e \in users} : x.kind = "steer"}}
        = {Tells1(c, i) : i \in Hearing(c)}
  <2> DEFINE U == UNION {ToSet(e.messages) : e \in users}
  <2>1. U = {c[i].messages[1] : i \in Hearing(c)}
    BY <1>5
  <2> HIDE DEF U
  <2>2. {x \in U : x.kind = "steer"} = {c[i].messages[1] : i \in Hearing(c)}
    BY <1>4, <2>1
  <2>3. {m.n : m \in {x \in U : x.kind = "steer"}} = {c[i].messages[1].n : i \in Hearing(c)}
    BY <2>2
  <2> QED
    BY <2>3 DEF U, Tells1
<1> QED
  BY <1>1, <1>6 DEF WaitsAt, users, c

(***************************************************************************)
(* A message the user queued in a session, whatever the interleaving of    *)
(* its chain, its forwarder and the moves between tabs, is in the queue,   *)
(* about to be prompted or in the session's file, unless it was given up   *)
(* or accepted when no prompt was at work; and what a tab lists as steered *)
(* is what its agent, or the tab, has still to hear (send_running_message, *)
(* advance_interaction, abort).                                            *)
(***************************************************************************)
THEOREM WhatWaitsIsHeard == Spec => []WaitingIsHeard
<1>1. TabsInvariant => WaitingIsHeard
  BY TabsAreTyped, QueuedAreHeard, SteeredIsShown DEF WaitingIsHeard
<1> QED
  BY <1>1, TabsAreKept, PTL

(***************************************************************************)
(* A tab at rest tells the truth, for any number of sessions and messages  *)
(* and any capacity of the channels: it shows what the session's file      *)
(* holds, and no interaction that is over is shown as going on             *)
(* (LiveState::apply, append_prompt_error, finish_interaction).            *)
(***************************************************************************)
THEOREM TabsAtRestAreTrue == Spec => []IdleTabIsTrue
<1>1. ASSUME TabsInvariant PROVE ViewIsTheFile
  <2> SUFFICES ASSUME NEW s \in Sessions, HasTab(s), Idle(s),
                      Spared(s, Lost \cup {"error in turn"})
               PROVE  Unsteered(live[s].messages) = Loaded(file[s])
    BY DEF ViewIsTheFile
  <2>1. ChainsOf(s) = {} /\ channel[s] = <<>>
    BY DEF Idle
  <2>2. Follows(s)
    BY <1>1, <2>1 DEF TabsInvariant, ViewFollows, Failing
  <2>3. PICK text \in Seq(SaidType) : Telling(live[s], channel[s], InLoop(s), text) /\ Due(s, text)
    BY <2>2 DEF Follows
  <2>4. text = Loaded(file[s])
    BY <2>1, <2>3 DEF Due
  <2>5. (InLoop(s) <=> FALSE) /\ InLoop(s) \in BOOLEAN
    BY <2>1 DEF InLoop
  <2>6. Telling(live[s], <<>>, FALSE, text)
    <3>1. Telling(live[s], <<>>, InLoop(s), text)
      BY <2>1, <2>3, Zenon
    <3> QED
      BY <2>5, <3>1, LoopAlike
  <2> QED
    BY <2>4, <2>6, ToldAtRest
<1>2. ASSUME TabsInvariant PROVE InteractionIsOver
  <2> SUFFICES ASSUME NEW s \in Sessions, Idle(s), Spared(s, {"late", "stale", "double"})
               PROVE  /\ ~live[s].streaming /\ ~live[s].interaction
                      /\ live[s].summary # {} => live[s].summary = {ChangedSinceStart(file[s])}
    BY DEF InteractionIsOver
  <2>1. ~AtWork(s)
    BY DEF Idle, AtWork
  <2>2. Lasts(live[s], AtWork(s), Taking(s), file[s])
    BY <1>2 DEF TabsInvariant, InteractionLasts
  <2> QED
    BY <2>1, <2>2 DEF Lasts
<1>3. TabsInvariant => IdleTabIsTrue
  BY <1>1, <1>2 DEF IdleTabIsTrue
<1> QED
  BY <1>3, TabsAreKept, PTL

(***************************************************************************)
(* The main view, when no snapshot is on its way, knows of the session it  *)
(* shows whether its prompts run, and so whether a message is sent or      *)
(* queued (emit_state, switch_session).                                    *)
(***************************************************************************)
THEOREM ScreensCatchUp == Spec => []ScreenCatchesUp
<1>1. TabsInvariant => ScreenCatchesUp
  <2> SUFFICES ASSUME TabsInvariant, emitting = {}, shown.session = Active
               PROVE  shown = Snapshot(Active, live[Active])
    BY DEF ScreenCatchesUp
  <2>1. shown.streaming = live[Active].streaming
    BY DEF TabsInvariant, ScreenIsTold
  <2>2. shown \in [session : Sessions, streaming : BOOLEAN]
    BY DEF TabsInvariant, TabsTypes, ScreenTypes
  <2> QED
    BY <2>1, <2>2 DEF Snapshot
<1> QED
  BY <1>1, TabsAreKept, PTL
=============================================================================
