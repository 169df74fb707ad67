---------------------------- MODULE SessionProofs ----------------------------
(***************************************************************************)
(* What an AgentSession promises, for every number of callers, messages    *)
(* and interruptions: one run at a time, a file that tells each run once   *)
(* and in order, results behind their calls, and a memory that at rest is  *)
(* what the file says.                                                     *)
(***************************************************************************)
EXTENDS AgentSession, SelectionTheorems

(***************************************************************************)
(* The inductive invariant, in four layers, each of which rests on those   *)
(* before it.  The first: types, and whose the slot is.                    *)
(***************************************************************************)
Stages ==
  {"claimed", "armed", "building", "configuring", "looping", "drained", "persisted",
   "compacting", "ready", "refused", "unwritten", "partly", "failed", "ended", "gone"}

SessionTypes ==
  /\ isRunning \in BOOLEAN /\ isCompacting \in BOOLEAN /\ overlapped \in BOOLEAN
  /\ token \in Tasks \cup {None} /\ cancelled \subseteq Tasks
  /\ memory \in Seq(Message) /\ entries \in Seq(Entry)
  /\ queue \in [Queues -> Seq(Message)]
  /\ kind \in [Tasks -> Calls] /\ pc \in [Tasks -> Stages]
  /\ context \in [Tasks -> Seq(Message)] /\ new \in [Tasks -> Seq(Message)]
  /\ stage \in [Compactors -> {"off", "started", "sleeping", "summarising", "rebuilding"}]
  /\ snapshot \in [Compactors -> [entries : Seq(Entry), cut : Nat]]
  /\ \A c \in Compactors :
       stage[c] \in {"summarising", "rebuilding"} => snapshot[c].cut # 0
  /\ calls \in Nat

\* The slot is t's: it will give it back, or never.
Holds(t) == Working(t) \/ pc[t] = "unwritten"

SlotIsOnes ==
  /\ \A t, u \in Tasks : Holds(t) /\ Holds(u) => t = u
  /\ isRunning <=> \E t \in Tasks : Holds(t)
  /\ \A t \in Tasks : Working(t) /\ pc[t] # "claimed" => token = t
  /\ \A t \in Tasks : stage[t] # "off" <=> pc[t] = "compacting"

(***************************************************************************)
(* The second: a result stands right behind its call, in what the file     *)
(* holds as in what is in memory, and no cut comes between them.           *)
(***************************************************************************)
Results == {e \in Entry : e.kind = "result"}
CallOf ==
  {pair \in Entry \X Entry :
     /\ pair[1].kind = "call"
     /\ pair[2].kind = "result" => pair[1].by = pair[2].by /\ pair[1].n = pair[2].n}
Tight(s) == Behind(s, Results, CallOf)

SafeToCut(es, i) == i \in 1..Len(es) /\ es[i].kind # "result"

CutsAreSafe(es) ==
  \A i \in 1..Len(es) : es[i].kind = "compaction" => es[i].keep < i /\ SafeToCut(es, es[i].keep)

QueuedAreUsers ==
  \A q \in Queues : \A i \in 1..Len(queue[q]) :
    queue[q][i].kind = "user" /\ queue[q][i].by = q

HistoryIsTight ==
  /\ Tight(memory) /\ Tight(entries) /\ CutsAreSafe(entries)
  /\ \A t \in Tasks : Tight(context[t]) /\ Tight(new[t])
  /\ QueuedAreUsers
  /\ \A c \in Compactors : stage[c] \in {"summarising", "rebuilding"} =>
       /\ IsPrefix(snapshot[c].entries, entries)
       /\ SafeToCut(snapshot[c].entries, snapshot[c].cut)

(***************************************************************************)
(* The third: what a run has added and what of it is in the file, by where *)
(* its task stands.                                                        *)
(***************************************************************************)
Opening(t) == IF kind[t] = "prompt" THEN <<Prompt(t)>> ELSE <<>>

\* What a loop adds behind the prompt.
Added(t) ==
  {m \in Message : \/ m.by = t /\ m.kind \in {"answer", "call", "result"}
                   \/ m.by \in Queues /\ m.kind = "user"}

NewIsAdded(t) ==
  \A i \in 1..Len(new[t]) :
    IF i = 1 /\ kind[t] = "prompt" THEN new[t][i] = Prompt(t) ELSE new[t][i] \in Added(t)

\* The messages in memory and in the file are of tasks, and queued ones.
Heard == {e \in Entry : IsMessage(e) => e.by \in Tasks \cup Queues}

RunIsWritten(t) ==
  /\ NewIsAdded(t)
  /\ pc[t] \in {"ready", "refused", "claimed", "armed", "unwritten"} =>
       OnFile(t) = <<>> /\ new[t] = <<>>
  /\ pc[t] = "armed" => kind[t] = "prompt"
  /\ pc[t] \in {"building", "configuring"} => OnFile(t) = Opening(t) /\ new[t] = <<>>
  /\ pc[t] \in {"looping", "drained"} => OnFile(t) = Opening(t)
  /\ pc[t] = "looping" /\ kind[t] = "prompt" => new[t] # <<>>
  /\ pc[t] \in {"persisted", "compacting", "ended"} => OnFile(t) = Expected(t)
  /\ pc[t] \in {"partly", "failed", "gone"} => IsPrefix(OnFile(t), Expected(t))

RunsAreWritten ==
  /\ memory \in Seq(Heard) /\ entries \in Seq(Heard)
  /\ \A t \in Tasks : RunIsWritten(t)

(***************************************************************************)
(* The fourth: while no compaction went along with a run and no persist    *)
(* failed, memory lags behind the file by a prompt at most, and by the     *)
(* summary that is being put in.                                           *)
(***************************************************************************)
Undisturbed == ~overlapped /\ \A t \in Tasks : pc[t] # "partly"

ToldSet ==
  {m \in Message : IsMessage(m) /\ m.by \in Tasks /\ (m.kind = "user" => new[m.by] # <<>>)}

\* The prompt of t is in the file and not in memory yet.
Prompting(t) ==
  kind[t] = "prompt" /\ pc[t] \in {"building", "configuring", "looping", "drained"}

SameTold ==
  Kept(ContextMessages(entries), ToldSet) = Kept(memory, ToldSet)
AllButPrompt(t) ==
  Kept(ContextMessages(entries), ToldSet \cup {Prompt(t)})
    = Append(Kept(memory, ToldSet), Prompt(t))
TellTheSame ==
  /\ \A t \in Tasks : Prompting(t) => AllButPrompt(t)
  /\ (\A t \in Tasks : ~Prompting(t)) => SameTold

\* A compaction by Caller has the session for itself.
CallerAlone == Compacting(Caller) => ~isRunning

\* What a task reported is in memory when it is past its persist.
Reported == {"persisted", "compacting", "ended", "failed", "gone"}
MemoryIsReported ==
  \A i \in 1..Len(memory) : \A t \in Tasks :
    IsMessage(memory[i]) /\ memory[i].by = t => pc[t] \in Reported

SnapshotsAreTheFile ==
  \A c \in Compactors :
    /\ stage[c] = "summarising" => entries = snapshot[c].entries
    /\ stage[c] = "rebuilding" =>
         entries = Append(snapshot[c].entries, Compaction(snapshot[c].cut))

MemoryFollows ==
  Undisturbed =>
    /\ CallerAlone /\ MemoryIsReported /\ SnapshotsAreTheFile
    /\ (\A c \in Compactors : stage[c] # "rebuilding") => TellTheSame

SessionIInv ==
  /\ SessionTypes /\ SlotIsOnes
  /\ HistoryIsTight
  /\ RunsAreWritten
  /\ MemoryFollows

-----------------------------------------------------------------------------
(***************************************************************************)
(* What the operators of the branch return.                                *)
(***************************************************************************)
LEMMA MessagesType ==
  ASSUME NEW es \in Seq(Entry)
  PROVE  Messages(es) \in Seq(Message)
<1> DEFINE S == {e \in Range(es) : IsMessage(e)}
<1>1. Kept(es, S) \in Seq(Entry \cap S)
  BY KeptType
<1>2. \A x \in Entry \cap S : x \in Message
  BY DEF Entry, IsMessage, MessageKinds
<1> HIDE DEF S
<1>3. \A i \in 1..Len(Kept(es, S)) : Kept(es, S)[i] \in Message
  BY <1>1, <1>2
<1>4. Kept(es, S) \in Seq(Message)
  BY <1>1, <1>3, OverItsElements
<1> QED
  BY <1>4 DEF Messages, S

LEMMA FromType ==
  ASSUME NEW X, NEW es \in Seq(X), NEW i \in Nat \ {0}
  PROVE  From(es, i) \in Seq(X)
BY DEF From

\* Where the agent's messages start, the position of a compaction's cut or the first.
LEMMA ContextStartType ==
  ASSUME NEW es \in Seq(Entry)
  PROVE  /\ ContextStart(es) \in Nat \ {0}
         /\ Compactions(es) # {} =>
              \E i \in Compactions(es) :
                 /\ \A j \in Compactions(es) : i >= j
                 /\ ContextStart(es) = es[i].keep
<1>1. CASE Compactions(es) = {}
  BY <1>1 DEF ContextStart
<1>2. CASE Compactions(es) # {}
  <2>1. /\ Compactions(es) \in SUBSET Nat
        /\ \A n \in Compactions(es) : n <= Len(es)
        /\ Len(es) \in Nat
    BY DEF Compactions
  <2>2. \E n \in Compactions(es) : \A m \in Compactions(es) : n >= m
    BY <1>2, <2>1, GreatestMember
  <2>3. /\ Max(Compactions(es)) \in Compactions(es)
        /\ \A m \in Compactions(es) : Max(Compactions(es)) >= m
    BY <2>2 DEF Max
  <2>4. ContextStart(es) = es[Max(Compactions(es))].keep
    BY <1>2 DEF ContextStart
  <2>5. es[Max(Compactions(es))] \in Entry /\ es[Max(Compactions(es))].kind = "compaction"
    BY <2>3 DEF Compactions
  <2>6. es[Max(Compactions(es))].keep \in Nat \ {0}
    BY <2>5 DEF Entry, Message, Kinds, MessageKinds
  <2> QED
    BY <2>3, <2>4, <2>6
<1> QED
  BY <1>1, <1>2

LEMMA ContextMessagesType ==
  ASSUME NEW es \in Seq(Entry)
  PROVE  ContextMessages(es) \in Seq(Message)
BY ContextStartType, FromType, MessagesType DEF ContextMessages

LEMMA ToPersistType ==
  ASSUME NEW ms \in Seq(Message)
  PROVE  ToPersist(ms) \in Seq(Message)
BY KeptType DEF ToPersist

\* A planned cut is behind the first entry, at one that does not follow its call.
LEMMA PlanCuts ==
  ASSUME NEW es \in Seq(Entry), NEW used
  PROVE  /\ Plan(es, used) \in Nat
         /\ Plan(es, used) # 0 => Plan(es, used) > 1 /\ SafeToCut(es, Plan(es, used))
<1> DEFINE heavy == HeavyTails(es)
           cut   == SafeCut(es, Max(heavy))
<1>1. Plan(es, used) = IF OverThreshold(es, used) /\ heavy # {} /\ cut > 1 THEN cut ELSE 0
  BY DEF Plan
<1>2. CASE heavy = {}
  BY <1>1, <1>2
<1>3. CASE heavy # {}
  <2>1. /\ heavy \in SUBSET Nat /\ \A n \in heavy : n \in 1..Len(es)
        /\ \A n \in heavy : n <= Len(es)
        /\ Len(es) \in Nat
    BY DEF HeavyTails
  <2> HIDE DEF heavy
  <2>2. \E n \in heavy : \A m \in heavy : n >= m
    BY <1>3, <2>1, GreatestMember
  <2>3. Max(heavy) \in 1..Len(es)
    BY <2>1, <2>2 DEF Max
  <2> DEFINE safe == {i \in 1..Max(heavy) : i = 1 \/ ~InExchange(es, i)}
  <2>4. 1 \in safe /\ safe \in SUBSET Nat /\ \A n \in safe : n <= Len(es)
    BY <2>3
  <2>5. cut = Max(safe)
    BY DEF SafeCut
  <2> HIDE DEF safe
  <2>6. safe # {}
    BY <2>4
  <2>7. \E n \in safe : \A m \in safe : n >= m
    BY <2>1, <2>4, <2>6, GreatestMember
  <2>8. Max(safe) \in safe
    BY <2>7 DEF Max
  <2>9. cut \in 1..Len(es) /\ (cut = 1 \/ ~InExchange(es, cut))
    BY <2>3, <2>5, <2>8 DEF safe
  <2>10. cut > 1 => SafeToCut(es, cut)
    BY <2>9 DEF SafeToCut, InExchange, IsKind
  <2> HIDE DEF cut
  <2> QED
    BY <1>1, <2>9, <2>10
<1> QED
  BY <1>2, <1>3


-----------------------------------------------------------------------------
(***************************************************************************)
(* Types.                                                                  *)
(***************************************************************************)
LEMMA MessagesOfTasks ==
  /\ \A t \in Tasks : Prompt(t) \in Message /\ Opening(t) \in Seq(Message)
  /\ Summary \in Message /\ Message \subseteq Entry
  /\ \A q \in Queues, n \in Nat : Msg("user", q, n, 0) \in Message
  /\ \A t \in Tasks, n \in Nat, u \in Nat :
       /\ Msg("answer", t, n, u) \in Message /\ Msg("call", t, n, u) \in Message
       /\ Msg("result", t, n, u) \in Message
  /\ \A n \in Nat \ {0} : Compaction(n) \in Entry
<1>1. \A t \in Tasks : Prompt(t) \in Message
  BY DEF Prompt, Message, Msg, Compactors, Kinds, MessageKinds
<1>2. \A t \in Tasks : Opening(t) \in Seq(Message)
  BY <1>1 DEF Opening
<1>3. Summary \in Message /\ Message \subseteq Entry
  BY DEF Summary, Message, Entry, Msg, Compactors, Kinds
<1>4. \A q \in Queues, n \in Nat : Msg("user", q, n, 0) \in Message
  BY DEF Message, Msg, Kinds, MessageKinds
<1>5. \A t \in Tasks, n \in Nat, u \in Nat :
        /\ Msg("answer", t, n, u) \in Message /\ Msg("call", t, n, u) \in Message
        /\ Msg("result", t, n, u) \in Message
  BY DEF Message, Msg, Compactors, Kinds, MessageKinds
<1>6. \A n \in Nat \ {0} : Compaction(n) \in Entry
  BY DEF Entry, Compaction
<1> QED
  BY <1>1, <1>2, <1>3, <1>4, <1>5, <1>6

LEMMA HalfWrittenType ==
  ASSUME SessionTypes, NEW written \in HalfWritten
  PROVE  /\ written \in Seq(Message)
         /\ written # <<>> => \E t \in Tasks : \E n \in 0..Len(ToPersist(new[t])) :
              pc[t] = "drained" /\ written = SubSeq(ToPersist(new[t]), 1, n)
<1>1. CASE written = <<>>
  BY <1>1
<1>2. CASE written # <<>>
  <2>1. PICK t \in Tasks : pc[t] = "drained" /\ written \in Prefixes(ToPersist(new[t]))
    <3> DEFINE P(u) == Prefixes(ToPersist(new[u]))
    <3>1. written \in UNION {P(t) : t \in {u \in Tasks : pc[u] = "drained"}}
      BY <1>2 DEF HalfWritten
    <3> HIDE DEF P
    <3>2. \E t \in Tasks : pc[t] = "drained" /\ written \in P(t)
      BY <3>1
    <3> QED
      BY <3>2 DEF P
  <2>2. PICK n \in 0..Len(ToPersist(new[t])) : written = SubSeq(ToPersist(new[t]), 1, n)
    BY <2>1 DEF Prefixes
  <2>3. ToPersist(new[t]) \in Seq(Message)
    BY ToPersistType DEF SessionTypes
  <2> QED
    BY <2>1, <2>2, <2>3
<1> QED
  BY <1>1, <1>2

LEMMA PromptSizeType ==
  ASSUME SessionTypes, NEW t \in Tasks
  PROVE  PromptSize(t) \in Nat
<1>1. context[t] \in Seq(Entry) /\ new[t] \in Seq(Message)
  BY MessagesOfTasks DEF SessionTypes
<1>2. Messages(context[t]) \in Seq(Message)
  BY <1>1, MessagesType
<1>3. Len(Messages(context[t])) \in Nat /\ Len(new[t]) \in Nat
  BY <1>1, <1>2
<1>4. PromptSize(t) = Len(Messages(context[t])) + Len(new[t])
  BY Zenon DEF PromptSize
<1>5. \A m, n \in Nat : m + n \in Nat
  OBVIOUS
<1> QED
  BY <1>3, <1>4, <1>5, Zenon

\* A compaction that returns changes none of memory, file, queues and messages.
LEMMA ReturnTypes ==
  ASSUME SessionTypes, NEW c \in Compactors, NEW how \in {"ended", "failed"}, Return(c, how),
         memory' \in Seq(Message), UNCHANGED <<entries, queue, calls, overlapped>>
  PROVE  SessionTypes'
<1> USE DEF SessionTypes, GoTo, slot, task, Stages
<1>1. /\ isCompacting' = FALSE /\ stage' = [stage EXCEPT ![c] = "off"]
      /\ snapshot' = [snapshot EXCEPT ![c] = [entries |-> <<>>, cut |-> 0]]
      /\ kind' = kind /\ context' = context /\ new' = new
  BY DEF Return
<1>2. /\ isRunning' \in BOOLEAN /\ token' \in Tasks \cup {None} /\ cancelled' \subseteq Tasks
      /\ pc' \in [Tasks -> Stages]
  <2>1. CASE c = Caller
    BY <2>1 DEF Return
  <2>2. CASE c # Caller
    <3>1. /\ Release(c) /\ pc' = [pc EXCEPT ![c] = how] /\ c \in Tasks
      BY <2>2 DEF Return, Compactors
    <3> QED
      BY <3>1 DEF Release
  <2> QED
    BY <2>1, <2>2
<1>3. <<>> \in Seq(Entry) /\ [entries |-> <<>>, cut |-> 0] \in [entries : Seq(Entry), cut : Nat]
  OBVIOUS
<1>4. /\ stage' \in [Compactors -> {"off", "started", "sleeping", "summarising", "rebuilding"}]
      /\ snapshot' \in [Compactors -> [entries : Seq(Entry), cut : Nat]]
      /\ \A d \in Compactors :
           stage'[d] \in {"summarising", "rebuilding"} => snapshot'[d].cut # 0
  BY <1>1, <1>3
<1> QED
  BY <1>1, <1>2, <1>4

LEMMA TypesStep ==
  ASSUME SessionTypes, [Next]_vars
  PROVE  SessionTypes'
<1> USE DEF SessionTypes, GoTo, slot, task, compaction, history, Stages
<1>1. ASSUME NEW t \in Tasks, Claim(t) PROVE SessionTypes'
  BY <1>1 DEF Claim, Compacting
<1>2. ASSUME NEW t \in Tasks, InstallToken(t) PROVE SessionTypes'
  BY <1>2 DEF InstallToken
<1>3. ASSUME NEW t \in Tasks, AppendPrompt(t) PROVE SessionTypes'
  BY <1>3, MessagesOfTasks DEF AppendPrompt
<1>4. ASSUME NEW t \in Tasks, AppendPromptFails(t) PROVE SessionTypes'
  BY <1>4 DEF AppendPromptFails
<1>5. ASSUME NEW t \in Tasks, BuildContext(t) PROVE SessionTypes'
  BY <1>5 DEF BuildContext
<1>6. ASSUME NEW t \in Tasks, ConfigFails(t) PROVE SessionTypes'
  <2>1. /\ token' = None /\ isRunning' = FALSE /\ cancelled' \subseteq cancelled
        /\ context' \in [Tasks -> Seq(Message)] /\ pc' \in [Tasks -> Stages]
    BY <1>6 DEF ConfigFails, Release
  <2> QED
    BY <1>6, <2>1 DEF ConfigFails
<1>7. ASSUME NEW t \in Tasks, StartLoop(t) PROVE SessionTypes'
  BY <1>7, MessagesOfTasks DEF StartLoop, Opening
<1>8. ASSUME NEW t \in Tasks, LoopAnswers(t) PROVE SessionTypes'
  BY <1>8, PromptSizeType, MessagesOfTasks, SMTT(30) DEF LoopAnswers, LoopAdds
<1>9. ASSUME NEW t \in Tasks, LoopUsesTool(t) PROVE SessionTypes'
  BY <1>9, PromptSizeType, MessagesOfTasks, SMTT(30) DEF LoopUsesTool, LoopAdds
<1>10. ASSUME NEW t \in Tasks, NEW q \in Queues, LoopHears(t, q) PROVE SessionTypes'
  BY <1>10 DEF LoopHears, LoopAdds
<1>11. ASSUME NEW t \in Tasks, LoopEnds(t) PROVE SessionTypes'
  BY <1>11 DEF LoopEnds
<1>12. ASSUME NEW t \in Tasks, LoopDies(t) PROVE SessionTypes'
  BY <1>12 DEF LoopDies
<1>13. ASSUME NEW t \in Tasks, Persist(t) PROVE SessionTypes'
  BY <1>13, ToPersistType, MessagesOfTasks DEF Persist
<1>14. ASSUME NEW t \in Tasks, PersistFails(t) PROVE SessionTypes'
  <2>1. PICK n \in 1..Len(new[t]) :
          /\ memory' = memory \o SubSeq(new[t], 1, n)
          /\ entries' = entries \o ToPersist(SubSeq(new[t], 1, n - 1))
    BY <1>14 DEF PersistFails
  <2>2. SubSeq(new[t], 1, n) \in Seq(Message) /\ SubSeq(new[t], 1, n - 1) \in Seq(Message)
    OBVIOUS
  <2>3. ToPersist(SubSeq(new[t], 1, n - 1)) \in Seq(Message)
    BY <2>2, ToPersistType
  <2>4. ToPersist(SubSeq(new[t], 1, n - 1)) \in Seq(Entry)
    BY <2>3, MessagesOfTasks
  <2>5. memory' \in Seq(Message) /\ entries' \in Seq(Entry)
    BY <2>1, <2>2, <2>4
  <2>6. /\ token' = None /\ isRunning' = FALSE /\ cancelled' \subseteq cancelled
        /\ pc' \in [Tasks -> Stages]
    BY <1>14 DEF PersistFails, Release
  <2> QED
    BY <1>14, <2>5, <2>6 DEF PersistFails
<1>15. ASSUME NEW t \in Tasks, EndWithoutCompaction(t) PROVE SessionTypes'
  BY <1>15 DEF EndWithoutCompaction, Release
<1>16. ASSUME NEW t \in Tasks, AutoCompact(t) PROVE SessionTypes'
  BY <1>16 DEF AutoCompact
<1>17. ASSUME Compact PROVE SessionTypes'
  <2>1. /\ isCompacting' \in BOOLEAN /\ overlapped' \in BOOLEAN /\ calls' \in Nat
        /\ stage' = [stage EXCEPT ![Caller] = "started"]
        /\ UNCHANGED <<slot, task, history, queue, snapshot>>
    BY <1>17 DEF Compact, Count
  <2> QED
    BY <2>1
<1>18. ASSUME NEW c \in Compactors, AbortRunning(c) PROVE SessionTypes'
  BY <1>18 DEF AbortRunning, AbortLoop, NoQueue
<1>19. ASSUME NEW c \in Compactors, TakeSnapshot(c) PROVE SessionTypes'
  BY <1>19, PlanCuts DEF TakeSnapshot
<1>20. ASSUME NEW c \in Compactors, AppendCompaction(c) PROVE SessionTypes'
  BY <1>20, MessagesOfTasks DEF AppendCompaction
<1>21. ASSUME NEW c \in Compactors, CompactionFails(c) PROVE SessionTypes'
  BY <1>21, ReturnTypes DEF CompactionFails
<1>22. ASSUME NEW c \in Compactors, Rebuild(c) PROVE SessionTypes'
  <2>1. /\ memory' = <<Summary>> \o Messages(From(snapshot[c].entries, snapshot[c].cut))
        /\ Return(c, "ended") /\ UNCHANGED <<entries, queue, calls, overlapped>>
        /\ snapshot[c].entries \in Seq(Entry) /\ snapshot[c].cut \in Nat \ {0}
    BY <1>22 DEF Rebuild
  <2>2. Messages(From(snapshot[c].entries, snapshot[c].cut)) \in Seq(Message)
    BY <2>1, FromType, MessagesType
  <2>3. memory' \in Seq(Message)
    BY <2>1, <2>2, MessagesOfTasks
  <2> QED
    BY <2>1, <2>3, ReturnTypes
<1>23. ASSUME NEW q \in Queues, Queue(q) PROVE SessionTypes'
  <2>1. Msg("user", q, calls, 0) \in Message /\ calls' \in Nat
    BY <1>23, MessagesOfTasks DEF Queue, Count
  <2>2. queue' \in [Queues -> Seq(Message)]
    BY <1>23, <2>1 DEF Queue
  <2> QED
    BY <1>23, <2>1, <2>2 DEF Queue
<1>24. ASSUME Abort PROVE SessionTypes'
  BY <1>24 DEF Abort, AbortLoop, NoQueue, Count
<1>25. ASSUME Restart PROVE SessionTypes'
  <2>1. PICK written \in HalfWritten :
          /\ entries' = entries \o written
          /\ memory' = ContextMessages(entries \o written)
    BY <1>25 DEF Restart
  <2>2. written \in Seq(Entry)
    BY HalfWrittenType, MessagesOfTasks
  <2>3. entries' \in Seq(Entry) /\ memory' \in Seq(Message)
    <3>1. entries \o written \in Seq(Entry)
      BY <2>2
    <3> QED
      BY <2>1, <3>1, ContextMessagesType
  <2>4. /\ context' \in [Tasks -> Seq(Message)] /\ pc' \in [Tasks -> Stages]
        /\ queue' \in [Queues -> Seq(Message)] /\ calls' \in Nat
    BY <1>25 DEF Restart, Count, NoQueue
  <2>5. /\ stage' \in [Compactors -> {"off", "started", "sleeping", "summarising", "rebuilding"}]
        /\ snapshot' \in [Compactors -> [entries : Seq(Entry), cut : Nat]]
        /\ \A c \in Compactors : stage'[c] = "off"
    BY <1>25 DEF Restart
  <2> QED
    BY <1>25, <2>3, <2>4, <2>5 DEF Restart
<1>26. ASSUME UNCHANGED vars PROVE SessionTypes'
  BY <1>26 DEF vars
<1> QED
  BY <1>1, <1>2, <1>3, <1>4, <1>5, <1>6, <1>7, <1>8, <1>9, <1>10, <1>11, <1>12, <1>13,
     <1>14, <1>15, <1>16, <1>17, <1>18, <1>19, <1>20, <1>21, <1>22, <1>23, <1>24, <1>25,
     <1>26 DEF Next, TaskStep, LoopRuns, CompactionStep

-----------------------------------------------------------------------------
(***************************************************************************)
(* The slot.  A step leaves it alone, moves the task that holds it on, or  *)
(* gives it back.                                                          *)
(***************************************************************************)
Held == {"claimed", "armed", "building", "configuring", "looping", "drained", "persisted",
         "compacting", "unwritten"}

LEMMA HoldsByStage ==
  ASSUME NEW t
  PROVE  /\ Holds(t) <=> pc[t] \in Held
         /\ Holds(t)' <=> pc'[t] \in Held
         /\ Working(t) <=> pc[t] \in Held \ {"unwritten"}
         /\ Working(t)' <=> pc'[t] \in Held \ {"unwritten"}
BY DEF Holds, Working, Held

StagesStayOn == \A t \in Tasks : stage'[t] # "off" <=> stage[t] # "off"

LeavesSlot == pc' = pc /\ isRunning' = isRunning /\ token' = token /\ StagesStayOn

LEMMA SlotLeft ==
  ASSUME SlotIsOnes, LeavesSlot
  PROVE  SlotIsOnes'
BY DEF SlotIsOnes, LeavesSlot, StagesStayOn, Holds, Working

MovesOn(t, to) ==
  /\ pc[t] \in Held \ {"unwritten", "compacting"} /\ to \in Held \ {"claimed"}
  /\ pc' = [pc EXCEPT ![t] = to] /\ isRunning' = isRunning
  /\ IF pc[t] = "claimed" THEN token' = t ELSE token' = token
  /\ \A u \in Tasks : stage'[u] # "off" <=> stage[u] # "off" \/ (u = t /\ to = "compacting")

LEMMA SlotMovedOn ==
  ASSUME SessionTypes, SlotIsOnes, NEW t \in Tasks, NEW to, MovesOn(t, to)
  PROVE  SlotIsOnes'
<1>1. \A u \in Tasks : pc'[u] = IF u = t THEN to ELSE pc[u]
  BY DEF SessionTypes, MovesOn
<1>2. \A u \in Tasks : Holds(u)' <=> Holds(u)
  BY <1>1, HoldsByStage DEF MovesOn
<1>3. Holds(t)
  BY HoldsByStage DEF MovesOn
<1>4. \A u \in Tasks : Working(u)' /\ pc'[u] # "claimed" => token' = u
  <2> SUFFICES ASSUME NEW u \in Tasks, Working(u)', pc'[u] # "claimed"
               PROVE  token' = u
    OBVIOUS
  <2>1. u = t
    BY <1>2, <1>3, HoldsByStage DEF SlotIsOnes
  <2>2. CASE pc[t] = "claimed"
    BY <2>1, <2>2 DEF MovesOn
  <2>3. CASE pc[t] # "claimed"
    BY <2>1, <2>3, HoldsByStage DEF MovesOn, SlotIsOnes
  <2> QED
    BY <2>2, <2>3
<1>5. \A u \in Tasks : stage'[u] # "off" <=> pc'[u] = "compacting"
  BY <1>1 DEF MovesOn, SlotIsOnes
<1>6. isRunning' <=> \E u \in Tasks : Holds(u)'
  BY <1>2 DEF MovesOn, SlotIsOnes
<1> QED
  BY <1>2, <1>4, <1>5, <1>6 DEF SlotIsOnes

GivesBack(t, to) ==
  /\ pc[t] \in Held \ {"unwritten"} /\ to \notin Held
  /\ pc' = [pc EXCEPT ![t] = to] /\ isRunning' = FALSE /\ token' = None
  /\ \A u \in Tasks : stage'[u] # "off" <=> (stage[u] # "off" /\ u # t)

LEMMA SlotGivenBack ==
  ASSUME SessionTypes, SlotIsOnes, NEW t \in Tasks, NEW to, GivesBack(t, to)
  PROVE  SlotIsOnes' /\ \A u \in Tasks : ~Holds(u)'
<1>1. \A u \in Tasks : pc'[u] = IF u = t THEN to ELSE pc[u]
  BY DEF SessionTypes, GivesBack
<1>2. Holds(t)
  BY HoldsByStage DEF GivesBack
<1>3. \A u \in Tasks : ~Holds(u)'
  BY <1>1, <1>2, HoldsByStage DEF GivesBack, SlotIsOnes
<1>4. \A u \in Tasks : ~Working(u)'
  BY <1>3, HoldsByStage
<1>5. \A u \in Tasks : stage'[u] # "off" <=> pc'[u] = "compacting"
  BY <1>1 DEF GivesBack, SlotIsOnes, Held
<1> QED
  BY <1>3, <1>4, <1>5 DEF SlotIsOnes, GivesBack

\* A compaction that returns leaves the slot, or gives back that of its task.
LEMMA ReturnSlot ==
  ASSUME SessionTypes, SlotIsOnes, NEW c \in Compactors, NEW how \in {"ended", "failed"},
         stage[c] # "off", Return(c, how)
  PROVE  /\ IF c = Caller THEN LeavesSlot ELSE c \in Tasks /\ GivesBack(c, how)
         /\ stage' = [stage EXCEPT ![c] = "off"]
<1>1. stage' = [stage EXCEPT ![c] = "off"]
  BY DEF Return
<1>2. \A d \in Compactors : stage'[d] = IF d = c THEN "off" ELSE stage[d]
  BY <1>1 DEF SessionTypes
<1>3. CASE c = Caller
  BY <1>1, <1>2, <1>3, SessionAssumption
     DEF Return, LeavesSlot, StagesStayOn, slot, task, Compactors
<1>4. CASE c # Caller
  <2>1. /\ Release(c) /\ pc' = [pc EXCEPT ![c] = how] /\ c \in Tasks
    BY <1>4 DEF Return, Compactors, GoTo
  <2>2. pc[c] = "compacting"
    BY <2>1 DEF SlotIsOnes
  <2>3. GivesBack(c, how)
    BY <1>2, <2>1, <2>2 DEF GivesBack, Release, Held, Compactors
  <2> QED
    BY <1>1, <1>4, <2>1, <2>3
<1> QED
  BY <1>3, <1>4

LEMMA SlotStep ==
  ASSUME SessionTypes, SlotIsOnes, [Next]_vars
  PROVE  SlotIsOnes'
<1> USE DEF GoTo, slot, task, compaction
<1>1. ASSUME NEW t \in Tasks, Claim(t) PROVE SlotIsOnes'
  <2>1. CASE isRunning
    <3>1. pc' = [pc EXCEPT ![t] = "refused"] /\ UNCHANGED <<isRunning, token, stage>>
          /\ pc[t] = "ready"
      BY <1>1, <2>1 DEF Claim
    <3>2. \A u \in Tasks : pc'[u] = IF u = t THEN "refused" ELSE pc[u]
      BY <3>1 DEF SessionTypes
    <3>3. \A u \in Tasks : Holds(u)' <=> Holds(u)
      BY <3>1, <3>2, HoldsByStage DEF Held
    <3>4. \A u \in Tasks : Working(u)' /\ pc'[u] # "claimed" => token' = u
      BY <3>1, <3>2, HoldsByStage DEF Held, SlotIsOnes
    <3> QED
      BY <3>1, <3>2, <3>3, <3>4 DEF SlotIsOnes
  <2>2. CASE ~isRunning
    <3>1. /\ pc' = [pc EXCEPT ![t] = "claimed"] /\ UNCHANGED <<token, stage>>
          /\ isRunning' = TRUE /\ pc[t] = "ready"
      BY <1>1, <2>2 DEF Claim
    <3>2. \A u \in Tasks : pc'[u] = IF u = t THEN "claimed" ELSE pc[u]
      BY <3>1 DEF SessionTypes
    <3>3. \A u \in Tasks : Holds(u)' <=> u = t
      BY <2>2, <3>1, <3>2, HoldsByStage DEF Held, SlotIsOnes
    <3>4. \A u \in Tasks : Working(u)' /\ pc'[u] # "claimed" => token' = u
      BY <3>2, <3>3, HoldsByStage
    <3>5. \A u \in Tasks : stage'[u] # "off" <=> pc'[u] = "compacting"
      BY <3>1, <3>2 DEF SlotIsOnes
    <3> QED
      BY <3>1, <3>3, <3>4, <3>5 DEF SlotIsOnes
  <2> QED
    BY <2>1, <2>2
<1>2. ASSUME NEW t \in Tasks, InstallToken(t) PROVE SlotIsOnes'
  <2>1. MovesOn(t, IF kind[t] = "prompt" THEN "armed" ELSE "building")
    BY <1>2 DEF InstallToken, MovesOn, Held
  <2> QED
    BY <2>1, SlotMovedOn
<1>3. ASSUME NEW t \in Tasks, AppendPrompt(t) PROVE SlotIsOnes'
  <2>1. MovesOn(t, "building")
    BY <1>3 DEF AppendPrompt, MovesOn, Held
  <2> QED
    BY <2>1, SlotMovedOn
<1>4. ASSUME NEW t \in Tasks, AppendPromptFails(t) PROVE SlotIsOnes'
  <2>1. MovesOn(t, "unwritten")
    BY <1>4 DEF AppendPromptFails, MovesOn, Held
  <2> QED
    BY <2>1, SlotMovedOn
<1>5. ASSUME NEW t \in Tasks, BuildContext(t) PROVE SlotIsOnes'
  <2>1. MovesOn(t, "configuring")
    BY <1>5 DEF BuildContext, MovesOn, Held
  <2> QED
    BY <2>1, SlotMovedOn
<1>6. ASSUME NEW t \in Tasks, ConfigFails(t) PROVE SlotIsOnes'
  <2>1. GivesBack(t, "failed")
    BY <1>6 DEF ConfigFails, Release, GivesBack, Held, SlotIsOnes
  <2> QED
    BY <2>1, SlotGivenBack
<1>7. ASSUME NEW t \in Tasks, StartLoop(t) PROVE SlotIsOnes'
  <2>1. MovesOn(t, "looping")
    BY <1>7 DEF StartLoop, MovesOn, Held
  <2> QED
    BY <2>1, SlotMovedOn
<1>8. ASSUME NEW t \in Tasks, LoopRuns(t) PROVE SlotIsOnes'
  BY <1>8, SlotLeft
     DEF LoopRuns, LoopAnswers, LoopUsesTool, LoopHears, LeavesSlot, StagesStayOn
<1>9. ASSUME NEW t \in Tasks, LoopEnds(t) \/ LoopDies(t) PROVE SlotIsOnes'
  <2>1. MovesOn(t, "drained")
    BY <1>9 DEF LoopEnds, LoopDies, MovesOn, Held
  <2> QED
    BY <2>1, SlotMovedOn
<1>10. ASSUME NEW t \in Tasks, Persist(t) PROVE SlotIsOnes'
  <2>1. MovesOn(t, "persisted")
    BY <1>10 DEF Persist, MovesOn, Held
  <2> QED
    BY <2>1, SlotMovedOn
<1>11. ASSUME NEW t \in Tasks, PersistFails(t) PROVE SlotIsOnes'
  <2>1. GivesBack(t, "partly")
    BY <1>11 DEF PersistFails, Release, GivesBack, Held, SlotIsOnes
  <2> QED
    BY <2>1, SlotGivenBack
<1>12. ASSUME NEW t \in Tasks, EndWithoutCompaction(t) PROVE SlotIsOnes'
  <2>1. GivesBack(t, "ended")
    BY <1>12 DEF EndWithoutCompaction, Release, GivesBack, Held, SlotIsOnes
  <2> QED
    BY <2>1, SlotGivenBack
<1>13. ASSUME NEW t \in Tasks, AutoCompact(t) PROVE SlotIsOnes'
  <2>1. \A u \in Tasks : stage'[u] = IF u = t THEN "started" ELSE stage[u]
    BY <1>13 DEF AutoCompact, SessionTypes, Compactors
  <2>2. MovesOn(t, "compacting")
    BY <1>13, <2>1 DEF AutoCompact, MovesOn, Held
  <2> QED
    BY <2>2, SlotMovedOn
<1>14. ASSUME Compact PROVE SlotIsOnes'
  <2>1. LeavesSlot
    BY <1>14, SessionAssumption
       DEF Compact, LeavesSlot, StagesStayOn, SessionTypes, Compactors
  <2> QED
    BY <2>1, SlotLeft
<1>15. ASSUME NEW c \in Compactors, AbortRunning(c) \/ TakeSnapshot(c) \/ AppendCompaction(c)
       PROVE  SlotIsOnes'
  <2>1. /\ pc' = pc /\ isRunning' = isRunning /\ token' = token
        /\ stage[c] # "off"
        /\ \E at \in {"sleeping", "summarising", "rebuilding"} : stage' = [stage EXCEPT ![c] = at]
    BY <1>15 DEF AbortRunning, TakeSnapshot, AppendCompaction, MayPlan, AbortLoop
  <2>2. LeavesSlot
    BY <2>1 DEF LeavesSlot, StagesStayOn, SessionTypes, Compactors
  <2> QED
    BY <2>2, SlotLeft
<1>16. ASSUME NEW c \in Compactors, CompactionFails(c) \/ Rebuild(c) PROVE SlotIsOnes'
  <2>1. stage[c] # "off" /\ \E how \in {"ended", "failed"} : Return(c, how)
    BY <1>16 DEF CompactionFails, Rebuild, MayPlan
  <2> QED
    BY <2>1, ReturnSlot, SlotLeft, SlotGivenBack
<1>17. ASSUME NEW q \in Queues, Queue(q) PROVE SlotIsOnes'
  BY <1>17, SlotLeft DEF Queue, LeavesSlot, StagesStayOn
<1>18. ASSUME Abort PROVE SlotIsOnes'
  BY <1>18, SlotLeft DEF Abort, LeavesSlot, StagesStayOn
<1>19. ASSUME Restart PROVE SlotIsOnes'
  <2>1. /\ isRunning' = FALSE /\ token' = None
        /\ \A t \in Tasks : pc'[t] \in {"ready", "gone"} /\ stage'[t] = "off"
    BY <1>19 DEF Restart, Compactors
  <2> QED
    BY <2>1, HoldsByStage DEF SlotIsOnes, Held
<1>20. ASSUME UNCHANGED vars PROVE SlotIsOnes'
  BY <1>20, SlotLeft DEF vars, LeavesSlot, StagesStayOn
<1> QED
  BY <1>1, <1>2, <1>3, <1>4, <1>5, <1>6, <1>7, <1>8, <1>9, <1>10, <1>11, <1>12, <1>13,
     <1>14, <1>15, <1>16, <1>17, <1>18, <1>19, <1>20 DEF Next, TaskStep, CompactionStep

LEMMA SlotInit == Init => SessionTypes /\ SlotIsOnes
<1> SUFFICES ASSUME Init PROVE SessionTypes /\ SlotIsOnes
  OBVIOUS
<1>1. SessionTypes
  <2>1. /\ <<>> \in Seq(Message) /\ <<>> \in Seq(Entry)
        /\ [entries |-> <<>>, cut |-> 0] \in [entries : Seq(Entry), cut : Nat]
    OBVIOUS
  <2>2. /\ snapshot \in [Compactors -> [entries : Seq(Entry), cut : Nat]]
        /\ stage \in [Compactors -> {"off", "started", "sleeping", "summarising", "rebuilding"}]
        /\ \A c \in Compactors : stage[c] = "off"
    BY <2>1 DEF Init
  <2>3. /\ kind \in [Tasks -> Calls] /\ pc \in [Tasks -> Stages]
        /\ context \in [Tasks -> Seq(Message)] /\ new \in [Tasks -> Seq(Message)]
        /\ queue \in [Queues -> Seq(Message)]
    BY <2>1 DEF Init, Stages, Calls
  <2> QED
    BY <2>1, <2>2, <2>3 DEF Init, SessionTypes
<1>2. \A t \in Tasks : pc[t] = "ready" /\ stage[t] = "off"
  BY DEF Init, Compactors
<1>3. \A t \in Tasks : ~Holds(t) /\ ~Working(t)
  BY <1>2, HoldsByStage DEF Held
<1> QED
  BY <1>1, <1>2, <1>3 DEF Init, SlotIsOnes

(***************************************************************************)
(* One run at a time: from the claim to the last return of its             *)
(* auto-compaction the slot and the token are one task's, and but for the  *)
(* task that could not write its prompt each gives both back on every way  *)
(* out (prompt_with_prefix_blocks, continue_session, compact).             *)
(***************************************************************************)
THEOREM OneRunAtATime == Spec => []SessionInvariant
<1>1. Init => SessionTypes /\ SlotIsOnes
  BY SlotInit
<1>2. SessionTypes /\ SlotIsOnes /\ [Next]_vars => (SessionTypes /\ SlotIsOnes)'
  BY TypesStep, SlotStep
<1>3. SessionTypes /\ SlotIsOnes => SessionInvariant
  <2> SUFFICES ASSUME SessionTypes, SlotIsOnes PROVE SessionInvariant
    OBVIOUS
  <2>1. TypeOK
    <3>1. \A t \in Tasks : pc[t] \in Stages
      BY DEF SessionTypes
    <3>2. \A c \in Compactors : snapshot[c].entries \in Seq(Entry)
      BY DEF SessionTypes
    <3>3. \A t \in Tasks : Working(t) \/ pc[t] \in {"ready", "refused", "unwritten", "partly",
                                                    "failed", "ended", "gone"}
      BY <3>1 DEF Stages, Working
    <3> QED
      BY <3>2, <3>3 DEF SessionTypes, TypeOK
  <2>2. OneRunAndItsToken
    <3>1. \A t, u \in Tasks : Working(t) /\ Working(u) => t = u
      BY DEF SlotIsOnes, Holds
    <3>2. \A t \in Tasks : Working(t) /\ pc[t] # "claimed" => token = t /\ isRunning
      BY DEF SlotIsOnes, Holds
    <3> QED
      BY <3>1, <3>2 DEF OneRunAndItsToken
  <2>3. SlotIsHeldByATask
    BY DEF SlotIsOnes, SlotIsHeldByATask, Holds
  <2> QED
    BY <2>1, <2>2, <2>3 DEF SessionInvariant
<1> QED
  BY <1>1, <1>2, <1>3, PTL DEF Spec

-----------------------------------------------------------------------------
(***************************************************************************)
(* Results and their calls.  What is put behind something tight is tight,  *)
(* and so is a selection that keeps the calls, and a part that does not    *)
(* begin with a result.                                                    *)
(***************************************************************************)
LEMMA TightParts ==
  /\ Tight(<<>>)
  /\ \A e \in Entry : e.kind # "result" => Tight(<<e>>)
  /\ \A s, t \in Seq(Entry) : Tight(s) /\ Tight(t) => Tight(s \o t)
<1>1. Tight(<<>>)
  BY DEF Tight, Behind
<1>2. \A e \in Entry : e.kind # "result" => Tight(<<e>>)
  BY DEF Tight, Behind, Results
<1>3. \A s, t \in Seq(Entry) : Tight(s) /\ Tight(t) => Tight(s \o t)
  BY BehindConcat DEF Tight
<1> QED
  BY <1>1, <1>2, <1>3

LEMMA TightCut ==
  ASSUME NEW s \in Seq(Entry), Tight(s), NEW m \in Nat \ {0}, NEW n \in 0..Len(s),
         m = 1 \/ SafeToCut(s, m)
  PROVE  Tight(SubSeq(s, m, n)) /\ SubSeq(s, m, n) \in Seq(Entry)
<1>1. m <= Len(s) => s[m] \notin Results
  <2> SUFFICES ASSUME m <= Len(s), s[m] \in Results PROVE FALSE
    OBVIOUS
  <2>1. m \in 1..Len(s) /\ s[m].kind = "result"
    BY DEF Results
  <2>2. m > 1
    BY <2>1 DEF Tight, Behind
  <2> QED
    BY <2>1, <2>2 DEF SafeToCut
<1> QED
  BY <1>1, BehindPart DEF Tight

LEMMA TightFrom ==
  ASSUME NEW s \in Seq(Entry), Tight(s), NEW m \in Nat \ {0}, m = 1 \/ SafeToCut(s, m)
  PROVE  Tight(From(s, m)) /\ From(s, m) \in Seq(Entry)
BY TightCut DEF From

LEMMA TightKept ==
  ASSUME NEW s \in Seq(Entry), Tight(s), NEW S,
         \A i \in 1..Len(s) : s[i].kind = "call" => s[i] \in S
  PROVE  Tight(Kept(s, S))
<1> DEFINE X == {s[i] : i \in 1..Len(s)}
<1>1. s \in Seq(X)
  BY OverItsElements
<1>2. \A x, y \in X : x \in Results /\ <<y, x>> \in CallOf => y \in S
  BY DEF CallOf
<1> HIDE DEF X
<1>3. Behind(Kept(s, S), Results, CallOf)
  BY <1>1, <1>2, KeptBehind DEF Tight
<1> QED
  BY <1>3 DEF Tight

LEMMA TightMessages ==
  ASSUME NEW s \in Seq(Entry), Tight(s)
  PROVE  Tight(Messages(s))
<1>1. \A i \in 1..Len(s) : s[i].kind = "call" => s[i] \in {e \in Range(s) : IsMessage(e)}
  BY DEF Range, IsMessage, MessageKinds
<1> QED
  BY <1>1, TightKept DEF Messages

LEMMA TightToPersist ==
  ASSUME NEW s \in Seq(Message), Tight(s)
  PROVE  Tight(ToPersist(s))
<1>1. \A i \in 1..Len(s) : s[i].kind = "call" => s[i] \in {m \in Range(s) : ShouldPersist(m)}
  BY DEF Range, ShouldPersist
<1>2. s \in Seq(Entry)
  BY MessagesOfTasks
<1> QED
  BY <1>1, <1>2, TightKept DEF ToPersist

LEMMA TightContext ==
  ASSUME NEW s \in Seq(Entry), Tight(s), CutsAreSafe(s)
  PROVE  Tight(ContextMessages(s))
<1>1. ContextStart(s) = 1 \/ SafeToCut(s, ContextStart(s))
  <2>1. CASE Compactions(s) = {}
    BY <2>1 DEF ContextStart
  <2>2. CASE Compactions(s) # {}
    <3>1. PICK i \in Compactions(s) : ContextStart(s) = s[i].keep
      BY <2>2, ContextStartType
    <3> QED
      BY <3>1 DEF Compactions, CutsAreSafe
  <2> QED
    BY <2>1, <2>2
<1>2. Tight(From(s, ContextStart(s))) /\ From(s, ContextStart(s)) \in Seq(Entry)
  BY <1>1, ContextStartType, TightFrom
<1> QED
  BY <1>2, TightMessages DEF ContextMessages

\* What is tight is what the run checks.
LEMMA TightIsOrdered ==
  ASSUME NEW s \in Seq(Entry), Tight(s)
  PROVE  Ordered(s)
<1> SUFFICES ASSUME NEW i \in 1..Len(s), s[i].kind = "result"
             PROVE  /\ i > 1 /\ s[i - 1].kind = "call"
                    /\ s[i - 1].by = s[i].by /\ s[i - 1].n = s[i].n
  BY DEF Ordered
<1>1. s[i] \in Results
  BY DEF Results
<1>2. i > 1 /\ <<s[i - 1], s[i]>> \in CallOf
  BY <1>1 DEF Tight, Behind
<1> QED
  BY <1>2 DEF CallOf

LEMMA CutsStaySafe ==
  ASSUME NEW s \in Seq(Entry), CutsAreSafe(s)
  PROVE  /\ \A ms \in Seq(Message) : CutsAreSafe(s \o ms)
         /\ \A cut \in Nat \ {0} : SafeToCut(s, cut) => CutsAreSafe(Append(s, Compaction(cut)))
<1>1. ASSUME NEW ms \in Seq(Message)
      PROVE  CutsAreSafe(s \o ms)
  <2> DEFINE v == s \o ms
  <2>1. /\ Len(v) = Len(s) + Len(ms) /\ Len(s) \in Nat /\ Len(ms) \in Nat
        /\ \A i \in 1..Len(s) : v[i] = s[i]
        /\ \A i \in 1..Len(v) : i > Len(s) => v[i] \in Message
    BY MessagesOfTasks
  <2> HIDE DEF v
  <2> SUFFICES ASSUME NEW i \in 1..Len(v), v[i].kind = "compaction"
               PROVE  v[i].keep < i /\ SafeToCut(v, v[i].keep)
    BY DEF CutsAreSafe, v
  <2>2. i \in 1..Len(s)
    <3>1. v[i] \notin Message
      BY DEF Message, Kinds, MessageKinds
    <3> QED
      BY <2>1, <3>1
  <2>3. v[i].keep < i /\ SafeToCut(s, v[i].keep)
    BY <2>1, <2>2 DEF CutsAreSafe
  <2> QED
    BY <2>1, <2>3 DEF SafeToCut
<1>2. ASSUME NEW cut \in Nat \ {0}, SafeToCut(s, cut)
      PROVE  CutsAreSafe(Append(s, Compaction(cut)))
  <2> DEFINE v == Append(s, Compaction(cut))
  <2>1. /\ Len(v) = Len(s) + 1 /\ Len(s) \in Nat
        /\ \A i \in 1..Len(s) : v[i] = s[i]
        /\ v[Len(s) + 1] = Compaction(cut)
    BY MessagesOfTasks
  <2> HIDE DEF v
  <2> SUFFICES ASSUME NEW i \in 1..Len(v), v[i].kind = "compaction"
               PROVE  v[i].keep < i /\ SafeToCut(v, v[i].keep)
    BY DEF CutsAreSafe, v
  <2>2. CASE i \in 1..Len(s)
    <3>1. v[i].keep < i /\ SafeToCut(s, v[i].keep)
      BY <2>1, <2>2 DEF CutsAreSafe
    <3> QED
      BY <2>1, <3>1 DEF SafeToCut
  <2>3. CASE i = Len(s) + 1
    <3>1. v[i].keep = cut
      BY <2>1, <2>3 DEF Compaction
    <3> QED
      BY <1>2, <2>1, <2>3, <3>1 DEF SafeToCut
  <2> QED
    BY <2>1, <2>2, <2>3
<1> QED
  BY <1>1, <1>2

LEMMA PrefixMeans ==
  ASSUME NEW X, NEW s \in Seq(X), NEW t \in Seq(X)
  PROVE  /\ IsPrefix(s, t) <=> Len(s) <= Len(t) /\ \A i \in 1..Len(s) : s[i] = t[i]
         /\ IsPrefix(s, t) => s = SubSeq(t, 1, Len(s))
<1>1. s = SubSeq(s, 1, Len(s))
  OBVIOUS
<1>2. ASSUME Len(s) <= Len(t)
      PROVE  /\ SubSeq(t, 1, Len(s)) \in Seq(X) /\ Len(SubSeq(t, 1, Len(s))) = Len(s)
             /\ \A i \in 1..Len(s) : SubSeq(t, 1, Len(s))[i] = t[i]
  BY <1>2
<1>3. ASSUME Len(s) <= Len(t), \A i \in 1..Len(s) : s[i] = t[i]
      PROVE  s = SubSeq(t, 1, Len(s))
  <2> DEFINE v == SubSeq(t, 1, Len(s))
  <2>1. v \in Seq(X) /\ Len(v) = Len(s) /\ \A i \in 1..Len(s) : v[i] = s[i]
    BY <1>2, <1>3
  <2> HIDE DEF v
  <2>2. s = v
    BY <2>1
  <2> QED
    BY <2>2 DEF v
<1> QED
  BY <1>1, <1>2, <1>3 DEF IsPrefix

LEMMA PrefixGrows ==
  ASSUME NEW X, NEW s \in Seq(X), NEW t \in Seq(X), NEW x \in Seq(X), IsPrefix(s, t)
  PROVE  IsPrefix(s, t \o x)
<1> DEFINE v == t \o x
<1>1. /\ v \in Seq(X) /\ Len(v) = Len(t) + Len(x) /\ Len(x) \in Nat /\ Len(s) \in Nat
      /\ Len(t) \in Nat /\ \A i \in 1..Len(t) : v[i] = t[i]
  OBVIOUS
<1>2. Len(s) <= Len(t) /\ \A i \in 1..Len(s) : s[i] = t[i]
  BY PrefixMeans
<1> HIDE DEF v
<1>3. Len(s) <= Len(v) /\ \A i \in 1..Len(s) : s[i] = v[i]
  BY <1>1, <1>2
<1>4. IsPrefix(s, v)
  BY <1>1, <1>3, PrefixMeans
<1> QED
  BY <1>4 DEF v

(***************************************************************************)
(* A step that lets the file grow by messages.                             *)
(***************************************************************************)
SnapshotsStay ==
  \A c \in Compactors : stage'[c] \in {"summarising", "rebuilding"} =>
    stage[c] \in {"summarising", "rebuilding"} /\ snapshot'[c] = snapshot[c]

LEMMA TightGrows ==
  ASSUME SessionTypes, HistoryIsTight, NEW x \in Seq(Message), Tight(x),
         entries' = entries \o x, Tight(memory)',
         \A t \in Tasks : Tight(context[t])' /\ Tight(new[t])',
         QueuedAreUsers', SnapshotsStay
  PROVE  HistoryIsTight'
<1>1. entries \in Seq(Entry) /\ x \in Seq(Entry) /\ entries' \in Seq(Entry)
  BY MessagesOfTasks DEF SessionTypes
<1>2. Tight(entries)'
  BY <1>1, TightParts DEF HistoryIsTight
<1>3. CutsAreSafe(entries)'
  BY <1>1, CutsStaySafe DEF HistoryIsTight
<1>4. ASSUME NEW c \in Compactors, stage'[c] \in {"summarising", "rebuilding"}
      PROVE  /\ IsPrefix(snapshot'[c].entries, entries')
             /\ SafeToCut(snapshot'[c].entries, snapshot'[c].cut)
  <2>1. /\ snapshot'[c] = snapshot[c] /\ snapshot[c].entries \in Seq(Entry)
        /\ IsPrefix(snapshot[c].entries, entries)
        /\ SafeToCut(snapshot[c].entries, snapshot[c].cut)
    BY <1>4 DEF SnapshotsStay, HistoryIsTight, SessionTypes
  <2>2. IsPrefix(snapshot[c].entries, entries \o x)
    BY <1>1, <2>1, PrefixGrows
  <2> QED
    BY <2>1, <2>2
<1> QED
  BY <1>2, <1>3, <1>4 DEF HistoryIsTight

\* A step that changes neither file nor memory, nor what the loops have.
LEMMA TightStays ==
  ASSUME SessionTypes, HistoryIsTight, UNCHANGED <<entries, memory, context, new>>,
         QueuedAreUsers', SnapshotsStay
  PROVE  HistoryIsTight'
<1>1. /\ <<>> \in Seq(Message) /\ entries' = entries \o <<>>
      /\ Tight(memory)' /\ \A t \in Tasks : Tight(context[t])' /\ Tight(new[t])'
  BY DEF SessionTypes, HistoryIsTight
<1> QED
  BY <1>1, TightParts, TightGrows

\* A task's loop adds something that is tight.
LEMMA TightAdds ==
  ASSUME SessionTypes, HistoryIsTight, NEW t \in Tasks, NEW ms \in Seq(Message), Tight(ms),
         new' = [new EXCEPT ![t] = @ \o ms], UNCHANGED <<entries, memory, context>>,
         QueuedAreUsers', SnapshotsStay
  PROVE  HistoryIsTight'
<1>1. new[t] \in Seq(Entry) /\ ms \in Seq(Entry) /\ Tight(new[t])
  BY MessagesOfTasks DEF SessionTypes, HistoryIsTight
<1>2. Tight(new[t] \o ms)
  BY <1>1, TightParts
<1>3. \A u \in Tasks : new'[u] = IF u = t THEN new[t] \o ms ELSE new[u]
  BY DEF SessionTypes
<1>4. \A u \in Tasks : Tight(context[u])' /\ Tight(new[u])'
  BY <1>2, <1>3 DEF HistoryIsTight
<1>5. /\ <<>> \in Seq(Message) /\ entries' = entries \o <<>> /\ Tight(memory)'
  BY DEF SessionTypes, HistoryIsTight
<1> QED
  BY <1>4, <1>5, TightParts, TightGrows

LEMMA TightStep ==
  ASSUME SessionTypes, HistoryIsTight, [Next]_vars
  PROVE  HistoryIsTight'
<1> USE DEF GoTo, slot, task, compaction, history
<1>1. ASSUME UNCHANGED queue PROVE QueuedAreUsers'
  BY <1>1 DEF HistoryIsTight, QueuedAreUsers
<1>2. ASSUME queue' = NoQueue PROVE QueuedAreUsers'
  BY <1>2 DEF NoQueue, QueuedAreUsers
<1>3. ASSUME UNCHANGED <<stage, snapshot>> PROVE SnapshotsStay
  BY <1>3 DEF SnapshotsStay
<1>4. ASSUME NEW c \in Compactors, NEW at \in {"off", "started", "sleeping"},
             stage' = [stage EXCEPT ![c] = at],
             \A d \in Compactors : d # c => snapshot'[d] = snapshot[d]
      PROVE  SnapshotsStay
  BY <1>4 DEF SnapshotsStay, SessionTypes
<1>5. ASSUME NEW t \in Tasks,
             \/ Claim(t) \/ InstallToken(t) \/ AppendPromptFails(t) \/ EndWithoutCompaction(t)
      PROVE  HistoryIsTight'
  BY <1>1, <1>3, <1>5, TightStays
     DEF Claim, InstallToken, AppendPromptFails, EndWithoutCompaction
<1>6. ASSUME NEW t \in Tasks, AppendPrompt(t) PROVE HistoryIsTight'
  <2>1. /\ entries' = entries \o <<Prompt(t)>> /\ UNCHANGED <<memory, context, new>>
        /\ QueuedAreUsers' /\ SnapshotsStay
    BY <1>1, <1>3, <1>6, MessagesOfTasks DEF AppendPrompt, SessionTypes
  <2>2. Prompt(t) \in Entry /\ Prompt(t).kind # "result" /\ <<Prompt(t)>> \in Seq(Message)
    BY MessagesOfTasks DEF Prompt, Msg
  <2>3. Tight(<<Prompt(t)>>)
    BY <2>2, TightParts
  <2>4. Tight(memory)' /\ \A u \in Tasks : Tight(context[u])' /\ Tight(new[u])'
    BY <2>1 DEF HistoryIsTight
  <2> QED
    BY <2>1, <2>2, <2>3, <2>4, TightGrows
<1>7. ASSUME NEW t \in Tasks, \/ BuildContext(t) \/ ConfigFails(t) \/ StartLoop(t)
                              \/ LoopEnds(t) \/ LoopDies(t)
      PROVE  HistoryIsTight'
  <2>1. /\ entries' = entries \o <<>> /\ <<>> \in Seq(Message) /\ Tight(memory)'
        /\ QueuedAreUsers' /\ SnapshotsStay
    BY <1>1, <1>3, <1>7
       DEF BuildContext, ConfigFails, StartLoop, LoopEnds, LoopDies, SessionTypes, HistoryIsTight
  <2>2. Tight(Opening(t))
    <3>1. Prompt(t) \in Entry /\ Prompt(t).kind # "result"
      BY MessagesOfTasks DEF Prompt, Msg
    <3> QED
      BY <3>1, TightParts DEF Opening
  <2>3. \A u \in Tasks : \/ context'[u] = context[u]
                         \/ context'[u] = memory
                         \/ context'[u] = <<>>
    BY <1>7 DEF BuildContext, ConfigFails, StartLoop, LoopEnds, LoopDies, SessionTypes
  <2>4. \A u \in Tasks : new'[u] = new[u] \/ new'[u] = Opening(t) \/ new'[u] = <<>>
    BY <1>7 DEF BuildContext, ConfigFails, StartLoop, LoopEnds, LoopDies, SessionTypes, Opening
  <2>5. \A u \in Tasks : Tight(context[u])' /\ Tight(new[u])'
    BY <2>2, <2>3, <2>4, TightParts DEF HistoryIsTight
  <2> QED
    BY <2>1, <2>5, TightParts, TightGrows
<1>8. ASSUME NEW t \in Tasks, LoopAnswers(t) PROVE HistoryIsTight'
  <2> DEFINE m == Msg("answer", t, Len(new[t]) + 1, PromptSize(t))
  <2>1. m \in Message /\ m.kind # "result"
    <3>1. Len(new[t]) + 1 \in Nat /\ PromptSize(t) \in Nat
      BY PromptSizeType DEF SessionTypes
    <3>2. m \in Message
      BY <3>1, MessagesOfTasks
    <3> QED
      BY <3>2 DEF Msg
  <2>2. /\ new' = [new EXCEPT ![t] = @ \o <<m>>] /\ UNCHANGED <<entries, memory, context>>
        /\ QueuedAreUsers' /\ SnapshotsStay
    BY <1>1, <1>3, <1>8 DEF LoopAnswers, LoopAdds
  <2> HIDE DEF m
  <2>3. Tight(<<m>>) /\ <<m>> \in Seq(Message)
    BY <2>1, TightParts, MessagesOfTasks
  <2> QED
    BY <2>2, <2>3, TightAdds
<1>9. ASSUME NEW t \in Tasks, LoopUsesTool(t) PROVE HistoryIsTight'
  <2> DEFINE a == Msg("call", t, Len(new[t]) + 1, PromptSize(t))
             b == Msg("result", t, Len(new[t]) + 1, 0)
  <2>1. /\ a \in Message /\ a.kind = "call"
        /\ b \in Message /\ b.kind = "result" /\ a.by = b.by /\ a.n = b.n
    <3>1. Len(new[t]) + 1 \in Nat /\ PromptSize(t) \in Nat
      BY PromptSizeType DEF SessionTypes
    <3>2. a \in Message /\ b \in Message
      BY <3>1, MessagesOfTasks
    <3> QED
      BY <3>2 DEF Msg
  <2>2. /\ new' = [new EXCEPT ![t] = @ \o <<a, b>>] /\ UNCHANGED <<entries, memory, context>>
        /\ QueuedAreUsers' /\ SnapshotsStay
    BY <1>1, <1>3, <1>9 DEF LoopUsesTool, LoopAdds
  <2> HIDE DEF a, b
  <2>3. <<a, b>> \in CallOf /\ a \notin Results
    BY <2>1, MessagesOfTasks DEF CallOf, Results
  <2>4. Tight(<<a, b>>) /\ <<a, b>> \in Seq(Message)
    BY <2>1, <2>3 DEF Tight, Behind
  <2> QED
    BY <2>2, <2>4, TightAdds
<1>10. ASSUME NEW t \in Tasks, NEW q \in Queues, LoopHears(t, q) PROVE HistoryIsTight'
  <2>1. /\ new' = [new EXCEPT ![t] = @ \o queue[q]] /\ UNCHANGED <<entries, memory, context>>
        /\ SnapshotsStay
    BY <1>3, <1>10 DEF LoopHears, LoopAdds
  <2>2. QueuedAreUsers'
    BY <1>10 DEF LoopHears, QueuedAreUsers, HistoryIsTight, SessionTypes
  <2>3. Tight(queue[q]) /\ queue[q] \in Seq(Message)
    BY DEF Tight, Behind, Results, HistoryIsTight, QueuedAreUsers, SessionTypes
  <2> QED
    BY <2>1, <2>2, <2>3, TightAdds
<1>11. ASSUME NEW t \in Tasks, Persist(t) \/ PersistFails(t) PROVE HistoryIsTight'
  <2>1. /\ UNCHANGED <<context, new>> /\ QueuedAreUsers' /\ SnapshotsStay
    BY <1>1, <1>3, <1>11 DEF Persist, PersistFails
  <2>2. new[t] \in Seq(Message) /\ new[t] \in Seq(Entry) /\ Tight(new[t])
        /\ memory \in Seq(Entry) /\ Tight(memory)
    BY MessagesOfTasks DEF SessionTypes, HistoryIsTight
  <2>3. \E ms, fs \in Seq(Message) : /\ Tight(ms) /\ Tight(fs)
                                    /\ memory' = memory \o ms /\ entries' = entries \o ToPersist(fs)
    <3>1. CASE Persist(t)
      BY <2>2, <3>1 DEF Persist
    <3>2. CASE PersistFails(t)
      <4>1. PICK n \in 1..Len(new[t]) :
              /\ memory' = memory \o SubSeq(new[t], 1, n)
              /\ entries' = entries \o ToPersist(SubSeq(new[t], 1, n - 1))
        BY <3>2 DEF PersistFails
      <4>2. n \in 0..Len(new[t]) /\ n - 1 \in 0..Len(new[t])
        BY <2>2
      <4>3. /\ SubSeq(new[t], 1, n) \in Seq(Message) /\ SubSeq(new[t], 1, n - 1) \in Seq(Message)
        BY <2>2, <4>2
      <4>4. Tight(SubSeq(new[t], 1, n)) /\ Tight(SubSeq(new[t], 1, n - 1))
        BY <2>2, <4>2, TightCut
      <4> QED
        BY <4>1, <4>3, <4>4
    <3> QED
      BY <1>11, <3>1, <3>2
  <2>4. PICK ms, fs \in Seq(Message) : /\ Tight(ms) /\ Tight(fs)
                                      /\ memory' = memory \o ms /\ entries' = entries \o ToPersist(fs)
    BY <2>3
  <2>5. ToPersist(fs) \in Seq(Message) /\ Tight(ToPersist(fs))
    BY <2>4, ToPersistType, TightToPersist
  <2>6. ms \in Seq(Entry)
    BY MessagesOfTasks
  <2>7. Tight(memory)'
    BY <2>2, <2>4, <2>6, TightParts
  <2>8. \A u \in Tasks : Tight(context[u])' /\ Tight(new[u])'
    BY <2>1 DEF HistoryIsTight
  <2> QED
    BY <2>1, <2>4, <2>5, <2>7, <2>8, TightGrows
<1>12. ASSUME NEW t \in Tasks, AutoCompact(t) PROVE HistoryIsTight'
  <2>1. SnapshotsStay
    BY <1>4, <1>12 DEF AutoCompact, Compactors
  <2> QED
    BY <1>1, <1>12, <2>1, TightStays DEF AutoCompact
<1>13. ASSUME Compact PROVE HistoryIsTight'
  <2>1. SnapshotsStay
    BY <1>4, <1>13 DEF Compact, Compactors
  <2> QED
    BY <1>1, <1>13, <2>1, TightStays DEF Compact
<1>14. ASSUME NEW c \in Compactors, AbortRunning(c) PROVE HistoryIsTight'
  <2>1. SnapshotsStay
    BY <1>4, <1>14 DEF AbortRunning
  <2> QED
    BY <1>2, <1>14, <2>1, TightStays DEF AbortRunning, AbortLoop
<1>15. ASSUME NEW c \in Compactors, TakeSnapshot(c) PROVE HistoryIsTight'
  <2> DEFINE cut == Plan(entries, LatestUsed(memory))
  <2>1. /\ cut # 0 /\ stage' = [stage EXCEPT ![c] = "summarising"]
        /\ snapshot' = [snapshot EXCEPT ![c] = [entries |-> entries, cut |-> cut]]
        /\ UNCHANGED <<entries, memory, context, new, queue>>
    BY <1>15 DEF TakeSnapshot
  <2>2. SafeToCut(entries, cut) /\ IsPrefix(entries, entries)
    BY <2>1, PlanCuts, PrefixMeans DEF SessionTypes
  <2> HIDE DEF cut
  <2>3. \A d \in Compactors :
          snapshot'[d] = IF d = c THEN [entries |-> entries, cut |-> cut] ELSE snapshot[d]
    BY <2>1 DEF SessionTypes
  <2>4. \A d \in Compactors : stage'[d] = IF d = c THEN "summarising" ELSE stage[d]
    BY <2>1 DEF SessionTypes
  <2>5. \A d \in Compactors : stage'[d] \in {"summarising", "rebuilding"} =>
          /\ IsPrefix(snapshot'[d].entries, entries)
          /\ SafeToCut(snapshot'[d].entries, snapshot'[d].cut)
    BY <2>2, <2>3, <2>4 DEF HistoryIsTight
  <2>6. QueuedAreUsers'
    BY <1>1, <2>1
  <2> QED
    BY <2>1, <2>5, <2>6 DEF HistoryIsTight
<1>16. ASSUME NEW c \in Compactors, AppendCompaction(c) PROVE HistoryIsTight'
  <2> DEFINE es  == snapshot[c].entries
             cut == snapshot[c].cut
  <2>1. /\ stage[c] = "summarising" /\ entries' = Append(entries, Compaction(cut))
        /\ stage' = [stage EXCEPT ![c] = "rebuilding"]
        /\ UNCHANGED <<snapshot, memory, context, new, queue>>
    BY <1>16 DEF AppendCompaction
  <2>2. /\ IsPrefix(es, entries) /\ SafeToCut(es, cut)
        /\ es \in Seq(Entry) /\ entries \in Seq(Entry) /\ cut \in Nat \ {0}
    BY <2>1 DEF HistoryIsTight, SessionTypes
  <2>3. SafeToCut(entries, cut)
    <3>1. Len(es) <= Len(entries) /\ \A i \in 1..Len(es) : es[i] = entries[i]
      BY <2>2, PrefixMeans
    <3>2. Len(es) \in Nat /\ Len(entries) \in Nat
      BY <2>2
    <3> QED
      BY <2>2, <3>1, <3>2 DEF SafeToCut
  <2>4. Compaction(cut) \in Entry /\ Compaction(cut).kind # "result"
    BY <2>2, MessagesOfTasks DEF Compaction
  <2> HIDE DEF es, cut
  <2>5. CutsAreSafe(entries)'
    BY <2>1, <2>2, <2>3, CutsStaySafe DEF HistoryIsTight
  <2>6. entries' = entries \o <<Compaction(cut)>> /\ <<Compaction(cut)>> \in Seq(Entry)
    BY <2>1, <2>2, <2>4
  <2>7. Tight(entries)'
    BY <2>2, <2>4, <2>6, TightParts DEF HistoryIsTight
  <2>8. ASSUME NEW d \in Compactors, stage'[d] \in {"summarising", "rebuilding"}
        PROVE  /\ IsPrefix(snapshot'[d].entries, entries')
               /\ SafeToCut(snapshot'[d].entries, snapshot'[d].cut)
    <3>1. stage[d] \in {"summarising", "rebuilding"}
      BY <2>1, <2>8 DEF SessionTypes
    <3>2. /\ IsPrefix(snapshot[d].entries, entries) /\ snapshot[d].entries \in Seq(Entry)
          /\ SafeToCut(snapshot[d].entries, snapshot[d].cut)
      BY <3>1 DEF HistoryIsTight, SessionTypes
    <3>3. IsPrefix(snapshot[d].entries, entries \o <<Compaction(cut)>>)
      BY <2>2, <2>6, <3>2, PrefixGrows
    <3> QED
      BY <2>1, <2>6, <3>2, <3>3
  <2>9. QueuedAreUsers' /\ Tight(memory)' /\ \A t \in Tasks : Tight(context[t])' /\ Tight(new[t])'
    BY <1>1, <2>1 DEF HistoryIsTight
  <2> QED
    BY <2>5, <2>7, <2>8, <2>9 DEF HistoryIsTight
<1>17. ASSUME NEW c \in Compactors, CompactionFails(c) PROVE HistoryIsTight'
  <2>1. /\ stage' = [stage EXCEPT ![c] = "off"] /\ UNCHANGED <<entries, memory, context, new, queue>>
        /\ \A d \in Compactors : d # c => snapshot'[d] = snapshot[d]
    BY <1>17 DEF CompactionFails, Return, SessionTypes
  <2> QED
    BY <1>1, <1>4, <2>1, TightStays
<1>18. ASSUME NEW c \in Compactors, Rebuild(c) PROVE HistoryIsTight'
  <2> DEFINE es  == snapshot[c].entries
             cut == snapshot[c].cut
  <2>1. /\ stage[c] = "rebuilding" /\ memory' = <<Summary>> \o Messages(From(es, cut))
        /\ stage' = [stage EXCEPT ![c] = "off"] /\ UNCHANGED <<entries, context, new, queue>>
        /\ \A d \in Compactors : d # c => snapshot'[d] = snapshot[d]
    BY <1>18 DEF Rebuild, Return, SessionTypes
  <2>2. /\ IsPrefix(es, entries) /\ SafeToCut(es, cut) /\ Tight(entries)
        /\ es \in Seq(Entry) /\ entries \in Seq(Entry) /\ cut \in Nat \ {0}
    BY <2>1 DEF HistoryIsTight, SessionTypes
  <2> HIDE DEF es, cut
  <2>3. Tight(es)
    <3>1. es = SubSeq(entries, 1, Len(es)) /\ Len(es) \in 0..Len(entries)
      BY <2>2, PrefixMeans
    <3>2. \A n \in 0..Len(entries) : Tight(SubSeq(entries, 1, n))
      BY <2>2, TightCut
    <3>3. Tight(SubSeq(entries, 1, Len(es)))
      BY <3>1, <3>2
    <3> QED
      BY <3>1, <3>3, Zenon
  <2>4. From(es, cut) \in Seq(Entry) /\ Tight(From(es, cut))
    BY <2>2, <2>3, TightFrom
  <2>5. Messages(From(es, cut)) \in Seq(Entry) /\ Tight(Messages(From(es, cut)))
    BY <2>4, MessagesType, TightMessages, MessagesOfTasks
  <2>6. Summary \in Entry /\ Summary.kind # "result" /\ <<Summary>> \in Seq(Entry)
    BY MessagesOfTasks DEF Summary, Msg
  <2>7. Tight(memory)'
    BY <2>1, <2>5, <2>6, TightParts
  <2>8. /\ <<>> \in Seq(Message) /\ entries' = entries \o <<>>
        /\ \A t \in Tasks : Tight(context[t])' /\ Tight(new[t])'
    BY <2>1, <2>2 DEF HistoryIsTight
  <2>9. SnapshotsStay /\ QueuedAreUsers'
    BY <1>1, <1>4, <2>1
  <2> QED
    BY <2>7, <2>8, <2>9, TightParts, TightGrows
<1>19. ASSUME NEW q \in Queues, Queue(q) PROVE HistoryIsTight'
  <2>1. /\ UNCHANGED <<entries, memory, context, new, stage, snapshot>>
        /\ queue' = [queue EXCEPT ![q] = Append(@, Msg("user", q, calls, 0))]
    BY <1>19 DEF Queue
  <2>2. QueuedAreUsers'
    <3> SUFFICES ASSUME NEW p \in Queues, NEW i \in 1..Len(queue'[p])
                 PROVE  queue'[p][i].kind = "user" /\ queue'[p][i].by = p
      BY DEF QueuedAreUsers
    <3>1. CASE p # q
      BY <2>1, <3>1 DEF HistoryIsTight, QueuedAreUsers, SessionTypes
    <3>2. CASE p = q
      <4> DEFINE m == Msg("user", q, calls, 0)
      <4>1. m.kind = "user" /\ m.by = q /\ m \in Message
        BY MessagesOfTasks DEF Msg, SessionTypes
      <4>2. queue'[q] = Append(queue[q], m) /\ queue[q] \in Seq(Message)
        BY <2>1 DEF SessionTypes
      <4> HIDE DEF m
      <4>3. \/ i = Len(queue[q]) + 1 /\ queue'[q][i] = m
            \/ i \in 1..Len(queue[q]) /\ queue'[q][i] = queue[q][i]
        BY <3>2, <4>1, <4>2
      <4> QED
        BY <3>2, <4>1, <4>3 DEF HistoryIsTight, QueuedAreUsers
    <3> QED
      BY <3>1, <3>2
  <2> QED
    BY <1>3, <2>1, <2>2, TightStays
<1>20. ASSUME Abort PROVE HistoryIsTight'
  BY <1>2, <1>3, <1>20, TightStays DEF Abort, AbortLoop
<1>21. ASSUME Restart PROVE HistoryIsTight'
  <2>1. PICK written \in HalfWritten :
          /\ entries' = entries \o written
          /\ memory' = ContextMessages(entries \o written)
    BY <1>21 DEF Restart
  <2>2. written \in Seq(Message) /\ Tight(written)
    <3>1. CASE written = <<>>
      BY <3>1, TightParts
    <3>2. CASE written # <<>>
      <4>1. PICK t \in Tasks : \E n \in 0..Len(ToPersist(new[t])) :
              written = SubSeq(ToPersist(new[t]), 1, n)
        BY <3>2, HalfWrittenType
      <4>2. PICK n \in 0..Len(ToPersist(new[t])) : written = SubSeq(ToPersist(new[t]), 1, n)
        BY <4>1
      <4>3. /\ ToPersist(new[t]) \in Seq(Entry) /\ Tight(ToPersist(new[t]))
        BY ToPersistType, TightToPersist, MessagesOfTasks DEF SessionTypes, HistoryIsTight
      <4>4. Tight(written)
        BY <4>2, <4>3, TightCut
      <4> QED
        BY <4>4, HalfWrittenType
    <3> QED
      BY <3>1, <3>2
  <2>3. entries \o written \in Seq(Entry) /\ written \in Seq(Entry) /\ entries \in Seq(Entry)
    BY <2>2, MessagesOfTasks DEF SessionTypes
  <2>4. Tight(entries \o written) /\ CutsAreSafe(entries \o written)
    BY <2>2, <2>3, TightParts, CutsStaySafe DEF HistoryIsTight
  <2>5. Tight(memory)'
    BY <2>1, <2>3, <2>4, TightContext
  <2>6. \A t \in Tasks : context'[t] = <<>> /\ new'[t] = new[t]
    BY <1>21 DEF Restart
  <2>7. \A t \in Tasks : Tight(context[t])' /\ Tight(new[t])'
    BY <2>6, TightParts DEF HistoryIsTight
  <2>8. SnapshotsStay
    BY <1>21 DEF Restart, SnapshotsStay
  <2>9. QueuedAreUsers'
    BY <1>2, <1>21 DEF Restart
  <2> QED
    BY <2>1, <2>2, <2>5, <2>7, <2>8, <2>9, TightGrows
<1>22. ASSUME UNCHANGED vars PROVE HistoryIsTight'
  BY <1>1, <1>3, <1>22, TightStays DEF vars
<1> QED
  BY <1>5, <1>6, <1>7, <1>8, <1>9, <1>10, <1>11, <1>12, <1>13, <1>14, <1>15, <1>16, <1>17,
     <1>18, <1>19, <1>20, <1>21, <1>22 DEF Next, TaskStep, LoopRuns, CompactionStep

-----------------------------------------------------------------------------
(***************************************************************************)
(* Runs and the file.  What a task persists is its own, and a prefix of    *)
(* what it would persist.                                                  *)
(***************************************************************************)
OfTask(t) == {e \in Entry : e.kind # "compaction" /\ e.by = t}
Persisted == {m \in Message : ShouldPersist(m)}

LEMMA OverItsRange ==
  ASSUME NEW X, NEW s \in Seq(X)
  PROVE  s \in Seq(Range(s)) /\ \A i \in 1..Len(s) : s[i] \in Range(s)
<1>1. \A i \in 1..Len(s) : s[i] \in Range(s)
  BY DEF Range
<1> QED
  BY <1>1, OverItsElements

\* The set that picks a task's entries may as well be one for every file.
LEMMA OnFileIs ==
  ASSUME NEW es \in Seq(Entry), NEW t
  PROVE  Kept(es, {e \in Range(es) : e.kind # "compaction" /\ e.by = t}) = Kept(es, OfTask(t))
<1> DEFINE S == {e \in Range(es) : e.kind # "compaction" /\ e.by = t}
           X == Range(es) \cap Entry
<1>1. es \in Seq(X)
  <2>1. \A i \in 1..Len(es) : es[i] \in X
    BY OverItsRange
  <2> HIDE DEF X
  <2> QED
    BY <2>1, OverItsElements
<1>2. \A x \in X : x \in S <=> x \in OfTask(t)
  BY DEF OfTask
<1> HIDE DEF S, X
<1>3. Kept(es, S) = Kept(es, OfTask(t))
  BY <1>1, <1>2, KeptAgree
<1> QED
  BY <1>3 DEF S

LEMMA ToPersistIs ==
  ASSUME NEW ms \in Seq(Message)
  PROVE  ToPersist(ms) = Kept(ms, Persisted)
<1> DEFINE S == {m \in Range(ms) : ShouldPersist(m)}
           X == Range(ms) \cap Message
<1>1. ms \in Seq(X)
  <2>1. \A i \in 1..Len(ms) : ms[i] \in X
    BY OverItsRange
  <2> HIDE DEF X
  <2> QED
    BY <2>1, OverItsElements
<1>2. \A x \in X : x \in S <=> x \in Persisted
  BY DEF Persisted
<1> HIDE DEF S, X
<1>3. Kept(ms, S) = Kept(ms, Persisted)
  BY <1>1, <1>2, KeptAgree
<1> QED
  BY <1>3 DEF ToPersist, S

\* The file grows by entries of one task, or by a compaction.
LEMMA FileGrows ==
  ASSUME NEW X, X \subseteq Entry, entries \in Seq(X), NEW x \in Seq(X), entries' = entries \o x
  PROVE  \A u \in Tasks : OnFile(u)' = OnFile(u) \o Kept(x, OfTask(u))
<1> SUFFICES ASSUME NEW u \in Tasks PROVE OnFile(u)' = OnFile(u) \o Kept(x, OfTask(u))
  OBVIOUS
<1>1. entries \in Seq(Entry) /\ x \in Seq(Entry) /\ entries' \in Seq(Entry)
  OBVIOUS
<1>2. OnFile(u) = Kept(entries, OfTask(u)) /\ OnFile(u)' = Kept(entries', OfTask(u))
  BY <1>1, OnFileIs DEF OnFile
<1>3. Kept(entries \o x, OfTask(u)) = Kept(entries, OfTask(u)) \o Kept(x, OfTask(u))
  BY <1>1, KeptConcat
<1> QED
  BY <1>2, <1>3

\* ... of one task, or by a compaction.
LEMMA FileGrowsBy ==
  ASSUME SessionTypes, NEW t \in Tasks, NEW x \in Seq(OfTask(t)), entries' = entries \o x
  PROVE  /\ OnFile(t)' = OnFile(t) \o x
         /\ \A u \in Tasks : u # t => OnFile(u)' = OnFile(u)
<1>1. x \in Seq(Entry) /\ entries \in Seq(Entry)
  BY DEF OfTask, SessionTypes
<1>2. \A u \in Tasks : OnFile(u)' = OnFile(u) \o Kept(x, OfTask(u))
  BY <1>1, FileGrows
<1>3. Kept(x, OfTask(t)) = x
  BY KeptAll
<1>4. ASSUME NEW u \in Tasks, u # t PROVE Kept(x, OfTask(u)) = <<>>
  <2>1. OfTask(t) \cap OfTask(u) = {}
    BY <1>4 DEF OfTask
  <2> QED
    BY <2>1, KeptNone
<1>5. \A u \in Tasks : OnFile(u) \in Seq(Entry)
  BY <1>1, OnFileIs, KeptType DEF OnFile
<1>6. ASSUME NEW u \in Tasks, u # t PROVE OnFile(u)' = OnFile(u)
  <2>1. OnFile(u)' = OnFile(u) \o <<>>
    BY <1>2, <1>4, <1>6, Zenon
  <2>2. OnFile(u) \o <<>> = OnFile(u)
    BY <1>5
  <2> QED
    BY <2>1, <2>2
<1>7. OnFile(t)' = OnFile(t) \o x
  BY <1>2, <1>3, Zenon
<1> QED
  BY <1>6, <1>7

LEMMA ConcatParts ==
  ASSUME NEW X, NEW a \in Seq(X), NEW b \in Seq(X)
  PROVE  /\ a \o b \in Seq(X) /\ Len(a \o b) = Len(a) + Len(b)
         /\ \A i \in 1..Len(a) : (a \o b)[i] = a[i]
         /\ \A i \in 1..Len(a \o b) : i > Len(a) => (a \o b)[i] = b[i - Len(a)]
OBVIOUS

LEMMA PartIsPrefix ==
  ASSUME NEW X, NEW s \in Seq(X), NEW n \in 0..Len(s)
  PROVE  SubSeq(s, 1, n) \in Seq(X) /\ IsPrefix(SubSeq(s, 1, n), s)
<1> DEFINE v == SubSeq(s, 1, n)
<1>1. v \in Seq(X) /\ Len(v) = n /\ \A i \in 1..n : v[i] = s[i]
  OBVIOUS
<1> HIDE DEF v
<1>2. Len(v) <= Len(s) /\ \A i \in 1..Len(v) : v[i] = s[i]
  BY <1>1
<1>3. IsPrefix(v, s)
  BY <1>1, <1>2, PrefixMeans
<1> QED
  BY <1>1, <1>3 DEF v

LEMMA PrefixBehind ==
  ASSUME NEW X, NEW a \in Seq(X), NEW b \in Seq(X), NEW c \in Seq(X), IsPrefix(b, c)
  PROVE  IsPrefix(a \o b, a \o c)
<1> DEFINE v == a \o b
           w == a \o c
<1>1. Len(b) <= Len(c) /\ \A i \in 1..Len(b) : b[i] = c[i]
  BY PrefixMeans
<1>2. /\ v \in Seq(X) /\ w \in Seq(X) /\ Len(a) \in Nat /\ Len(b) \in Nat /\ Len(c) \in Nat
      /\ Len(v) = Len(a) + Len(b) /\ Len(w) = Len(a) + Len(c)
      /\ \A i \in 1..Len(a) : v[i] = a[i] /\ w[i] = a[i]
      /\ \A i \in 1..Len(v) : i > Len(a) => v[i] = b[i - Len(a)] /\ w[i] = c[i - Len(a)]
  BY <1>1
<1> HIDE DEF v, w
<1>3. ASSUME NEW i \in 1..Len(v) PROVE v[i] = w[i]
  <2>1. CASE i <= Len(a)
    BY <1>2, <2>1
  <2>2. CASE i > Len(a)
    <3>1. i - Len(a) \in 1..Len(b)
      BY <1>2, <2>2
    <3> QED
      BY <1>1, <1>2, <2>2, <3>1
  <2> QED
    BY <1>2, <2>1, <2>2
<1>4. Len(v) <= Len(w)
  BY <1>1, <1>2
<1>5. IsPrefix(v, w)
  BY <1>2, <1>3, <1>4, PrefixMeans
<1> QED
  BY <1>5 DEF v, w

LEMMA ToPersistPrefix ==
  ASSUME NEW ms \in Seq(Message), NEW n \in 0..Len(ms)
  PROVE  IsPrefix(ToPersist(SubSeq(ms, 1, n)), ToPersist(ms))
<1> DEFINE a == SubSeq(ms, 1, n)
           b == SubSeq(ms, n + 1, Len(ms))
<1>1. a \in Seq(Message) /\ b \in Seq(Message) /\ ms = a \o b
  <2>1. /\ a \in Seq(Message) /\ Len(a) = n /\ \A i \in 1..n : a[i] = ms[i]
        /\ b \in Seq(Message) /\ Len(b) = Len(ms) - n /\ Len(ms) \in Nat
        /\ \A i \in 1..Len(b) : b[i] = ms[n + i]
    BY SMTT(30)
  <2> HIDE DEF a, b
  <2> DEFINE v == a \o b
  <2>2. /\ v \in Seq(Message) /\ Len(v) = Len(ms) /\ \A i \in 1..n : v[i] = a[i]
        /\ \A i \in 1..Len(ms) : i > n => v[i] = b[i - n]
    BY <2>1
  <2> HIDE DEF v
  <2>3. \A i \in 1..Len(ms) : v[i] = ms[i]
    <3> SUFFICES ASSUME NEW i \in 1..Len(ms) PROVE v[i] = ms[i]
      OBVIOUS
    <3>1. CASE i <= n
      BY <2>1, <2>2, <3>1
    <3>2. CASE i > n
      <4>1. i - n \in 1..Len(b) /\ n + (i - n) = i
        BY <2>1, <3>2
      <4> QED
        BY <2>1, <2>2, <3>2, <4>1
    <3> QED
      BY <3>1, <3>2
  <2>4. v = ms
    BY <2>2, <2>3
  <2> QED
    BY <2>1, <2>4 DEF v
<1> HIDE DEF a, b
<1>2. Kept(ms, Persisted) = Kept(a, Persisted) \o Kept(b, Persisted)
  BY <1>1, KeptConcat
<1>3. Kept(a, Persisted) \in Seq(Message) /\ Kept(b, Persisted) \in Seq(Message)
  BY <1>1, KeptType
<1>4. ToPersist(ms) = Kept(ms, Persisted) /\ ToPersist(a) = Kept(a, Persisted)
  BY <1>1, ToPersistIs
<1>5. IsPrefix(Kept(a, Persisted), Kept(a, Persisted))
  BY <1>3, PrefixMeans
<1>6. IsPrefix(Kept(a, Persisted), Kept(a, Persisted) \o Kept(b, Persisted))
  BY <1>3, <1>5, PrefixGrows
<1> QED
  BY <1>2, <1>4, <1>6, Zenon DEF a

\* What a task adds is of tasks and queues, and what of it goes to the file is its own.
LEMMA NewIsOwn ==
  ASSUME SessionTypes, NEW t \in Tasks, NewIsAdded(t), NEW n \in 0..Len(new[t])
  PROVE  /\ SubSeq(new[t], 1, n) \in Seq(Heard) /\ SubSeq(new[t], 1, n) \in Seq(Message)
         /\ ToPersist(SubSeq(new[t], 1, n)) \in Seq(OfTask(t))
<1> DEFINE ms == SubSeq(new[t], 1, n)
           X  == {ms[i] : i \in 1..Len(ms)}
<1>1. ms \in Seq(Message) /\ Len(ms) = n /\ \A i \in 1..n : ms[i] = new[t][i] /\ i \in 1..Len(new[t])
  BY DEF SessionTypes
<1>2. \A i \in 1..n : ms[i] \in Message /\ (ms[i] = Prompt(t) \/ ms[i] \in Added(t))
  <2> HIDE DEF ms
  <2>1. \A i \in 1..n : ms[i] \in Message
    BY <1>1
  <2>2. \A i \in 1..n : ms[i] = Prompt(t) \/ ms[i] \in Added(t)
    BY <1>1 DEF NewIsAdded
  <2> QED
    BY <2>1, <2>2
<1> HIDE DEF ms
<1>3. \A i \in 1..Len(ms) : ms[i] \in Heard
  <2> SUFFICES ASSUME NEW i \in 1..Len(ms) PROVE ms[i] \in Heard
    OBVIOUS
  <2>1. ms[i] \in Entry
    BY <1>1, MessagesOfTasks
  <2>2. ms[i].by \in Tasks \cup Queues
    BY <1>1, <1>2 DEF Prompt, Msg, Added
  <2> QED
    BY <2>1, <2>2 DEF Heard
<1>4. ms \in Seq(X)
  BY <1>1, OverItsElements
<1>5. \A x \in X \cap Persisted : x \in OfTask(t)
  <2> SUFFICES ASSUME NEW i \in 1..Len(ms), ShouldPersist(ms[i]) PROVE ms[i] \in OfTask(t)
    BY DEF Persisted
  <2>1. ms[i].kind # "user"
    BY DEF ShouldPersist
  <2>2. ms[i] \in Added(t)
    BY <1>1, <1>2, <2>1 DEF Prompt, Msg
  <2>3. ms[i].by = t /\ ms[i].kind \in {"answer", "call", "result"}
    BY <2>1, <2>2 DEF Added
  <2>4. ms[i] \in Entry
    BY <1>1, MessagesOfTasks
  <2> QED
    BY <2>3, <2>4 DEF OfTask
<1> HIDE DEF X
<1>6. Kept(ms, Persisted) \in Seq(X \cap Persisted)
  BY <1>4, KeptType
<1>7. \A i \in 1..Len(Kept(ms, Persisted)) : Kept(ms, Persisted)[i] \in OfTask(t)
  BY <1>5, <1>6
<1>8. Kept(ms, Persisted) \in Seq(OfTask(t))
  BY <1>6, <1>7, OverItsElements
<1>9. ToPersist(ms) \in Seq(OfTask(t))
  BY <1>1, <1>8, ToPersistIs
<1>10. ms \in Seq(Heard)
  BY <1>1, <1>3, OverItsElements
<1> QED
  BY <1>1, <1>9, <1>10 DEF ms

\* Wherever a task stands, the file has a prefix of what it would write.
LEMMA WrittenIsPrefix ==
  ASSUME SessionTypes, NEW t \in Tasks, RunIsWritten(t)
  PROVE  /\ OnFile(t) \in Seq(Entry) /\ Opening(t) \in Seq(Entry)
         /\ ToPersist(new[t]) \in Seq(Entry) /\ Expected(t) = Opening(t) \o ToPersist(new[t])
         /\ IsPrefix(OnFile(t), Expected(t))
<1>1. OnFile(t) \in Seq(Entry)
  BY OnFileIs, KeptType DEF OnFile, SessionTypes
<1>2. Opening(t) \in Seq(Entry)
  BY MessagesOfTasks
<1>3. ToPersist(new[t]) \in Seq(Entry)
  BY ToPersistType, MessagesOfTasks DEF SessionTypes
<1>4. Expected(t) = Opening(t) \o ToPersist(new[t])
  BY DEF Expected, Opening
<1>5. ASSUME NEW s \in Seq(Entry)
      PROVE  IsPrefix(s, s) /\ IsPrefix(<<>>, s)
  <2>1. IsPrefix(s, s)
    BY PrefixMeans
  <2>2. <<>> \in Seq(Entry) /\ Len(<<>>) <= Len(s) /\ \A i \in 1..Len(<<>>) : <<>>[i] = s[i]
    OBVIOUS
  <2>3. IsPrefix(<<>>, s)
    BY <2>2, PrefixMeans
  <2> QED
    BY <2>1, <2>3
<1>6. IsPrefix(Opening(t), Opening(t) \o ToPersist(new[t]))
  BY <1>2, <1>3, <1>5, PrefixGrows
<1>7. Expected(t) \in Seq(Entry)
  BY <1>2, <1>3, <1>4
<1>8. pc[t] \in Stages
  BY DEF SessionTypes
<1>9. IsPrefix(OnFile(t), Expected(t))
  <2>1. CASE pc[t] \in {"ready", "refused", "claimed", "armed", "unwritten"}
    BY <1>5, <1>7, <2>1 DEF RunIsWritten
  <2>2. CASE pc[t] \in {"building", "configuring", "looping", "drained"}
    BY <1>4, <1>6, <2>2 DEF RunIsWritten
  <2>3. CASE pc[t] \in {"persisted", "compacting", "ended"}
    BY <1>5, <1>7, <2>3 DEF RunIsWritten
  <2>4. CASE pc[t] \in {"partly", "failed", "gone"}
    BY <2>4 DEF RunIsWritten
  <2> QED
    BY <1>8, <2>1, <2>2, <2>3, <2>4 DEF Stages
<1> QED
  BY <1>1, <1>2, <1>3, <1>4, <1>9

RunStays(u) ==
  pc'[u] = pc[u] /\ kind'[u] = kind[u] /\ new'[u] = new[u] /\ OnFile(u)' = OnFile(u)

LEMMA RunStaysWritten ==
  ASSUME NEW u, RunIsWritten(u), RunStays(u)
  PROVE  RunIsWritten(u)'
BY DEF RunIsWritten, RunStays, NewIsAdded, Expected, Opening

LEMMA HistoryIsHeard ==
  /\ \A t \in Tasks : Prompt(t) \in Heard /\ Opening(t) \in Seq(Heard)
  /\ Summary \in Heard /\ \A n \in Nat \ {0} : Compaction(n) \in Heard
  /\ \A es \in Seq(Heard) : Messages(es) \in Seq(Heard) /\ ContextMessages(es) \in Seq(Heard)
<1>1. \A t \in Tasks : Prompt(t) \in Heard
  BY MessagesOfTasks DEF Heard, Prompt, Msg
<1>2. \A t \in Tasks : Opening(t) \in Seq(Heard)
  BY <1>1 DEF Opening
<1>3. Summary \in Heard /\ \A n \in Nat \ {0} : Compaction(n) \in Heard
  BY MessagesOfTasks DEF Heard, Summary, Compaction, Msg, IsMessage, MessageKinds
<1>4. ASSUME NEW es \in Seq(Heard)
      PROVE  Messages(es) \in Seq(Heard)
  BY KeptType DEF Messages
<1>5. ASSUME NEW es \in Seq(Heard)
      PROVE  ContextMessages(es) \in Seq(Heard)
  <2>1. es \in Seq(Entry)
    BY DEF Heard
  <2>2. From(es, ContextStart(es)) \in Seq(Heard)
    BY <2>1, ContextStartType, FromType
  <2> QED
    BY <1>4, <2>2 DEF ContextMessages
<1> QED
  BY <1>1, <1>2, <1>3, <1>4, <1>5

\* A step that leaves file and messages alone and moves one task on, or none.
LEMMA RunMovesOn ==
  ASSUME SessionTypes, RunsAreWritten, NEW t \in Tasks,
         memory' \in Seq(Heard), entries' = entries,
         \A u \in Tasks : u # t => pc'[u] = pc[u] /\ kind'[u] = kind[u] /\ new'[u] = new[u],
         OnFile(t)' = OnFile(t) => RunIsWritten(t)'
  PROVE  RunsAreWritten'
<1>1. \A u \in Tasks : OnFile(u)' = OnFile(u)
  BY DEF OnFile
<1>2. ASSUME NEW u \in Tasks PROVE RunIsWritten(u)'
  <2>1. CASE u = t
    BY <1>1, <2>1
  <2>2. CASE u # t
    <3>1. RunIsWritten(u) /\ RunStays(u)
      BY <1>1, <2>2 DEF RunsAreWritten, RunStays
    <3> QED
      BY <3>1, RunStaysWritten
  <2> QED
    BY <2>1, <2>2
<1> QED
  BY <1>2 DEF RunsAreWritten

LEMMA RunsLeft ==
  ASSUME SessionTypes, RunsAreWritten, memory' \in Seq(Heard), UNCHANGED <<entries, pc, kind, new>>
  PROVE  RunsAreWritten'
<1>1. \A u \in Tasks : OnFile(u)' = OnFile(u)
  BY DEF OnFile
<1>2. \A u \in Tasks : RunIsWritten(u) /\ RunStays(u)
  BY <1>1 DEF RunsAreWritten, RunStays
<1> QED
  BY <1>2, RunStaysWritten DEF RunsAreWritten

\* A step that puts entries of one task into the file.
LEMMA RunIsAppended ==
  ASSUME SessionTypes, RunsAreWritten, NEW t \in Tasks, NEW x \in Seq(OfTask(t)), x \in Seq(Heard),
         entries' = entries \o x, memory' \in Seq(Heard),
         \A u \in Tasks : u # t => pc'[u] = pc[u] /\ kind'[u] = kind[u] /\ new'[u] = new[u],
         OnFile(t)' = OnFile(t) \o x => RunIsWritten(t)'
  PROVE  RunsAreWritten'
<1>1. /\ OnFile(t)' = OnFile(t) \o x
      /\ \A u \in Tasks : u # t => OnFile(u)' = OnFile(u)
  BY FileGrowsBy
<1>2. ASSUME NEW u \in Tasks PROVE RunIsWritten(u)'
  <2>1. CASE u = t
    BY <1>1, <2>1
  <2>2. CASE u # t
    <3>1. RunIsWritten(u) /\ RunStays(u)
      BY <1>1, <2>2 DEF RunsAreWritten, RunStays
    <3> QED
      BY <3>1, RunStaysWritten
  <2> QED
    BY <2>1, <2>2
<1>3. entries' \in Seq(Heard)
  BY DEF RunsAreWritten
<1> QED
  BY <1>2, <1>3 DEF RunsAreWritten

\* A loop's messages are added behind the first one of a prompt.
LEMMA RunAdds ==
  ASSUME SessionTypes, SessionTypes', RunsAreWritten, NEW t \in Tasks, pc[t] = "looping",
         NEW ms \in Seq(Message), \A i \in 1..Len(ms) : ms[i] \in Added(t),
         new' = [new EXCEPT ![t] = @ \o ms], UNCHANGED <<entries, memory, pc, kind>>
  PROVE  RunsAreWritten'
<1> DEFINE v == new[t] \o ms
<1>1. \A u \in Tasks : new'[u] = IF u = t THEN v ELSE new[u]
  BY DEF SessionTypes
<1>2. /\ new[t] \in Seq(Message) /\ Len(new[t]) \in Nat /\ Len(ms) \in Nat /\ v \in Seq(Message)
      /\ Len(v) = Len(new[t]) + Len(ms)
      /\ \A i \in 1..Len(new[t]) : v[i] = new[t][i]
      /\ \A i \in 1..Len(v) : i > Len(new[t]) => v[i] = ms[i - Len(new[t])]
  BY DEF SessionTypes
<1> HIDE DEF v
<1>3. RunIsWritten(t) /\ memory' \in Seq(Heard)
  BY DEF RunsAreWritten
<1>4. kind[t] = "prompt" => new[t] # <<>> /\ Len(new[t]) > 0
  BY <1>2, <1>3 DEF RunIsWritten
<1>5. NewIsAdded(t)'
  <2> SUFFICES ASSUME NEW i \in 1..Len(v)
               PROVE  IF i = 1 /\ kind[t] = "prompt" THEN v[i] = Prompt(t) ELSE v[i] \in Added(t)
    BY <1>1 DEF NewIsAdded
  <2>1. CASE i <= Len(new[t])
    BY <1>2, <1>3, <2>1 DEF RunIsWritten, NewIsAdded
  <2>2. CASE i > Len(new[t])
    <3>1. i - Len(new[t]) \in 1..Len(ms)
      BY <1>2, <2>2
    <3>2. v[i] \in Added(t)
      BY <1>2, <2>2, <3>1
    <3> QED
      BY <1>4, <2>2, <3>2
  <2> QED
    BY <1>2, <2>1, <2>2
<1>6. kind[t] = "prompt" => new'[t] # <<>>
  <2>1. CASE kind[t] = "prompt"
    <3>1. Len(new'[t]) > 0
      BY <1>1, <1>2, <1>4, <2>1
    <3> QED
      BY <3>1
  <2> QED
    BY <2>1
<1>7. OnFile(t)' = OnFile(t) => RunIsWritten(t)'
  BY <1>3, <1>5, <1>6 DEF RunIsWritten, Opening
<1> QED
  BY <1>1, <1>3, <1>7, RunMovesOn

LEMMA RunsStep ==
  ASSUME SessionTypes, SessionTypes', SlotIsOnes, HistoryIsTight, RunsAreWritten, [Next]_vars
  PROVE  RunsAreWritten'
<1> USE DEF GoTo, slot, task, compaction, history
<1>1. /\ memory \in Seq(Heard) /\ entries \in Seq(Heard)
      /\ \A u \in Tasks : RunIsWritten(u)
  BY DEF RunsAreWritten
<1>2. ASSUME NEW t \in Tasks, Claim(t) PROVE RunsAreWritten'
  <2>1. /\ pc[t] = "ready" /\ UNCHANGED <<new, memory, entries>>
        /\ \E to \in {"claimed", "refused"} : pc' = [pc EXCEPT ![t] = to]
        /\ \A u \in Tasks : u # t => kind'[u] = kind[u]
    BY <1>2 DEF Claim, SessionTypes
  <2>2. /\ pc'[t] \in {"claimed", "refused"} /\ \A u \in Tasks : u # t => pc'[u] = pc[u]
    BY <2>1 DEF SessionTypes
  <2>3. OnFile(t)' = OnFile(t) => RunIsWritten(t)'
    BY <1>1, <2>1, <2>2 DEF RunIsWritten, NewIsAdded
  <2> QED
    BY <1>1, <2>1, <2>2, <2>3, RunMovesOn
<1>3. ASSUME NEW t \in Tasks, InstallToken(t) PROVE RunsAreWritten'
  <2>1. /\ pc[t] = "claimed" /\ UNCHANGED <<new, kind, memory, entries>>
        /\ pc'[t] = IF kind[t] = "prompt" THEN "armed" ELSE "building"
        /\ \A u \in Tasks : u # t => pc'[u] = pc[u]
    BY <1>3 DEF InstallToken, SessionTypes
  <2>2. OnFile(t)' = OnFile(t) => RunIsWritten(t)'
    BY <1>1, <2>1 DEF RunIsWritten, NewIsAdded, Opening
  <2> QED
    BY <1>1, <2>1, <2>2, RunMovesOn
<1>4. ASSUME NEW t \in Tasks, AppendPrompt(t) PROVE RunsAreWritten'
  <2>1. /\ pc[t] = "armed" /\ UNCHANGED <<new, kind, memory>>
        /\ entries' = Append(entries, Prompt(t))
        /\ pc'[t] = "building" /\ \A u \in Tasks : u # t => pc'[u] = pc[u]
    BY <1>4 DEF AppendPrompt, SessionTypes
  <2>2. Prompt(t) \in Heard /\ Prompt(t) \in OfTask(t)
    BY HistoryIsHeard, MessagesOfTasks DEF OfTask, Prompt, Msg
  <2>3. entries' = entries \o <<Prompt(t)>> /\ <<Prompt(t)>> \in Seq(Heard)
        /\ <<Prompt(t)>> \in Seq(OfTask(t))
    BY <1>1, <2>1, <2>2
  <2>4. OnFile(t) = <<>> /\ new[t] = <<>> /\ kind[t] = "prompt" /\ NewIsAdded(t)
    BY <1>1, <2>1 DEF RunIsWritten
  <2>5. OnFile(t)' = OnFile(t) \o <<Prompt(t)>> => RunIsWritten(t)'
    <3>1. <<>> \o <<Prompt(t)>> = <<Prompt(t)>>
      OBVIOUS
    <3> QED
      BY <2>1, <2>4, <3>1 DEF RunIsWritten, NewIsAdded, Opening
  <2> QED
    BY <1>1, <2>1, <2>3, <2>5, RunIsAppended
<1>5. ASSUME NEW t \in Tasks, AppendPromptFails(t) PROVE RunsAreWritten'
  <2>1. /\ pc[t] = "armed" /\ UNCHANGED <<new, kind, memory, entries>>
        /\ pc'[t] = "unwritten" /\ \A u \in Tasks : u # t => pc'[u] = pc[u]
    BY <1>5 DEF AppendPromptFails, SessionTypes
  <2>2. OnFile(t)' = OnFile(t) => RunIsWritten(t)'
    BY <1>1, <2>1 DEF RunIsWritten, NewIsAdded
  <2> QED
    BY <1>1, <2>1, <2>2, RunMovesOn
<1>6. ASSUME NEW t \in Tasks, BuildContext(t) PROVE RunsAreWritten'
  <2>1. /\ pc[t] = "building" /\ UNCHANGED <<new, kind, memory, entries>>
        /\ pc'[t] = "configuring" /\ \A u \in Tasks : u # t => pc'[u] = pc[u]
    BY <1>6 DEF BuildContext, SessionTypes
  <2>2. OnFile(t)' = OnFile(t) => RunIsWritten(t)'
    BY <1>1, <2>1 DEF RunIsWritten, NewIsAdded, Opening
  <2> QED
    BY <1>1, <2>1, <2>2, RunMovesOn
<1>7. ASSUME NEW t \in Tasks, ConfigFails(t) PROVE RunsAreWritten'
  <2>1. /\ pc[t] = "configuring" /\ UNCHANGED <<new, kind, memory, entries>>
        /\ pc'[t] = "failed" /\ \A u \in Tasks : u # t => pc'[u] = pc[u]
    BY <1>7 DEF ConfigFails, SessionTypes
  <2>2. IsPrefix(OnFile(t), Expected(t))
    BY <1>1, WrittenIsPrefix
  <2>3. OnFile(t)' = OnFile(t) => RunIsWritten(t)'
    BY <1>1, <2>1, <2>2 DEF RunIsWritten, NewIsAdded, Expected
  <2> QED
    BY <1>1, <2>1, <2>3, RunMovesOn
<1>8. ASSUME NEW t \in Tasks, StartLoop(t) PROVE RunsAreWritten'
  <2>1. /\ pc[t] = "configuring" /\ UNCHANGED <<kind, memory, entries>>
        /\ pc'[t] = "looping" /\ \A u \in Tasks : u # t => pc'[u] = pc[u] /\ new'[u] = new[u]
        /\ new'[t] = Opening(t)
    BY <1>8 DEF StartLoop, SessionTypes, Opening
  <2>2. NewIsAdded(t)'
    BY <2>1 DEF NewIsAdded, Opening
  <2>3. kind[t] = "prompt" => new'[t] # <<>>
    BY <2>1 DEF Opening
  <2>4. OnFile(t)' = OnFile(t) => RunIsWritten(t)'
    BY <1>1, <2>1, <2>2, <2>3 DEF RunIsWritten, Opening
  <2> QED
    BY <1>1, <2>1, <2>4, RunMovesOn
<1>9. ASSUME NEW t \in Tasks, LoopAnswers(t) PROVE RunsAreWritten'
  <2> DEFINE m == Msg("answer", t, Len(new[t]) + 1, PromptSize(t))
  <2>1. pc[t] = "looping" /\ new' = [new EXCEPT ![t] = @ \o <<m>>]
        /\ UNCHANGED <<entries, memory, pc, kind>>
    BY <1>9 DEF LoopAnswers, LoopAdds, CanSpeak, CanGoOn
  <2>2. m \in Added(t) /\ m \in Message
    <3>1. Len(new[t]) + 1 \in Nat /\ PromptSize(t) \in Nat
      BY PromptSizeType, SMTT(30) DEF SessionTypes
    <3>2. m \in Message
      BY <3>1, MessagesOfTasks
    <3> QED
      BY <3>2 DEF Added, Msg
  <2> HIDE DEF m
  <2>3. <<m>> \in Seq(Message) /\ \A i \in 1..Len(<<m>>) : <<m>>[i] \in Added(t)
    BY <2>2
  <2> QED
    BY <2>1, <2>3, RunAdds
<1>10. ASSUME NEW t \in Tasks, LoopUsesTool(t) PROVE RunsAreWritten'
  <2> DEFINE a == Msg("call", t, Len(new[t]) + 1, PromptSize(t))
             b == Msg("result", t, Len(new[t]) + 1, 0)
  <2>1. pc[t] = "looping" /\ new' = [new EXCEPT ![t] = @ \o <<a, b>>]
        /\ UNCHANGED <<entries, memory, pc, kind>>
    BY <1>10 DEF LoopUsesTool, LoopAdds, CanSpeak, CanGoOn
  <2>2. a \in Added(t) /\ a \in Message /\ b \in Added(t) /\ b \in Message
    <3>1. Len(new[t]) + 1 \in Nat /\ PromptSize(t) \in Nat
      BY PromptSizeType, SMTT(30) DEF SessionTypes
    <3>2. a \in Message /\ b \in Message
      BY <3>1, MessagesOfTasks
    <3> QED
      BY <3>2 DEF Added, Msg
  <2> HIDE DEF a, b
  <2>3. <<a, b>> \in Seq(Message) /\ \A i \in 1..Len(<<a, b>>) : <<a, b>>[i] \in Added(t)
    BY <2>2
  <2> QED
    BY <2>1, <2>3, RunAdds
<1>11. ASSUME NEW t \in Tasks, NEW q \in Queues, LoopHears(t, q) PROVE RunsAreWritten'
  <2>1. pc[t] = "looping" /\ new' = [new EXCEPT ![t] = @ \o queue[q]]
        /\ UNCHANGED <<entries, memory, pc, kind>>
    BY <1>11 DEF LoopHears, LoopAdds, CanGoOn
  <2>2. queue[q] \in Seq(Message)
    BY DEF SessionTypes
  <2>3. \A i \in 1..Len(queue[q]) : queue[q][i] \in Added(t)
    <3>1. \A i \in 1..Len(queue[q]) :
            queue[q][i] \in Message /\ queue[q][i].kind = "user" /\ queue[q][i].by = q
      BY <2>2 DEF HistoryIsTight, QueuedAreUsers
    <3> QED
      BY <3>1 DEF Added
  <2> QED
    BY <2>1, <2>2, <2>3, RunAdds
<1>12. ASSUME NEW t \in Tasks, LoopEnds(t) \/ LoopDies(t) PROVE RunsAreWritten'
  <2>1. /\ pc[t] = "looping" /\ UNCHANGED <<kind, memory, entries>>
        /\ pc'[t] = "drained" /\ \A u \in Tasks : u # t => pc'[u] = pc[u] /\ new'[u] = new[u]
        /\ new'[t] = new[t] \/ new'[t] = <<>>
    BY <1>12 DEF LoopEnds, LoopDies, SessionTypes
  <2>2. NewIsAdded(t)'
    BY <1>1, <2>1 DEF NewIsAdded, RunIsWritten
  <2>3. OnFile(t)' = OnFile(t) => RunIsWritten(t)'
    BY <1>1, <2>1, <2>2 DEF RunIsWritten, Opening
  <2> QED
    BY <1>1, <2>1, <2>3, RunMovesOn
<1>13. ASSUME NEW t \in Tasks, Persist(t) PROVE RunsAreWritten'
  <2> DEFINE x == ToPersist(new[t])
  <2>1. /\ pc[t] = "drained" /\ UNCHANGED <<new, kind>>
        /\ memory' = memory \o new[t] /\ entries' = entries \o x
        /\ pc'[t] = "persisted" /\ \A u \in Tasks : u # t => pc'[u] = pc[u]
    BY <1>13 DEF Persist, SessionTypes
  <2>2. SubSeq(new[t], 1, Len(new[t])) = new[t] /\ Len(new[t]) \in 0..Len(new[t])
    BY DEF SessionTypes
  <2>3. NewIsAdded(t)
    BY <1>1 DEF RunIsWritten
  <2>4. new[t] \in Seq(Heard) /\ x \in Seq(OfTask(t))
    BY <2>2, <2>3, NewIsOwn
  <2>5. \A i \in 1..Len(x) : x[i] \in Heard
    <3>1. x \in Seq(Heard)
      BY <2>4, KeptType DEF ToPersist
    <3> HIDE DEF x
    <3> QED
      BY <3>1
  <2>6. x \in Seq(Heard)
    BY <2>4, <2>5, OverItsElements
  <2>7. memory' \in Seq(Heard)
    BY <1>1, <2>1, <2>4
  <2>8. OnFile(t) = Opening(t) /\ Expected(t) = Opening(t) \o x
    BY <1>1, <2>1, WrittenIsPrefix DEF RunIsWritten
  <2> HIDE DEF x
  <2>9. OnFile(t)' = OnFile(t) \o x => RunIsWritten(t)'
    <3>1. Expected(t)' = Expected(t) /\ NewIsAdded(t)'
      BY <2>1, <2>3 DEF Expected, NewIsAdded
    <3> QED
      BY <2>1, <2>8, <3>1 DEF RunIsWritten
  <2> QED
    BY <2>1, <2>4, <2>6, <2>7, <2>9, RunIsAppended
<1>14. ASSUME NEW t \in Tasks, PersistFails(t) PROVE RunsAreWritten'
  <2>1. /\ pc[t] = "drained" /\ UNCHANGED <<new, kind>>
        /\ pc'[t] = "partly" /\ \A u \in Tasks : u # t => pc'[u] = pc[u]
    BY <1>14 DEF PersistFails, SessionTypes
  <2>2. PICK n \in 1..Len(new[t]) :
          /\ memory' = memory \o SubSeq(new[t], 1, n)
          /\ entries' = entries \o ToPersist(SubSeq(new[t], 1, n - 1))
    BY <1>14 DEF PersistFails
  <2> DEFINE x == ToPersist(SubSeq(new[t], 1, n - 1))
  <2>3. n \in 0..Len(new[t]) /\ n - 1 \in 0..Len(new[t])
    BY DEF SessionTypes
  <2>4. NewIsAdded(t)
    BY <1>1 DEF RunIsWritten
  <2>5. /\ SubSeq(new[t], 1, n) \in Seq(Heard) /\ SubSeq(new[t], 1, n - 1) \in Seq(Heard)
        /\ x \in Seq(OfTask(t))
    BY <2>3, <2>4, NewIsOwn
  <2>6. x \in Seq(Heard)
    BY <2>5, KeptType DEF ToPersist
  <2>7. memory' \in Seq(Heard)
    BY <1>1, <2>2, <2>5
  <2>8. OnFile(t) = Opening(t) /\ Expected(t) = Opening(t) \o ToPersist(new[t])
        /\ Opening(t) \in Seq(Entry) /\ ToPersist(new[t]) \in Seq(Entry)
    BY <1>1, <2>1, WrittenIsPrefix DEF RunIsWritten
  <2>9. IsPrefix(x, ToPersist(new[t]))
    BY <2>3, ToPersistPrefix DEF SessionTypes
  <2>10. x \in Seq(Entry)
    BY <2>6 DEF Heard
  <2> HIDE DEF x
  <2>11. IsPrefix(Opening(t) \o x, Expected(t))
    BY <2>8, <2>9, <2>10, PrefixBehind
  <2>12. OnFile(t)' = OnFile(t) \o x => RunIsWritten(t)'
    <3>1. Expected(t)' = Expected(t) /\ NewIsAdded(t)'
      BY <2>1, <2>4 DEF Expected, NewIsAdded
    <3> QED
      BY <2>1, <2>8, <2>11, <3>1 DEF RunIsWritten
  <2>13. entries' = entries \o x
    BY <2>2 DEF x
  <2> QED
    BY <2>1, <2>5, <2>6, <2>7, <2>12, <2>13, RunIsAppended
<1>15. ASSUME NEW t \in Tasks, EndWithoutCompaction(t) \/ AutoCompact(t) PROVE RunsAreWritten'
  <2>1. /\ pc[t] = "persisted" /\ UNCHANGED <<new, kind, memory, entries>>
        /\ pc'[t] \in {"ended", "compacting"} /\ \A u \in Tasks : u # t => pc'[u] = pc[u]
    BY <1>15 DEF EndWithoutCompaction, AutoCompact, SessionTypes
  <2>2. OnFile(t)' = OnFile(t) => RunIsWritten(t)'
    BY <1>1, <2>1 DEF RunIsWritten, NewIsAdded, Expected
  <2> QED
    BY <1>1, <2>1, <2>2, RunMovesOn
<1>16. ASSUME NEW c \in Compactors, AbortRunning(c) \/ TakeSnapshot(c) PROVE RunsAreWritten'
  BY <1>1, <1>16, RunsLeft DEF AbortRunning, TakeSnapshot
<1>17. ASSUME NEW c \in Compactors, AppendCompaction(c) PROVE RunsAreWritten'
  <2> DEFINE x == <<Compaction(snapshot[c].cut)>>
  <2>1. /\ UNCHANGED <<memory, pc, kind, new>> /\ stage[c] = "summarising"
        /\ entries' = Append(entries, Compaction(snapshot[c].cut))
    BY <1>17 DEF AppendCompaction
  <2>2. snapshot[c].cut \in Nat \ {0}
    BY <2>1 DEF SessionTypes
  <2>3. Compaction(snapshot[c].cut) \in Heard /\ Compaction(snapshot[c].cut).kind = "compaction"
    BY <2>2, HistoryIsHeard DEF Compaction
  <2>4. x \in Seq(Heard) /\ entries' = entries \o x /\ entries' \in Seq(Heard)
    BY <1>1, <2>1, <2>3
  <2>5. \A u \in Tasks : OnFile(u)' = OnFile(u) \o Kept(x, OfTask(u))
    <3>1. Heard \subseteq Entry
      BY DEF Heard
    <3> QED
      BY <1>1, <2>4, <3>1, FileGrows
  <2>6. ASSUME NEW u \in Tasks PROVE OnFile(u)' = OnFile(u)
    <3>1. x \in Seq({Compaction(snapshot[c].cut)}) /\ {Compaction(snapshot[c].cut)} \cap OfTask(u) = {}
      BY <2>3 DEF OfTask
    <3>2. Kept(x, OfTask(u)) = <<>>
      BY <3>1, KeptNone
    <3>3. OnFile(u)' = OnFile(u) \o <<>>
      BY <2>5, <3>2, Zenon
    <3>4. OnFile(u) \in Seq(Entry)
      BY <1>1, WrittenIsPrefix
    <3>5. OnFile(u) \o <<>> = OnFile(u)
      BY <3>4
    <3> QED
      BY <3>3, <3>5
  <2>7. \A u \in Tasks : RunStays(u)
    BY <2>1, <2>6 DEF RunStays
  <2> QED
    BY <1>1, <2>1, <2>4, <2>7, RunStaysWritten DEF RunsAreWritten
<1>18. ASSUME NEW c \in Compactors, CompactionFails(c) \/ Rebuild(c) PROVE RunsAreWritten'
  <2>1. PICK how \in {"ended", "failed"} : Return(c, how)
    BY <1>18 DEF CompactionFails, Rebuild
  <2>2. entries' = entries /\ stage[c] # "off"
    BY <1>18 DEF CompactionFails, Rebuild, MayPlan
  <2>3. memory' \in Seq(Heard)
    <3>1. CASE CompactionFails(c)
      BY <1>1, <3>1 DEF CompactionFails
    <3>2. CASE Rebuild(c)
      <4> DEFINE es  == snapshot[c].entries
                 cut == snapshot[c].cut
      <4>1. /\ stage[c] = "rebuilding" /\ memory' = <<Summary>> \o Messages(From(es, cut))
        BY <3>2 DEF Rebuild
      <4>2. /\ IsPrefix(es, entries) /\ es \in Seq(Entry) /\ entries \in Seq(Entry)
            /\ cut \in Nat \ {0}
        BY <4>1 DEF HistoryIsTight, SessionTypes
      <4> HIDE DEF es, cut
      <4>3. \A i \in 1..Len(es) : es[i] \in Heard
        <5>1. Len(es) <= Len(entries) /\ \A i \in 1..Len(es) : es[i] = entries[i]
          BY <4>2, PrefixMeans
        <5> QED
          BY <1>1, <4>2, <5>1
      <4>4. es \in Seq(Heard)
        BY <4>2, <4>3, OverItsElements
      <4>5. Messages(From(es, cut)) \in Seq(Heard)
        BY <4>2, <4>4, FromType, HistoryIsHeard
      <4> QED
        BY <4>1, <4>5, HistoryIsHeard
    <3> QED
      BY <1>18, <3>1, <3>2
  <2>4. CASE c = Caller
    <3>1. UNCHANGED <<pc, kind, new>>
      BY <2>1, <2>4 DEF Return
    <3> QED
      BY <2>2, <2>3, <3>1, RunsLeft
  <2>5. CASE c # Caller
    <3>1. /\ c \in Tasks /\ pc' = [pc EXCEPT ![c] = how] /\ UNCHANGED <<kind, new>>
      BY <2>1, <2>5 DEF Return, Compactors
    <3>2. pc[c] = "compacting" /\ pc'[c] = how /\ \A u \in Tasks : u # c => pc'[u] = pc[u]
      BY <2>2, <3>1 DEF SlotIsOnes, SessionTypes
    <3>3. IsPrefix(OnFile(c), Expected(c))
      BY <1>1, <3>1, WrittenIsPrefix
    <3>4. OnFile(c)' = OnFile(c) => RunIsWritten(c)'
      BY <1>1, <3>1, <3>2, <3>3 DEF RunIsWritten, NewIsAdded, Expected
    <3> QED
      BY <2>2, <2>3, <3>1, <3>2, <3>4, RunMovesOn
  <2> QED
    BY <2>4, <2>5
<1>19. ASSUME Compact \/ (\E q \in Queues : Queue(q)) \/ Abort PROVE RunsAreWritten'
  BY <1>1, <1>19, RunsLeft DEF Compact, Queue, Abort
<1>20. ASSUME UNCHANGED vars PROVE RunsAreWritten'
  BY <1>1, <1>20, RunsLeft DEF vars
<1>21. ASSUME Restart PROVE RunsAreWritten'
  <2>1. PICK written \in HalfWritten :
          /\ entries' = entries \o written
          /\ memory' = ContextMessages(entries \o written)
    BY <1>21 DEF Restart
  <2>2. /\ UNCHANGED <<kind, new>>
        /\ \A u \in Tasks : pc'[u] = IF pc[u] = "ready" THEN "ready" ELSE "gone"
    BY <1>21 DEF Restart
  <2>3. written \in Seq(Heard) /\ \A u \in Tasks :
          /\ pc[u] = "ready" => OnFile(u)' = OnFile(u)
          /\ IsPrefix(OnFile(u)', Expected(u))
    <3>1. CASE written = <<>>
      <4>1. entries' = entries
        BY <2>1, <3>1 DEF SessionTypes
      <4>2. \A u \in Tasks : OnFile(u)' = OnFile(u)
        BY <4>1 DEF OnFile
      <4> QED
        BY <1>1, <3>1, <4>2, WrittenIsPrefix
    <3>2. CASE written # <<>>
      <4>1. PICK t \in Tasks : pc[t] = "drained" /\ \E n \in 0..Len(ToPersist(new[t])) :
              written = SubSeq(ToPersist(new[t]), 1, n)
        BY <3>2, HalfWrittenType
      <4>2. PICK n \in 0..Len(ToPersist(new[t])) : written = SubSeq(ToPersist(new[t]), 1, n)
        BY <4>1
      <4>3. ToPersist(new[t]) \in Seq(OfTask(t)) /\ ToPersist(new[t]) \in Seq(Heard)
        <5>1. SubSeq(new[t], 1, Len(new[t])) = new[t] /\ Len(new[t]) \in 0..Len(new[t])
              /\ NewIsAdded(t)
          BY <1>1 DEF SessionTypes, RunIsWritten
        <5>2. new[t] \in Seq(Heard) /\ ToPersist(new[t]) \in Seq(OfTask(t))
          BY <5>1, NewIsOwn
        <5> QED
          BY <5>2, KeptType DEF ToPersist
      <4>4. written \in Seq(OfTask(t)) /\ written \in Seq(Heard)
        BY <4>2, <4>3, PartIsPrefix
      <4>5. IsPrefix(written, ToPersist(new[t])) /\ written \in Seq(Entry)
        BY <4>2, <4>3, <4>4, PartIsPrefix DEF Heard
      <4>6. OnFile(t) = Opening(t) /\ Expected(t) = Opening(t) \o ToPersist(new[t])
            /\ Opening(t) \in Seq(Entry) /\ ToPersist(new[t]) \in Seq(Entry)
        BY <1>1, <4>1, WrittenIsPrefix DEF RunIsWritten
      <4>7. IsPrefix(Opening(t) \o written, Opening(t) \o ToPersist(new[t]))
        BY <4>5, <4>6, PrefixBehind
      <4>8. /\ OnFile(t)' = OnFile(t) \o written
            /\ \A u \in Tasks : u # t => OnFile(u)' = OnFile(u)
        BY <2>1, <4>4, FileGrowsBy
      <4>9. IsPrefix(OnFile(t)', Expected(t))
        BY <4>6, <4>7, <4>8, Zenon
      <4>10. ASSUME NEW u \in Tasks
             PROVE  /\ pc[u] = "ready" => OnFile(u)' = OnFile(u)
                    /\ IsPrefix(OnFile(u)', Expected(u))
        <5>1. CASE u = t
          BY <4>1, <4>9, <5>1
        <5>2. CASE u # t
          BY <1>1, <4>8, <5>2, WrittenIsPrefix
        <5> QED
          BY <5>1, <5>2
      <4> QED
        BY <4>4, <4>10
    <3> QED
      BY <3>1, <3>2
  <2>4. entries \o written \in Seq(Heard)
    BY <1>1, <2>3
  <2>5. memory' \in Seq(Heard) /\ entries' \in Seq(Heard)
    BY <2>1, <2>4, HistoryIsHeard
  <2>6. ASSUME NEW u \in Tasks PROVE RunIsWritten(u)'
    <3>1. Expected(u)' = Expected(u) /\ NewIsAdded(u)'
      BY <1>1, <2>2 DEF Expected, NewIsAdded, RunIsWritten
    <3> QED
      BY <1>1, <2>2, <2>3, <3>1 DEF RunIsWritten
  <2> QED
    BY <2>5, <2>6 DEF RunsAreWritten
<1> QED
  BY <1>2, <1>3, <1>4, <1>5, <1>6, <1>7, <1>8, <1>9, <1>10, <1>11, <1>12, <1>13, <1>14,
     <1>15, <1>16, <1>17, <1>18, <1>19, <1>20, <1>21
     DEF Next, TaskStep, LoopRuns, CompactionStep

LEMMA HistoryInit == Init => HistoryIsTight /\ RunsAreWritten
<1> SUFFICES ASSUME Init PROVE HistoryIsTight /\ RunsAreWritten
  OBVIOUS
<1>1. /\ memory = <<>> /\ entries = <<>>
      /\ \A q \in Queues : queue[q] = <<>>
      /\ \A t \in Tasks : context[t] = <<>> /\ new[t] = <<>> /\ pc[t] = "ready"
      /\ \A c \in Compactors : stage[c] = "off"
  BY DEF Init
<1>2. HistoryIsTight
  <2>1. CutsAreSafe(entries) /\ QueuedAreUsers
    BY <1>1 DEF CutsAreSafe, QueuedAreUsers
  <2> QED
    BY <1>1, <2>1, TightParts DEF HistoryIsTight
<1>3. \A t \in Tasks : OnFile(t) = <<>>
  BY <1>1, KeptEmpty DEF OnFile
<1>4. RunsAreWritten
  BY <1>1, <1>3 DEF RunsAreWritten, RunIsWritten, NewIsAdded
<1> QED
  BY <1>2, <1>4

(***************************************************************************)
(* What a restart finds and a provider accepts: each run is in the file    *)
(* once, in its order, whole when its task got past its persist, and in    *)
(* memory, in the file's context and in every prompt a result follows its  *)
(* call (persist_new_messages, compact_inner, AgentSession::new).          *)
(***************************************************************************)
THEOREM FileTellsTheRuns == Spec => []HistoryInvariant
<1> DEFINE Inv == SessionTypes /\ SlotIsOnes /\ HistoryIsTight /\ RunsAreWritten
<1>1. Init => Inv
  BY SlotInit, HistoryInit
<1>2. Inv /\ [Next]_vars => Inv'
  <2> SUFFICES ASSUME Inv, [Next]_vars PROVE Inv'
    OBVIOUS
  <2>1. SessionTypes'
    BY TypesStep
  <2>2. SlotIsOnes'
    BY SlotStep
  <2>3. HistoryIsTight'
    BY TightStep
  <2>4. RunsAreWritten'
    BY <2>1, RunsStep
  <2> QED
    BY <2>1, <2>2, <2>3, <2>4
<1>3. Inv => HistoryInvariant
  <2> SUFFICES ASSUME Inv PROVE HistoryInvariant
    OBVIOUS
  <2>1. RunsAreOnFile
    <3> SUFFICES ASSUME NEW t \in Tasks
                 PROVE  /\ IsPrefix(OnFile(t), Expected(t))
                        /\ pc[t] \in {"looping", "drained"} /\ kind[t] = "prompt" =>
                             OnFile(t) = <<Prompt(t)>>
                        /\ pc[t] \in {"persisted", "compacting", "ended"} =>
                             OnFile(t) = Expected(t)
      BY DEF RunsAreOnFile
    <3>1. RunIsWritten(t)
      BY DEF RunsAreWritten
    <3> QED
      BY <3>1, WrittenIsPrefix DEF RunIsWritten, Opening
  <2>2. ResultsFollowTheirCall
    <3>1. /\ memory \in Seq(Entry) /\ entries \in Seq(Entry)
          /\ \A t \in Tasks : context[t] \in Seq(Entry) /\ new[t] \in Seq(Entry)
      BY MessagesOfTasks DEF SessionTypes
    <3>2. Ordered(Messages(memory))
      <4>1. Messages(memory) \in Seq(Entry) /\ Tight(Messages(memory))
        BY <3>1, MessagesType, TightMessages, MessagesOfTasks DEF HistoryIsTight
      <4> QED
        BY <4>1, TightIsOrdered
    <3>3. Ordered(ContextMessages(entries))
      <4>1. ContextMessages(entries) \in Seq(Entry) /\ Tight(ContextMessages(entries))
        BY <3>1, ContextMessagesType, TightContext, MessagesOfTasks DEF HistoryIsTight
      <4> QED
        BY <4>1, TightIsOrdered
    <3>4. ASSUME NEW t \in Tasks PROVE Ordered(Messages(context[t]) \o new[t])
      <4>1. /\ context[t] \in Seq(Entry) /\ new[t] \in Seq(Entry)
            /\ Tight(context[t]) /\ Tight(new[t])
        BY <3>1 DEF HistoryIsTight
      <4>2. Messages(context[t]) \in Seq(Entry) /\ Tight(Messages(context[t]))
        BY <4>1, MessagesType, TightMessages, MessagesOfTasks
      <4>3. /\ Messages(context[t]) \o new[t] \in Seq(Entry)
            /\ Tight(Messages(context[t]) \o new[t])
        BY <4>1, <4>2, TightParts
      <4> QED
        BY <4>3, TightIsOrdered
    <3> QED
      BY <3>2, <3>3, <3>4 DEF ResultsFollowTheirCall
  <2> QED
    BY <2>1, <2>2 DEF HistoryInvariant
<1> QED
  BY <1>1, <1>2, <1>3, PTL DEF Spec

-----------------------------------------------------------------------------
(***************************************************************************)
(* Memory and the file's context.  What the agent is given grows with the  *)
(* file, and starts anew behind a compaction.                              *)
(***************************************************************************)
AllMessages == {e \in Entry : IsMessage(e)}

LEMMA MessagesIs ==
  ASSUME NEW es \in Seq(Entry)
  PROVE  Messages(es) = Kept(es, AllMessages)
<1> DEFINE S == {e \in Range(es) : IsMessage(e)}
           X == Range(es) \cap Entry
<1>1. es \in Seq(X)
  <2>1. \A i \in 1..Len(es) : es[i] \in X
    BY OverItsRange
  <2> HIDE DEF X
  <2> QED
    BY <2>1, OverItsElements
<1>2. \A x \in X : x \in S <=> x \in AllMessages
  BY DEF AllMessages
<1> HIDE DEF S, X
<1>3. Kept(es, S) = Kept(es, AllMessages)
  BY <1>1, <1>2, KeptAgree
<1> QED
  BY <1>3 DEF Messages, S

LEMMA MessagesConcat ==
  \A v, w \in Seq(Entry) : Kept(v \o w, AllMessages) = Kept(v, AllMessages) \o Kept(w, AllMessages)
BY KeptConcat

LEMMA FromConcat ==
  ASSUME NEW X, NEW es \in Seq(X), NEW x \in Seq(X), NEW k \in 1..(Len(es) + 1)
  PROVE  From(es \o x, k) = From(es, k) \o x
<1> DEFINE all == es \o x
           v   == SubSeq(all, k, Len(all))
           a   == SubSeq(es, k, Len(es))
           w   == a \o x
           m   == Len(es) - k + 1
<1>1. /\ Len(es) \in Nat /\ Len(x) \in Nat /\ all \in Seq(X) /\ Len(all) = Len(es) + Len(x)
      /\ \A i \in 1..Len(es) : all[i] = es[i]
      /\ \A i \in 1..Len(all) : i > Len(es) => all[i] = x[i - Len(es)]
      /\ a \in Seq(X) /\ Len(a) = m /\ m \in Nat /\ \A i \in 1..m : a[i] = es[k + i - 1]
  <2>1. Len(es) \in Nat /\ Len(x) \in Nat /\ k \in Nat /\ m \in Nat
    OBVIOUS
  <2>2. /\ all \in Seq(X) /\ Len(all) = Len(es) + Len(x)
        /\ \A i \in 1..(Len(es) + Len(x)) :
             all[i] = IF i <= Len(es) THEN es[i] ELSE x[i - Len(es)]
    BY ConcatProperties
  <2>3. a \in Seq(X) /\ Len(a) = m /\ \A i \in 1..m : a[i] = es[k + i - 1]
    OBVIOUS
  <2> HIDE DEF all, a, m
  <2> QED
    BY <2>1, <2>2, <2>3
<1> HIDE DEF all, a
<1>2. /\ v \in Seq(X) /\ Len(v) = m + Len(x) /\ \A i \in 1..Len(v) : v[i] = all[k + i - 1]
  BY <1>1, SMTT(30)
<1>3. /\ w \in Seq(X) /\ Len(w) = m + Len(x)
      /\ \A i \in 1..m : w[i] = a[i]
      /\ \A i \in 1..Len(w) : i > m => w[i] = x[i - m]
  BY <1>1
<1> HIDE DEF v, w
<1>4. ASSUME NEW i \in 1..Len(v) PROVE v[i] = w[i]
  <2>1. CASE i <= m
    <3>1. i \in 1..m /\ k + i - 1 \in 1..Len(es)
      BY <1>1, <1>2, <2>1
    <3> QED
      BY <1>1, <1>2, <1>3, <3>1
  <2>2. CASE i > m
    <3>1. /\ k + i - 1 \in 1..Len(all) /\ k + i - 1 > Len(es)
          /\ (k + i - 1) - Len(es) = i - m /\ i \in 1..Len(w)
      BY <1>1, <1>2, <1>3, <2>2
    <3>2. v[i] = all[k + i - 1] /\ w[i] = x[i - m]
      BY <1>2, <1>3, <2>2, <3>1
    <3>3. all[k + i - 1] = x[(k + i - 1) - Len(es)]
      BY <1>1, <3>1
    <3> QED
      BY <3>1, <3>2, <3>3
  <2> QED
    BY <1>1, <1>2, <2>1, <2>2
<1>5. v = w
  <2>1. v \in Seq(X) /\ w \in Seq(X) /\ Len(v) = Len(w)
    BY <1>2, <1>3
  <2> QED
    BY <1>4, <2>1
<1> QED
  BY <1>5 DEF From, v, w, a, all

LEMMA ContextGrows ==
  ASSUME NEW es \in Seq(Entry), CutsAreSafe(es), NEW x \in Seq(Message)
  PROVE  ContextMessages(es \o x) = ContextMessages(es) \o Messages(x)
<1> DEFINE v == es \o x
           k == ContextStart(es)
<1>1. /\ Len(es) \in Nat /\ Len(x) \in Nat /\ v \in Seq(Entry) /\ Len(v) = Len(es) + Len(x)
      /\ \A i \in 1..Len(es) : v[i] = es[i]
      /\ \A i \in 1..Len(v) : i > Len(es) => v[i] \in Message
      /\ x \in Seq(Entry)
  BY MessagesOfTasks
<1> HIDE DEF v
<1>2. Compactions(v) = Compactions(es)
  <2>1. \A m \in Message : m.kind # "compaction"
    BY DEF Message, Kinds, MessageKinds
  <2>2. \A i \in 1..Len(v) : i > Len(es) => v[i].kind # "compaction"
    BY <1>1, <2>1
  <2> QED
    BY <1>1, <2>2 DEF Compactions
<1>3. ContextStart(v) = k /\ k \in 1..(Len(es) + 1)
  <2>1. CASE Compactions(es) = {}
    BY <1>1, <1>2, <2>1 DEF ContextStart
  <2>2. CASE Compactions(es) # {}
    <3>1. PICK i \in Compactions(es) : (\A j \in Compactions(es) : i >= j) /\ k = es[i].keep
      BY <2>2, ContextStartType
    <3>2. PICK j \in Compactions(v) :
            (\A l \in Compactions(v) : j >= l) /\ ContextStart(v) = v[j].keep
      BY <1>1, <1>2, <2>2, ContextStartType
    <3>3. i = j
      BY <1>2, <3>1, <3>2 DEF Compactions
    <3>4. i \in 1..Len(es) /\ es[i].kind = "compaction" /\ v[i] = es[i]
      BY <1>1, <3>1 DEF Compactions
    <3>5. SafeToCut(es, es[i].keep)
      BY <3>4 DEF CutsAreSafe
    <3> QED
      BY <1>1, <3>1, <3>2, <3>3, <3>4, <3>5 DEF SafeToCut
  <2> QED
    BY <2>1, <2>2
<1> HIDE DEF k
<1>4. From(v, k) = From(es, k) \o x
  BY <1>1, <1>3, FromConcat DEF v
<1>5. From(es, k) \in Seq(Entry)
  BY <1>3, FromType
<1>6. From(v, k) \in Seq(Entry)
  BY <1>1, <1>4, <1>5
<1>7. Kept(From(es, k) \o x, AllMessages) = Kept(From(es, k), AllMessages) \o Kept(x, AllMessages)
  <2>1. x \in Seq(Entry)
    BY <1>1
  <2> QED
    BY <1>5, <2>1, MessagesConcat
<1>8. /\ Messages(From(v, k)) = Kept(From(v, k), AllMessages)
      /\ Messages(From(es, k)) = Kept(From(es, k), AllMessages)
      /\ Messages(x) = Kept(x, AllMessages)
  BY <1>1, <1>5, <1>6, MessagesIs
<1>9. Messages(From(v, k)) = Messages(From(es, k)) \o Messages(x)
  BY <1>4, <1>7, <1>8, Zenon
<1> QED
  BY <1>3, <1>9, Zenon DEF ContextMessages, v, k

LEMMA ContextCompacted ==
  ASSUME NEW es \in Seq(Entry), NEW cut \in Nat \ {0}, SafeToCut(es, cut)
  PROVE  ContextMessages(Append(es, Compaction(cut))) = Messages(From(es, cut))
<1> DEFINE v == Append(es, Compaction(cut))
           x == <<Compaction(cut)>>
<1>1. /\ Len(es) \in Nat /\ v \in Seq(Entry) /\ Len(v) = Len(es) + 1 /\ v[Len(v)] = Compaction(cut)
      /\ v = es \o x /\ x \in Seq(Entry)
  BY MessagesOfTasks
<1>2. Compaction(cut).kind = "compaction" /\ Compaction(cut).keep = cut
  BY DEF Compaction
<1> HIDE DEF v, x
<1>3. ContextStart(v) = cut
  <2>1. Len(v) \in Compactions(v) /\ \A j \in Compactions(v) : j <= Len(v)
    BY <1>1, <1>2 DEF Compactions
  <2>2. PICK i \in Compactions(v) : (\A j \in Compactions(v) : i >= j) /\ ContextStart(v) = v[i].keep
    BY <1>1, <2>1, ContextStartType
  <2>3. i = Len(v)
    BY <1>1, <2>1, <2>2 DEF Compactions
  <2> QED
    BY <1>1, <1>2, <2>2, <2>3
<1>4. From(v, cut) = From(es, cut) \o x
  <2>1. cut \in 1..(Len(es) + 1)
    BY <1>1 DEF SafeToCut
  <2> QED
    BY <1>1, <2>1, FromConcat
<1>5. From(es, cut) \in Seq(Entry) /\ From(v, cut) \in Seq(Entry)
  BY <1>1, FromType
<1>6. Kept(x, AllMessages) = <<>>
  <2>1. x \in Seq({Compaction(cut)})
    BY DEF x
  <2>2. {Compaction(cut)} \cap AllMessages = {}
    BY <1>2 DEF AllMessages, IsMessage, MessageKinds
  <2> QED
    BY <2>1, <2>2, KeptNone
<1>7. Kept(From(es, cut) \o x, AllMessages) = Kept(From(es, cut), AllMessages) \o Kept(x, AllMessages)
  <2>1. x \in Seq(Entry)
    BY <1>1
  <2> QED
    BY <1>5, <2>1, MessagesConcat
<1>8. Kept(From(es, cut), AllMessages) \o <<>> = Kept(From(es, cut), AllMessages)
  <2>1. Kept(From(es, cut), AllMessages) \in Seq(Entry)
    BY <1>5, KeptType
  <2> QED
    BY <2>1
<1>9. /\ Messages(From(v, cut)) = Kept(From(v, cut), AllMessages)
      /\ Messages(From(es, cut)) = Kept(From(es, cut), AllMessages)
  BY <1>5, MessagesIs
<1>10. Messages(From(v, cut)) = Messages(From(es, cut))
  BY <1>4, <1>6, <1>7, <1>8, <1>9, Zenon
<1> QED
  BY <1>3, <1>10, Zenon DEF ContextMessages, v

\* What is told of a context is told of what was put behind it.
LEMMA ToldGrows ==
  ASSUME NEW es \in Seq(Entry), CutsAreSafe(es), NEW x \in Seq(Message), NEW T, T \subseteq AllMessages
  PROVE  Kept(ContextMessages(es \o x), T) = Kept(ContextMessages(es), T) \o Kept(x, T)
<1>1. ContextMessages(es \o x) = ContextMessages(es) \o Messages(x)
  BY ContextGrows
<1>2. x \in Seq(Entry) /\ ContextMessages(es) \in Seq(Message) /\ Messages(x) \in Seq(Message)
  BY ContextMessagesType, MessagesType, MessagesOfTasks
<1>3. Kept(ContextMessages(es) \o Messages(x), T)
        = Kept(ContextMessages(es), T) \o Kept(Messages(x), T)
  BY <1>2, KeptConcat
<1>4. Kept(Messages(x), T) = Kept(x, T)
  <2>1. Messages(x) = Kept(x, AllMessages)
    BY <1>2, MessagesIs
  <2>2. Kept(Kept(x, AllMessages), T) = Kept(x, AllMessages \cap T)
    BY <1>2, KeptTwice
  <2>3. AllMessages \cap T = T
    OBVIOUS
  <2> QED
    BY <2>1, <2>2, <2>3, Zenon
<1> QED
  BY <1>1, <1>3, <1>4, Zenon

(***************************************************************************)
(* Who may be compacting and who prompting.                                *)
(***************************************************************************)
LEMMA PromptingHolds ==
  ASSUME NEW t
  PROVE  (Prompting(t) => Holds(t)) /\ (Prompting(t) => Holds(t))'
BY DEF Prompting, Holds, Working

LEMMA OneCompactor ==
  ASSUME SlotIsOnes, CallerAlone
  PROVE  /\ \A c, d \in Compactors : stage[c] # "off" /\ stage[d] # "off" => c = d
         /\ \A t \in Tasks : Holds(t) /\ pc[t] # "compacting" =>
              \A c \in Compactors : stage[c] = "off"
<1>1. \A c \in Compactors : c # Caller => c \in Tasks
  BY DEF Compactors
<1>2. \A t \in Tasks : stage[t] # "off" => Holds(t) /\ isRunning /\ pc[t] = "compacting"
  BY HoldsByStage DEF SlotIsOnes, Held
<1>3. \A t \in Tasks : Holds(t) => stage[Caller] = "off"
  BY DEF SlotIsOnes, CallerAlone, Compacting
<1>4. ASSUME NEW c \in Compactors, NEW d \in Compactors, stage[c] # "off", stage[d] # "off"
      PROVE  c = d
  <2>1. CASE c = Caller \/ d = Caller
    BY <1>1, <1>2, <1>3, <1>4, <2>1
  <2>2. CASE c # Caller /\ d # Caller
    BY <1>1, <1>2, <1>4, <2>2 DEF SlotIsOnes
  <2> QED
    BY <2>1, <2>2
<1>5. ASSUME NEW t \in Tasks, Holds(t), pc[t] # "compacting", NEW c \in Compactors
      PROVE  stage[c] = "off"
  <2>1. CASE c = Caller
    BY <1>3, <1>5, <2>1
  <2>2. CASE c # Caller
    BY <1>1, <1>2, <1>5, <2>2 DEF SlotIsOnes
  <2> QED
    BY <2>1, <2>2
<1> QED
  BY <1>4, <1>5

\* What holds while t works and nothing disturbs.
LEMMA TellsNow ==
  ASSUME SlotIsOnes, MemoryFollows, Undisturbed, NEW t \in Tasks, Holds(t), pc[t] # "compacting"
  PROVE  /\ \A c \in Compactors : stage[c] = "off"
         /\ MemoryIsReported /\ TellTheSame
         /\ Prompting(t) => AllButPrompt(t)
         /\ ~Prompting(t) => SameTold
<1>1. \A c \in Compactors : stage[c] = "off"
  BY OneCompactor DEF MemoryFollows
<1>2. MemoryIsReported /\ TellTheSame
  BY <1>1 DEF MemoryFollows
<1>3. \A u \in Tasks : Prompting(u) => u = t
  BY PromptingHolds DEF SlotIsOnes
<1> QED
  BY <1>1, <1>2, <1>3 DEF TellTheSame

\* What has to be shown of a step of a task that works.
LEMMA TaskFollows ==
  ASSUME SlotIsOnes, SlotIsOnes', MemoryFollows, NEW t \in Tasks, Holds(t), pc[t] # "compacting",
         UNCHANGED stage, Undisturbed' => Undisturbed,
         \A u \in Tasks : u # t => pc'[u] = pc[u] /\ kind'[u] = kind[u],
         Undisturbed /\ Undisturbed' =>
           /\ MemoryIsReported'
           /\ Prompting(t)' => AllButPrompt(t)'
           /\ ~Prompting(t)' => SameTold'
  PROVE  MemoryFollows'
<1> SUFFICES ASSUME Undisturbed' PROVE MemoryFollows'
  BY DEF MemoryFollows
<1>1. Undisturbed
  OBVIOUS
<1>2. \A c \in Compactors : stage'[c] = "off"
  BY <1>1, TellsNow
<1>3. \A u \in Tasks : u # t => ~Prompting(u)'
  <2> SUFFICES ASSUME NEW u \in Tasks, u # t PROVE ~Prompting(u)'
    OBVIOUS
  <2>1. ~Prompting(u)
    BY PromptingHolds DEF SlotIsOnes
  <2> QED
    BY <2>1 DEF Prompting
<1>4. TellTheSame'
  BY <1>1, <1>3 DEF TellTheSame
<1>5. CallerAlone' /\ SnapshotsAreTheFile'
  BY <1>2 DEF CallerAlone, Compacting, SnapshotsAreTheFile, Compactors
<1> QED
  BY <1>1, <1>4, <1>5 DEF MemoryFollows

\* A step that leaves memory, file and messages alone.
LEMMA MemoryLeft ==
  ASSUME MemoryFollows, Undisturbed' => Undisturbed, UNCHANGED <<memory, entries, new>>,
         Undisturbed /\ Undisturbed' /\ CallerAlone => CallerAlone',
         \A u \in Tasks : pc[u] \in Reported => pc'[u] \in Reported,
         \A u \in Tasks : Prompting(u)' <=> Prompting(u),
         \A c \in Compactors :
           /\ stage'[c] = "summarising" =>
                \/ stage[c] = "summarising" /\ snapshot'[c] = snapshot[c]
                \/ snapshot'[c].entries = entries
           /\ stage'[c] = "rebuilding" <=> stage[c] = "rebuilding"
           /\ stage[c] = "rebuilding" => snapshot'[c] = snapshot[c]
  PROVE  MemoryFollows'
<1> SUFFICES ASSUME Undisturbed' PROVE MemoryFollows'
  BY DEF MemoryFollows
<1>1. /\ Undisturbed /\ CallerAlone /\ MemoryIsReported /\ SnapshotsAreTheFile
      /\ (\A c \in Compactors : stage[c] # "rebuilding") => TellTheSame
  BY DEF MemoryFollows
<1>2. MemoryIsReported'
  BY <1>1 DEF MemoryIsReported
<1>3. SnapshotsAreTheFile'
  BY <1>1 DEF SnapshotsAreTheFile
<1>4. ToldSet' = ToldSet
  BY DEF ToldSet
<1>5. SameTold' <=> SameTold
  BY <1>4 DEF SameTold
<1>6. \A t \in Tasks : AllButPrompt(t)' <=> AllButPrompt(t)
  BY <1>4 DEF AllButPrompt
<1>7. TellTheSame => TellTheSame'
  BY <1>5, <1>6 DEF TellTheSame
<1> QED
  BY <1>1, <1>2, <1>3, <1>7 DEF MemoryFollows

(***************************************************************************)
(* What of a task is in memory and in the file's context.                  *)
(***************************************************************************)
HeardBut(t, S) == {e \in Heard : IsMessage(e) /\ e.by = t => e \in S}

LEMMA ContextOver ==
  ASSUME NEW es \in Seq(Entry), NEW X, es \in Seq(X)
  PROVE  ContextMessages(es) \in Seq(X)
<1>1. From(es, ContextStart(es)) \in Seq(X)
  BY ContextStartType, FromType
<1> QED
  BY <1>1, KeptType DEF ContextMessages, Messages

LEMMA FileOverOnFile ==
  ASSUME SessionTypes, RunsAreWritten, NEW t \in Tasks, NEW S,
         \A j \in 1..Len(OnFile(t)) : OnFile(t)[j] \in S
  PROVE  entries \in Seq(HeardBut(t, S)) /\ ContextMessages(entries) \in Seq(HeardBut(t, S))
<1>1. entries \in Seq(Entry) /\ entries \in Seq(Heard)
  BY DEF SessionTypes, RunsAreWritten
<1>2. ASSUME NEW i \in 1..Len(entries) PROVE entries[i] \in HeardBut(t, S)
  <2>1. entries[i] \in Heard
    BY <1>1
  <2>2. ASSUME IsMessage(entries[i]), entries[i].by = t PROVE entries[i] \in S
    <3>1. entries[i] \in OfTask(t)
      BY <1>1, <2>2 DEF OfTask, IsMessage, MessageKinds
    <3>2. \E j \in 1..Len(Kept(entries, OfTask(t))) : Kept(entries, OfTask(t))[j] = entries[i]
      BY <1>1, <3>1, KeptMembers
    <3>3. OnFile(t) = Kept(entries, OfTask(t))
      BY <1>1, OnFileIs DEF OnFile
    <3> QED
      BY <3>2, <3>3
  <2> QED
    BY <2>1, <2>2 DEF HeardBut
<1>3. entries \in Seq(HeardBut(t, S))
  BY <1>1, <1>2, OverItsElements
<1> QED
  BY <1>1, <1>3, ContextOver

LEMMA MemoryOver ==
  ASSUME SessionTypes, RunsAreWritten, MemoryIsReported, NEW t \in Tasks, pc[t] \notin Reported
  PROVE  memory \in Seq(HeardBut(t, {}))
<1>1. memory \in Seq(Heard)
  BY DEF RunsAreWritten
<1>2. \A i \in 1..Len(memory) : memory[i] \in HeardBut(t, {})
  BY <1>1 DEF MemoryIsReported, HeardBut
<1> QED
  BY <1>1, <1>2, OverItsElements

LEMMA ToldSetMessages == ToldSet \subseteq AllMessages /\ \A t \in Tasks : Prompt(t) \in AllMessages
<1>1. ToldSet \subseteq AllMessages
  BY MessagesOfTasks DEF ToldSet, AllMessages
<1>2. \A t \in Tasks : Prompt(t) \in AllMessages
  BY MessagesOfTasks DEF AllMessages, Prompt, Msg, IsMessage, MessageKinds
<1> QED
  BY <1>1, <1>2

\* While a loop runs the messages of its task that are in the file are told or its prompt.
LEMMA LoopTells ==
  ASSUME SessionTypes, RunsAreWritten, MemoryIsReported, NEW t \in Tasks,
         pc[t] \in {"configuring", "looping"}, UNCHANGED <<memory, entries, kind>>,
         \A u \in Tasks : u # t => new'[u] = new[u],
         IF kind[t] = "prompt" THEN AllButPrompt(t) ELSE SameTold
  PROVE  IF kind[t] = "prompt" THEN AllButPrompt(t)' ELSE SameTold'
<1> DEFINE T  == ToldSet
           T2 == ToldSet'
           C  == ContextMessages(entries)
           P  == Prompt(t)
           Y  == HeardBut(t, {})
           Z  == HeardBut(t, {P})
<1>1. \A m \in Message : m.by # t => (m \in T <=> m \in T2)
  BY DEF ToldSet
<1>2. \A m : m \in T \/ m \in T2 => m \in Message /\ IsMessage(m)
  BY DEF ToldSet
<1>3. memory \in Seq(Y)
  BY MemoryOver DEF Reported
<1>4. Kept(memory, T) = Kept(memory, T2)
  <2>1. \A x \in Y : x \in T <=> x \in T2
    BY <1>1, <1>2 DEF HeardBut
  <2> HIDE DEF T, T2, Y
  <2> QED
    BY <1>3, <2>1, KeptAgree
<1>5. OnFile(t) = Opening(t)
  BY DEF RunsAreWritten, RunIsWritten
<1>6. CASE kind[t] = "prompt"
  <2>1. \A j \in 1..Len(OnFile(t)) : OnFile(t)[j] \in {P}
    BY <1>5, <1>6 DEF Opening
  <2>2. C \in Seq(Z)
    BY <2>1, FileOverOnFile
  <2>3. \A x \in Z : x \in T \cup {P} <=> x \in T2 \cup {P}
    BY <1>1, <1>2 DEF HeardBut
  <2>4. Kept(C, T \cup {P}) = Append(Kept(memory, T), P)
    BY <1>6 DEF AllButPrompt
  <2> HIDE DEF T, T2, C, P, Z
  <2>5. Kept(C, T \cup {P}) = Kept(C, T2 \cup {P})
    BY <2>2, <2>3, KeptAgree
  <2>6. Kept(C, T2 \cup {P}) = Append(Kept(memory, T2), P)
    BY <1>4, <2>4, <2>5, Zenon
  <2>7. AllButPrompt(t)'
    BY <2>6 DEF AllButPrompt, T2, C, P
  <2> QED
    BY <1>6, <2>7
<1>7. CASE kind[t] # "prompt"
  <2>1. \A j \in 1..Len(OnFile(t)) : OnFile(t)[j] \in {}
    BY <1>5, <1>7 DEF Opening
  <2>2. C \in Seq(Y)
    BY <2>1, FileOverOnFile
  <2>3. \A x \in Y : x \in T <=> x \in T2
    BY <1>1, <1>2 DEF HeardBut
  <2>4. Kept(C, T) = Kept(memory, T)
    BY <1>7 DEF SameTold
  <2> HIDE DEF T, T2, C, Y
  <2>5. Kept(C, T) = Kept(C, T2)
    BY <2>2, <2>3, KeptAgree
  <2>6. Kept(C, T2) = Kept(memory, T2)
    BY <1>4, <2>4, <2>5, Zenon
  <2>7. SameTold'
    BY <2>6 DEF SameTold, T2, C
  <2> QED
    BY <1>7, <2>7
<1> QED
  BY <1>6, <1>7

\* A prompt that no loop reports is told by neither.
LEMMA PromptForgotten ==
  ASSUME SessionTypes, NEW t \in Tasks, AllButPrompt(t), Prompt(t) \notin ToldSet
  PROVE  SameTold
<1> DEFINE T == ToldSet
           C == ContextMessages(entries)
           P == Prompt(t)
<1>1. C \in Seq(Message) /\ memory \in Seq(Message) /\ P \in Message
  BY ContextMessagesType, MessagesOfTasks DEF SessionTypes
<1>2. Kept(C, T \cup {P}) = Append(Kept(memory, T), P)
  BY DEF AllButPrompt
<1>3. P \notin T
  OBVIOUS
<1> HIDE DEF T, C, P
<1>4. Kept(Kept(C, T \cup {P}), T) = Kept(C, (T \cup {P}) \cap T)
  BY <1>1, KeptTwice
<1>5. (T \cup {P}) \cap T = T /\ T \cap T = T
  OBVIOUS
<1>6. Kept(memory, T) \in Seq(Message)
  BY <1>1, KeptType
<1>7. Kept(Append(Kept(memory, T), P), T)
        = IF P \in T THEN Append(Kept(Kept(memory, T), T), P) ELSE Kept(Kept(memory, T), T)
  BY <1>1, <1>6, KeptAppend
<1>8. Kept(Kept(memory, T), T) = Kept(memory, T \cap T)
  BY <1>1, KeptTwice
<1>9. Kept(C, T) = Kept(Kept(C, T \cup {P}), T)
  BY <1>4, <1>5, Zenon
<1>10. Kept(Append(Kept(memory, T), P), T) = Kept(memory, T)
  BY <1>3, <1>5, <1>7, <1>8, Zenon
<1>11. Kept(C, T) = Kept(memory, T)
  BY <1>2, <1>9, <1>10, Zenon
<1> QED
  BY <1>11 DEF SameTold, T, C

\* What a loop adds is told if and only if it is persisted.
LEMMA AddedIsTold ==
  ASSUME SessionTypes, NEW t \in Tasks, NEW ms \in Seq(Message), \A i \in 1..Len(ms) : ms[i] \in Added(t)
  PROVE  Kept(ms, ToldSet) = ToPersist(ms) /\ Kept(ToPersist(ms), ToldSet) = ToPersist(ms)
<1> DEFINE T == ToldSet
           A == Added(t)
<1>1. ms \in Seq(A)
  BY OverItsElements
<1>2. \A x \in A : x \in T <=> x \in Persisted
  <2> SUFFICES ASSUME NEW x \in A PROVE x \in T <=> x \in Persisted
    OBVIOUS
  <2>1. x \in Message
    BY DEF Added
  <2>2. CASE x.kind = "user"
    <3>1. x.by \in Queues
      BY <2>2 DEF Added
    <3>2. x.by \notin Tasks
      BY <3>1, SessionAssumption
    <3> QED
      BY <2>2, <3>2 DEF ToldSet, Persisted, ShouldPersist
  <2>3. CASE x.kind # "user"
    <3>1. x.by = t /\ x.kind \in {"answer", "call", "result"}
      BY <2>3 DEF Added
    <3> QED
      BY <2>1, <2>3, <3>1 DEF ToldSet, Persisted, ShouldPersist, IsMessage, MessageKinds
  <2> QED
    BY <2>2, <2>3
<1>3. ToPersist(ms) = Kept(ms, Persisted)
  BY ToPersistIs
<1> HIDE DEF T, A
<1>4. Kept(ms, T) = Kept(ms, Persisted)
  BY <1>1, <1>2, KeptAgree
<1>5. Kept(Kept(ms, Persisted), T) = Kept(ms, Persisted \cap T)
  BY KeptTwice
<1>6. Kept(ms, Persisted \cap T) = Kept(ms, Persisted)
  <2>1. \A x \in A : x \in Persisted \cap T <=> x \in Persisted
    BY <1>2
  <2> QED
    BY <1>1, <2>1, KeptAgree
<1> QED
  BY <1>3, <1>4, <1>5, <1>6, Zenon DEF T

LEMMA PromptIsTold ==
  ASSUME SessionTypes, NEW t \in Tasks
  PROVE  Prompt(t) \in ToldSet <=> new[t] # <<>>
<1>1. Prompt(t) \in Message /\ Prompt(t).by = t /\ Prompt(t).kind = "user"
  BY MessagesOfTasks DEF Prompt, Msg
<1> QED
  BY <1>1 DEF ToldSet, IsMessage, MessageKinds

\* What a task adds is told but for what is heard from the queues: the prompt, then what is
\* persisted.
LEMMA NewIsTold ==
  ASSUME SessionTypes, NEW t \in Tasks, NewIsAdded(t)
  PROVE  /\ Kept(ToPersist(new[t]), ToldSet) = ToPersist(new[t])
         /\ Kept(new[t], ToldSet) =
              IF kind[t] = "prompt" /\ new[t] # <<>> THEN <<Prompt(t)>> \o ToPersist(new[t])
              ELSE ToPersist(new[t])
<1> DEFINE ms == new[t]
           P  == Prompt(t)
           T  == ToldSet
<1>1. ms \in Seq(Message) /\ Len(ms) \in Nat /\ P \in Message
  BY MessagesOfTasks DEF SessionTypes
<1>2. CASE kind[t] = "prompt" /\ ms # <<>>
  <2> DEFINE rest == SubSeq(ms, 2, Len(ms))
             one  == <<P>>
  <2>1. Len(ms) > 0 /\ ms[1] = P /\ \A i \in 2..Len(ms) : ms[i] \in Added(t)
    BY <1>1, <1>2 DEF NewIsAdded
  <2>2. /\ rest \in Seq(Message) /\ Len(rest) = Len(ms) - 1 /\ one \in Seq(Message)
        /\ \A i \in 1..Len(rest) : rest[i] = ms[i + 1] /\ i + 1 \in 2..Len(ms)
        /\ Len(one) = 1 /\ one[1] = P /\ one \in Seq({P})
    BY <1>1, <2>1
  <2> HIDE DEF ms, rest, one
  <2>3. ms = one \o rest
    <3> DEFINE v == one \o rest
    <3>1. v \in Seq(Message) /\ Len(v) = Len(ms) /\ v[1] = P
          /\ \A i \in 2..Len(ms) : v[i] = rest[i - 1]
      <4>1. /\ v \in Seq(Message) /\ Len(v) = 1 + Len(rest)
            /\ \A i \in 1..1 : v[i] = one[i]
            /\ \A i \in 1..Len(v) : i > 1 => v[i] = rest[i - 1]
        <5>1. /\ v \in Seq(Message) /\ Len(v) = Len(one) + Len(rest)
              /\ \A i \in 1..Len(one) : v[i] = one[i]
              /\ \A i \in 1..Len(v) : i > Len(one) => v[i] = rest[i - Len(one)]
          <6>1. one \in Seq(Message) /\ rest \in Seq(Message)
            BY <2>2
          <6> QED
            BY <6>1, ConcatParts
        <5> HIDE DEF v
        <5> QED
          BY <2>2, <5>1
      <4> HIDE DEF v
      <4> QED
        BY <1>1, <2>1, <2>2, <4>1
    <3> HIDE DEF v
    <3>2. ASSUME NEW i \in 1..Len(ms) PROVE v[i] = ms[i]
      <4>1. CASE i = 1
        BY <2>1, <3>1, <4>1
      <4>2. CASE i # 1
        <5>1. i \in 2..Len(ms) /\ i - 1 \in 1..Len(rest) /\ (i - 1) + 1 = i
          BY <1>1, <2>2, <4>2
        <5> QED
          BY <2>2, <3>1, <5>1
      <4> QED
        BY <4>1, <4>2
    <3>3. v = ms
      BY <1>1, <3>1, <3>2
    <3> QED
      BY <3>3 DEF v
  <2>4. \A i \in 1..Len(rest) : rest[i] \in Added(t)
    BY <2>1, <2>2
  <2>5. Kept(rest, T) = ToPersist(rest) /\ Kept(ToPersist(rest), T) = ToPersist(rest)
    BY <2>2, <2>4, AddedIsTold
  <2>6. P \in T
    BY <1>2, PromptIsTold DEF ms
  <2> HIDE DEF T
  <2>7. Kept(one, T) = one
    BY <2>2, <2>6, KeptAll
  <2>8. Kept(one, Persisted) = <<>>
    <3>1. {P} \cap Persisted = {}
      BY DEF Persisted, ShouldPersist, Prompt, Msg
    <3> HIDE DEF P
    <3> QED
      BY <2>2, <3>1, KeptNone
  <2>9. Kept(one \o rest, T) = Kept(one, T) \o Kept(rest, T)
    BY <2>2, KeptConcat
  <2>10. Kept(one \o rest, Persisted) = Kept(one, Persisted) \o Kept(rest, Persisted)
    BY <2>2, KeptConcat
  <2>11. Kept(rest, Persisted) \in Seq(Message)
    BY <2>2, KeptType
  <2>12. <<>> \o Kept(rest, Persisted) = Kept(rest, Persisted)
    BY <2>11
  <2>13. ToPersist(ms) = Kept(ms, Persisted) /\ ToPersist(rest) = Kept(rest, Persisted)
    BY <1>1, <2>2, ToPersistIs
  <2>14. ToPersist(ms) = ToPersist(rest)
    BY <2>3, <2>8, <2>10, <2>12, <2>13, Zenon
  <2>15. Kept(ms, T) = one \o ToPersist(ms)
    BY <2>3, <2>5, <2>7, <2>9, <2>14, Zenon
  <2>16. Kept(ToPersist(ms), T) = ToPersist(ms)
    BY <2>5, <2>14, Zenon
  <2> QED
    BY <1>2, <2>15, <2>16 DEF ms, T, one
<1>3. CASE ~(kind[t] = "prompt" /\ ms # <<>>)
  <2>1. \A i \in 1..Len(ms) : ms[i] \in Added(t)
    BY <1>1, <1>3 DEF NewIsAdded
  <2>2. Kept(ms, T) = ToPersist(ms) /\ Kept(ToPersist(ms), T) = ToPersist(ms)
    BY <1>1, <2>1, AddedIsTold
  <2> QED
    BY <1>3, <2>2
<1> QED
  BY <1>2, <1>3

\* Persisting a run adds the same to both.
LEMMA PersistTells ==
  ASSUME SessionTypes, HistoryIsTight, RunsAreWritten, NEW t \in Tasks, pc[t] = "drained",
         Prompting(t) => AllButPrompt(t), ~Prompting(t) => SameTold,
         memory' = memory \o new[t], entries' = entries \o ToPersist(new[t]), new' = new
  PROVE  SameTold'
<1> DEFINE T == ToldSet
           C == ContextMessages(entries)
           P == Prompt(t)
           x == ToPersist(new[t])
           R == Kept(new[t], T)
           K == Kept(memory, T)
<1>1. /\ C \in Seq(Message) /\ memory \in Seq(Message) /\ P \in Message /\ x \in Seq(Message)
      /\ new[t] \in Seq(Message) /\ entries \in Seq(Entry)
  BY ContextMessagesType, ToPersistType, MessagesOfTasks DEF SessionTypes
<1>2. NewIsAdded(t)
  BY DEF RunsAreWritten, RunIsWritten
<1>3. /\ Kept(x, T) = x
      /\ R = IF kind[t] = "prompt" /\ new[t] # <<>> THEN <<P>> \o x ELSE x
  BY <1>2, NewIsTold
<1>4. Kept(ContextMessages(entries \o x), T) = Kept(C, T) \o Kept(x, T)
  BY <1>1, ToldGrows, ToldSetMessages DEF HistoryIsTight
<1>5. Kept(memory \o new[t], T) = K \o R
  <2> HIDE DEF T
  <2>1. \A v, w \in Seq(Message) : Kept(v \o w, T) = Kept(v, T) \o Kept(w, T)
    BY KeptConcat
  <2> QED
    BY <1>1, <2>1
<1>6. ToldSet' = T
  BY DEF ToldSet
<1>7. K \in Seq(Message)
  BY <1>1, KeptType
<1>8. Kept(C, T) \o x = K \o R
  <2>1. CASE kind[t] = "prompt" /\ new[t] # <<>>
    <3>1. Kept(C, T \cup {P}) = Append(K, P)
      BY <2>1 DEF Prompting, AllButPrompt
    <3>2. T \cup {P} = T
      BY <2>1, PromptIsTold
    <3> HIDE DEF K, R, C, P, T, x
    <3>3. Kept(C, T) = Append(K, P)
      BY <3>1, <3>2, Zenon
    <3>4. Append(K, P) \o x = K \o (<<P>> \o x)
      BY <1>1, <1>7, SMTT(30)
    <3> QED
      BY <1>3, <2>1, <3>3, <3>4, Zenon
  <2>2. CASE ~(kind[t] = "prompt" /\ new[t] # <<>>)
    <3>1. SameTold
      <4>1. CASE Prompting(t)
        <5>1. Prompt(t) \notin ToldSet
          BY <2>2, <4>1, PromptIsTold DEF Prompting
        <5> QED
          BY <4>1, <5>1, PromptForgotten
      <4> QED
        BY <4>1
    <3>2. Kept(C, T) = K
      BY <3>1 DEF SameTold
    <3> HIDE DEF K, R, C, P, T, x
    <3> QED
      BY <1>3, <2>2, <3>2, Zenon
  <2> QED
    BY <2>1, <2>2
<1>9. Kept(ContextMessages(entries \o x), T) = Kept(memory \o new[t], T)
  <2> HIDE DEF K, R, C, T, x
  <2> QED
    BY <1>3, <1>4, <1>5, <1>8, Zenon
<1> QED
  BY <1>6, <1>9, Zenon DEF SameTold

LEMMA MemoryStep ==
  ASSUME SessionTypes, SessionTypes', SlotIsOnes, SlotIsOnes', HistoryIsTight,
         RunsAreWritten, RunsAreWritten', MemoryFollows, [Next]_vars
  PROVE  MemoryFollows'
<1> USE DEF GoTo, slot, task, compaction, history
<1>1. ASSUME NEW t \in Tasks, Claim(t) PROVE MemoryFollows'
  <2>1. /\ pc[t] = "ready" /\ UNCHANGED <<memory, entries, new, stage, snapshot>>
        /\ \A u \in Tasks : u # t => pc'[u] = pc[u] /\ kind'[u] = kind[u]
        /\ pc'[t] \in {"refused", "claimed"}
        /\ \/ overlapped' = overlapped /\ isRunning' = isRunning
           \/ overlapped' = (overlapped \/ Compacting(Caller))
    BY <1>1 DEF Claim, SessionTypes
  <2>2. Undisturbed' => Undisturbed
    BY <2>1 DEF Undisturbed, SessionTypes
  <2>3. Undisturbed' /\ CallerAlone => CallerAlone'
    BY <2>1 DEF Undisturbed, CallerAlone, Compacting
  <2>4. \A u \in Tasks : Prompting(u)' <=> Prompting(u)
    BY <2>1 DEF Prompting
  <2>5. \A u \in Tasks : pc[u] \in Reported => pc'[u] \in Reported
    BY <2>1 DEF Reported
  <2> QED
    BY <2>1, <2>2, <2>3, <2>4, <2>5, MemoryLeft
<1>2. ASSUME NEW t \in Tasks, InstallToken(t) \/ AppendPromptFails(t) \/ BuildContext(t)
                              \/ LoopEnds(t) \/ EndWithoutCompaction(t)
      PROVE  MemoryFollows'
  <2>1. /\ UNCHANGED <<memory, entries, new, stage, snapshot, kind, overlapped>>
        /\ \A u \in Tasks : u # t => pc'[u] = pc[u]
        /\ pc[t] # "partly" /\ pc'[t] # "partly"
        /\ (pc[t] \in Reported => pc'[t] \in Reported)
        /\ (Prompting(t)' <=> Prompting(t))
        /\ isRunning' = isRunning \/ isRunning' = FALSE
    <3>1. CASE InstallToken(t)
      BY <3>1 DEF InstallToken, SessionTypes, Prompting, Reported
    <3>2. CASE AppendPromptFails(t)
      BY <3>2 DEF AppendPromptFails, SessionTypes, Prompting, Reported
    <3>3. CASE BuildContext(t)
      BY <3>3 DEF BuildContext, SessionTypes, Prompting, Reported
    <3>4. CASE LoopEnds(t)
      BY <3>4 DEF LoopEnds, SessionTypes, Prompting, Reported
    <3>5. CASE EndWithoutCompaction(t)
      BY <3>5 DEF EndWithoutCompaction, Release, SessionTypes, Prompting, Reported
    <3> QED
      BY <1>2, <3>1, <3>2, <3>3, <3>4, <3>5
  <2>2. Undisturbed' => Undisturbed
    BY <2>1 DEF Undisturbed
  <2>3. CallerAlone => CallerAlone'
    BY <2>1 DEF CallerAlone, Compacting
  <2>4. \A u \in Tasks : Prompting(u)' <=> Prompting(u)
    BY <2>1 DEF Prompting
  <2> QED
    BY <2>1, <2>2, <2>3, <2>4, MemoryLeft
<1>3. ASSUME NEW t \in Tasks, AppendPrompt(t) PROVE MemoryFollows'
  <2> DEFINE P == Prompt(t)
             T == ToldSet
             C == ContextMessages(entries)
  <2>1. /\ pc[t] = "armed" /\ UNCHANGED <<memory, new, stage, kind, overlapped>>
        /\ entries' = Append(entries, P)
        /\ pc'[t] = "building" /\ \A u \in Tasks : u # t => pc'[u] = pc[u]
    BY <1>3 DEF AppendPrompt, SessionTypes
  <2>2. Holds(t) /\ ~Prompting(t) /\ Prompting(t)'
    BY <2>1 DEF Holds, Working, Prompting, RunsAreWritten, RunIsWritten
  <2>3. Undisturbed' => Undisturbed
    BY <2>1 DEF Undisturbed
  <2>4. ASSUME Undisturbed
        PROVE  MemoryIsReported' /\ AllButPrompt(t)'
    <3>1. MemoryIsReported /\ SameTold
      BY <2>1, <2>2, <2>4, TellsNow
    <3>2. MemoryIsReported'
      BY <2>1, <3>1 DEF MemoryIsReported, Reported
    <3>3. /\ P \in Message /\ <<P>> \in Seq(Message) /\ entries \in Seq(Entry)
          /\ entries' = entries \o <<P>> /\ C \in Seq(Message) /\ <<P>> \in Seq({P})
      <4>1. P \in Message /\ Message \subseteq Entry
        BY MessagesOfTasks
      <4>2. entries \in Seq(Entry)
        BY DEF SessionTypes
      <4>3. C \in Seq(Message)
        BY <4>2, ContextMessagesType
      <4> HIDE DEF P, C
      <4>4. <<P>> \in Seq(Message) /\ <<P>> \in Seq({P})
        BY <4>1
      <4>5. entries' = entries \o <<P>>
        BY <2>1, <4>1, <4>2
      <4> QED
        BY <4>1, <4>2, <4>3, <4>4, <4>5
    <3>4. T \cup {P} \subseteq AllMessages
      BY ToldSetMessages
    <3>5. Kept(ContextMessages(entries \o <<P>>), T \cup {P})
            = Kept(C, T \cup {P}) \o Kept(<<P>>, T \cup {P})
      BY <3>3, <3>4, ToldGrows DEF HistoryIsTight
    <3>6. C \in Seq(HeardBut(t, {}))
      <4>1. \A j \in 1..Len(OnFile(t)) : OnFile(t)[j] \in {}
        BY <2>1 DEF RunsAreWritten, RunIsWritten
      <4> QED
        BY <4>1, FileOverOnFile
    <3>7. P \notin HeardBut(t, {})
      BY DEF HeardBut, Prompt, Msg, IsMessage, MessageKinds
    <3>8. Kept(C, T) = Kept(memory, T) /\ T' = T
      BY <2>1, <3>1 DEF SameTold, ToldSet
    <3> HIDE DEF P, T, C
    <3>9. Kept(<<P>>, T \cup {P}) = <<P>>
      BY <3>3, KeptAll
    <3>10. Kept(C, T \cup {P}) = Kept(C, T)
      <4>1. \A x \in HeardBut(t, {}) : x \in T \cup {P} <=> x \in T
        BY <3>7
      <4> QED
        BY <3>6, <4>1, KeptAgree
    <3>11. Kept(C, T) \in Seq(Message)
      BY <3>3, KeptType
    <3>12. Kept(C, T) \o <<P>> = Append(Kept(C, T), P)
      BY <3>3, <3>11
    <3>13. Kept(ContextMessages(entries \o <<P>>), T \cup {P}) = Append(Kept(memory, T), P)
      BY <3>5, <3>8, <3>9, <3>10, <3>12, Zenon
    <3>14. AllButPrompt(t)'
      BY <2>1, <3>3, <3>8, <3>13 DEF AllButPrompt, P, T
    <3> QED
      BY <3>2, <3>14
  <2> QED
    BY <2>1, <2>2, <2>3, <2>4, TaskFollows
<1>4. ASSUME NEW t \in Tasks, ConfigFails(t) PROVE MemoryFollows'
  <2>1. /\ pc[t] = "configuring" /\ UNCHANGED <<memory, entries, new, stage, kind, overlapped>>
        /\ pc'[t] = "failed" /\ \A u \in Tasks : u # t => pc'[u] = pc[u]
    BY <1>4 DEF ConfigFails, SessionTypes
  <2>2. Holds(t) /\ ~Prompting(t)' /\ new[t] = <<>>
    BY <2>1 DEF Holds, Working, Prompting, RunsAreWritten, RunIsWritten
  <2>3. Undisturbed' => Undisturbed
    BY <2>1 DEF Undisturbed
  <2>4. ASSUME Undisturbed
        PROVE  MemoryIsReported' /\ SameTold'
    <3>1. /\ MemoryIsReported
          /\ Prompting(t) => AllButPrompt(t)
          /\ ~Prompting(t) => SameTold
      BY <2>1, <2>2, <2>4, TellsNow
    <3>2. MemoryIsReported'
      BY <2>1, <3>1 DEF MemoryIsReported, Reported
    <3>3. SameTold
      BY <2>2, <3>1, PromptIsTold, PromptForgotten
    <3> QED
      BY <2>1, <3>2, <3>3 DEF SameTold, ToldSet
  <2> QED
    BY <2>1, <2>2, <2>3, <2>4, TaskFollows
<1>5. ASSUME NEW t \in Tasks, StartLoop(t) \/ LoopRuns(t) \/ LoopDies(t) PROVE MemoryFollows'
  <2>1. /\ pc[t] \in {"configuring", "looping"} /\ pc'[t] \in {"looping", "drained"}
        /\ UNCHANGED <<memory, entries, stage, kind, overlapped>>
        /\ \A u \in Tasks : u # t => pc'[u] = pc[u] /\ new'[u] = new[u]
    <3>1. CASE StartLoop(t)
      BY <3>1 DEF StartLoop, SessionTypes
    <3>2. CASE LoopRuns(t)
      BY <3>2 DEF LoopRuns, LoopAnswers, LoopUsesTool, LoopHears, CanSpeak, CanGoOn, LoopAdds,
                  SessionTypes
    <3>3. CASE LoopDies(t)
      BY <3>3 DEF LoopDies, SessionTypes
    <3> QED
      BY <1>5, <3>1, <3>2, <3>3
  <2>2. /\ Holds(t) /\ (Prompting(t) <=> kind[t] = "prompt")
        /\ (Prompting(t)' <=> kind[t] = "prompt")
    BY <2>1 DEF Holds, Working, Prompting
  <2>3. Undisturbed' => Undisturbed
    BY <2>1 DEF Undisturbed
  <2>4. ASSUME Undisturbed
        PROVE  /\ MemoryIsReported' /\ IF kind[t] = "prompt" THEN AllButPrompt(t)' ELSE SameTold'
    <3>1. /\ MemoryIsReported
          /\ IF kind[t] = "prompt" THEN AllButPrompt(t) ELSE SameTold
      BY <2>1, <2>2, <2>4, TellsNow
    <3>2. MemoryIsReported'
      BY <2>1, <3>1 DEF MemoryIsReported, Reported
    <3>3. IF kind[t] = "prompt" THEN AllButPrompt(t)' ELSE SameTold'
      BY <2>1, <3>1, LoopTells
    <3> QED
      BY <3>2, <3>3
  <2> QED
    BY <2>1, <2>2, <2>3, <2>4, TaskFollows
<1>6. ASSUME NEW t \in Tasks, Persist(t) PROVE MemoryFollows'
  <2>1. /\ pc[t] = "drained" /\ UNCHANGED <<new, stage, kind, overlapped>>
        /\ memory' = memory \o new[t] /\ entries' = entries \o ToPersist(new[t])
        /\ pc'[t] = "persisted" /\ \A u \in Tasks : u # t => pc'[u] = pc[u]
    BY <1>6 DEF Persist, SessionTypes
  <2>2. Holds(t) /\ ~Prompting(t)'
    BY <2>1 DEF Holds, Working, Prompting
  <2>3. Undisturbed' => Undisturbed
    BY <2>1 DEF Undisturbed
  <2>4. ASSUME Undisturbed
        PROVE  MemoryIsReported' /\ SameTold'
    <3>1. /\ MemoryIsReported
          /\ Prompting(t) => AllButPrompt(t)
          /\ ~Prompting(t) => SameTold
      BY <2>1, <2>2, <2>4, TellsNow
    <3>2. ASSUME NEW i \in 1..Len(memory'), NEW u \in Tasks, IsMessage(memory'[i]), memory'[i].by = u
          PROVE  pc'[u] \in Reported
      <4>1. memory \in Seq(Message) /\ new[t] \in Seq(Message) /\ NewIsAdded(t)
        BY DEF SessionTypes, RunsAreWritten, RunIsWritten
      <4>2. \/ i \in 1..Len(memory) /\ memory'[i] = memory[i]
            \/ i - Len(memory) \in 1..Len(new[t]) /\ memory'[i] = new[t][i - Len(memory)]
        BY <2>1, <4>1
      <4>3. CASE i \in 1..Len(memory) /\ memory'[i] = memory[i]
        BY <2>1, <3>1, <3>2, <4>3 DEF MemoryIsReported, Reported
      <4>4. CASE i - Len(memory) \in 1..Len(new[t]) /\ memory'[i] = new[t][i - Len(memory)]
        <5>1. memory'[i] = Prompt(t) \/ memory'[i] \in Added(t)
          BY <4>1, <4>4 DEF NewIsAdded
        <5>2. memory'[i].by \in {t} \cup Queues
          BY <5>1 DEF Prompt, Msg, Added
        <5>3. u = t
          BY <3>2, <5>2, SessionAssumption
        <5> QED
          BY <2>1, <5>3 DEF Reported
      <4> QED
        BY <4>2, <4>3, <4>4
    <3>3. MemoryIsReported'
      BY <3>2 DEF MemoryIsReported
    <3>4. SameTold'
      BY <2>1, <3>1, PersistTells
    <3> QED
      BY <3>3, <3>4
  <2> QED
    BY <2>1, <2>2, <2>3, <2>4, TaskFollows
<1>7. ASSUME NEW t \in Tasks, PersistFails(t) PROVE MemoryFollows'
  <2>1. pc'[t] = "partly"
    BY <1>7 DEF PersistFails, SessionTypes
  <2>2. ~Undisturbed'
    BY <2>1 DEF Undisturbed
  <2> QED
    BY <2>2 DEF MemoryFollows
<1>8. ASSUME NEW t \in Tasks, AutoCompact(t) PROVE MemoryFollows'
  <2>1. /\ pc[t] = "persisted" /\ UNCHANGED <<memory, entries, new, snapshot, kind, overlapped, isRunning>>
        /\ pc'[t] = "compacting" /\ \A u \in Tasks : u # t => pc'[u] = pc[u]
        /\ \A c \in Compactors : stage'[c] = IF c = t THEN "started" ELSE stage[c]
    BY <1>8 DEF AutoCompact, SessionTypes
  <2>2. Undisturbed' => Undisturbed
    BY <2>1 DEF Undisturbed
  <2>3. CallerAlone => CallerAlone'
    BY <2>1, SessionAssumption DEF CallerAlone, Compacting, Compactors
  <2>4. stage[t] = "off"
    BY <2>1 DEF SlotIsOnes
  <2>5. \A u \in Tasks : Prompting(u)' <=> Prompting(u)
    BY <2>1 DEF Prompting
  <2>6. \A u \in Tasks : pc[u] \in Reported => pc'[u] \in Reported
    BY <2>1 DEF Reported
  <2> QED
    BY <2>1, <2>2, <2>3, <2>4, <2>5, <2>6, MemoryLeft
<1>9. ASSUME Compact PROVE MemoryFollows'
  <2>1. /\ UNCHANGED <<memory, entries, new, snapshot, kind, pc, isRunning>>
        /\ overlapped' = (overlapped \/ isRunning) /\ stage[Caller] = "off"
        /\ \A c \in Compactors : stage'[c] = IF c = Caller THEN "started" ELSE stage[c]
    BY <1>9 DEF Compact, Compacting, SessionTypes
  <2>2. Undisturbed' => Undisturbed
    BY <2>1 DEF Undisturbed, SessionTypes
  <2>3. Undisturbed' => CallerAlone'
    BY <2>1 DEF CallerAlone, Undisturbed
  <2>4. \A u \in Tasks : Prompting(u)' <=> Prompting(u)
    BY <2>1 DEF Prompting
  <2>5. \A u \in Tasks : pc[u] \in Reported => pc'[u] \in Reported
    BY <2>1
  <2> QED
    BY <2>1, <2>2, <2>3, <2>4, <2>5, MemoryLeft
<1>10. ASSUME NEW c \in Compactors, AbortRunning(c) \/ TakeSnapshot(c) PROVE MemoryFollows'
  <2>1. /\ UNCHANGED <<memory, entries, new, kind, pc, isRunning, overlapped>>
        /\ stage[c] \in {"started", "sleeping"}
        /\ \A d \in Compactors : d # c => stage'[d] = stage[d] /\ snapshot'[d] = snapshot[d]
        /\ stage'[c] \in {"sleeping", "summarising"}
        /\ stage'[c] = "summarising" => snapshot'[c].entries = entries
    <3>1. CASE AbortRunning(c)
      BY <3>1 DEF AbortRunning, SessionTypes
    <3>2. CASE TakeSnapshot(c)
      BY <3>2 DEF TakeSnapshot, MayPlan, SessionTypes
    <3> QED
      BY <1>10, <3>1, <3>2
  <2>2. Undisturbed' => Undisturbed
    BY <2>1 DEF Undisturbed
  <2>3. CallerAlone => CallerAlone'
    BY <2>1 DEF CallerAlone, Compacting, Compactors
  <2>4. \A u \in Tasks : Prompting(u)' <=> Prompting(u)
    BY <2>1 DEF Prompting
  <2>5. \A u \in Tasks : pc[u] \in Reported => pc'[u] \in Reported
    BY <2>1
  <2> QED
    BY <2>1, <2>2, <2>3, <2>4, <2>5, MemoryLeft
<1>11. ASSUME NEW c \in Compactors, AppendCompaction(c) PROVE MemoryFollows'
  <2>1. /\ stage[c] = "summarising" /\ UNCHANGED <<memory, new, snapshot, kind, pc, isRunning, overlapped>>
        /\ entries' = Append(entries, Compaction(snapshot[c].cut))
        /\ \A d \in Compactors : stage'[d] = IF d = c THEN "rebuilding" ELSE stage[d]
    BY <1>11 DEF AppendCompaction, SessionTypes
  <2> SUFFICES ASSUME Undisturbed' PROVE MemoryFollows'
    BY DEF MemoryFollows
  <2>2. Undisturbed
    BY <2>1 DEF Undisturbed
  <2>3. CallerAlone /\ MemoryIsReported /\ SnapshotsAreTheFile
    BY <2>2 DEF MemoryFollows
  <2>4. \A d \in Compactors : d # c => stage[d] = "off"
    BY <2>1, <2>3, OneCompactor
  <2>5. SnapshotsAreTheFile'
    BY <2>1, <2>3, <2>4 DEF SnapshotsAreTheFile
  <2>6. CallerAlone' /\ MemoryIsReported'
    BY <2>1, <2>3 DEF CallerAlone, MemoryIsReported, Compacting, Compactors
  <2>7. stage'[c] = "rebuilding"
    BY <2>1
  <2> QED
    BY <2>5, <2>6, <2>7 DEF MemoryFollows
<1>12. ASSUME NEW c \in Compactors, CompactionFails(c) PROVE MemoryFollows'
  <2>1. PICK how \in {"ended", "failed"} : Return(c, how)
    BY <1>12 DEF CompactionFails
  <2>2. /\ stage[c] \in {"started", "sleeping", "summarising"}
        /\ UNCHANGED <<memory, entries, new, kind, overlapped>>
        /\ \A d \in Compactors : stage'[d] = IF d = c THEN "off" ELSE stage[d]
        /\ \A d \in Compactors : d # c => snapshot'[d] = snapshot[d]
    BY <1>12 DEF CompactionFails, MayPlan, Return, SessionTypes
  <2>3. /\ isRunning' = isRunning \/ isRunning' = FALSE
        /\ \A u \in Tasks : pc'[u] = pc[u] \/ (pc[u] = "compacting" /\ pc'[u] \in {"ended", "failed"})
    <3>1. IF c = Caller THEN LeavesSlot ELSE c \in Tasks /\ GivesBack(c, how)
      BY <2>1, <2>2, ReturnSlot
    <3>2. CASE c = Caller
      BY <3>1, <3>2 DEF LeavesSlot
    <3>3. CASE c # Caller
      <4>1. pc[c] = "compacting"
        BY <2>2, <3>1, <3>3 DEF SlotIsOnes
      <4> QED
        BY <3>1, <3>3, <4>1 DEF GivesBack, SessionTypes
    <3> QED
      BY <3>2, <3>3
  <2>4. Undisturbed' => Undisturbed
    BY <2>2, <2>3 DEF Undisturbed
  <2>5. CallerAlone => CallerAlone'
    BY <2>2, <2>3 DEF CallerAlone, Compacting, Compactors
  <2>6. \A u \in Tasks : Prompting(u)' <=> Prompting(u)
    BY <2>2, <2>3 DEF Prompting
  <2>7. \A u \in Tasks : pc[u] \in Reported => pc'[u] \in Reported
    BY <2>3 DEF Reported
  <2> QED
    BY <2>2, <2>4, <2>5, <2>6, <2>7, MemoryLeft
<1>13. ASSUME NEW c \in Compactors, Rebuild(c) PROVE MemoryFollows'
  <2> DEFINE es  == snapshot[c].entries
             cut == snapshot[c].cut
             M   == Messages(From(es, cut))
  <2>1. /\ stage[c] = "rebuilding" /\ Return(c, "ended")
        /\ memory' = <<Summary>> \o M /\ UNCHANGED <<entries, new, kind, overlapped>>
        /\ \A d \in Compactors : stage'[d] = IF d = c THEN "off" ELSE stage[d]
    BY <1>13 DEF Rebuild, Return, SessionTypes
  <2> SUFFICES ASSUME Undisturbed' PROVE MemoryFollows'
    BY DEF MemoryFollows
  <2>2. IF c = Caller THEN LeavesSlot ELSE c \in Tasks /\ GivesBack(c, "ended")
    BY <2>1, ReturnSlot
  <2>3. \A u \in Tasks : pc'[u] = pc[u] \/ (pc[u] = "compacting" /\ pc'[u] = "ended")
    <3>1. CASE c = Caller
      BY <2>2, <3>1 DEF LeavesSlot
    <3>2. CASE c # Caller
      <4>1. pc[c] = "compacting"
        BY <2>1, <2>2, <3>2 DEF SlotIsOnes
      <4> QED
        BY <2>2, <3>2, <4>1 DEF GivesBack, SessionTypes
    <3> QED
      BY <3>1, <3>2
  <2>4. Undisturbed
    BY <2>1, <2>3 DEF Undisturbed
  <2>5. CallerAlone /\ entries = Append(es, Compaction(cut))
    BY <2>1, <2>4 DEF MemoryFollows, SnapshotsAreTheFile
  <2>6. \A d \in Compactors : stage'[d] = "off"
    BY <2>1, <2>5, OneCompactor
  <2>7. \A u \in Tasks : ~Holds(u)'
    <3>1. CASE c = Caller
      <4>1. \A u \in Tasks : ~Holds(u)
        BY <2>1, <2>5, <3>1 DEF CallerAlone, Compacting, SlotIsOnes
      <4> QED
        BY <2>2, <3>1, <4>1 DEF LeavesSlot, Holds, Working
    <3>2. CASE c # Caller
      BY <2>2, <3>2, SlotGivenBack
    <3> QED
      BY <3>1, <3>2
  <2>8. ContextMessages(entries) = M
    <3>1. es \in Seq(Entry) /\ cut \in Nat \ {0} /\ SafeToCut(es, cut)
      BY <2>1 DEF HistoryIsTight, SessionTypes
    <3> HIDE DEF es, cut
    <3> QED
      BY <2>5, <3>1, ContextCompacted
  <2>9. SameTold'
    <3> DEFINE T == ToldSet
    <3>1. M \in Seq(Message) /\ <<Summary>> \in Seq(Message) /\ <<Summary>> \in Seq({Summary})
      BY <2>8, ContextMessagesType, MessagesOfTasks DEF SessionTypes
    <3>2. {Summary} \cap T = {}
      BY DEF ToldSet, Summary, Msg, IsMessage, MessageKinds
    <3>3. T' = T
      BY <2>1 DEF ToldSet
    <3> HIDE DEF M, T
    <3>4. \A v, w \in Seq(Message) : Kept(v \o w, T) = Kept(v, T) \o Kept(w, T)
      BY KeptConcat
    <3>5. Kept(<<Summary>> \o M, T) = Kept(<<Summary>>, T) \o Kept(M, T)
      BY <3>1, <3>4
    <3>6. Kept(<<Summary>>, T) = <<>>
      BY <3>1, <3>2, KeptNone
    <3>7. Kept(M, T) \in Seq(Message)
      BY <3>1, KeptType
    <3>8. <<>> \o Kept(M, T) = Kept(M, T)
      BY <3>7
    <3>9. Kept(memory', T) = Kept(M, T)
      BY <2>1, <3>5, <3>6, <3>8, Zenon
    <3>10. Kept(ContextMessages(entries'), ToldSet') = Kept(memory', ToldSet')
      BY <2>1, <2>8, <3>3, <3>9 DEF T
    <3> QED
      BY <3>10 DEF SameTold
  <2>10. MemoryIsReported'
    <3> SUFFICES ASSUME NEW i \in 1..Len(memory'), NEW u \in Tasks,
                        IsMessage(memory'[i]), memory'[i].by = u
                 PROVE  pc'[u] \in Reported
      BY DEF MemoryIsReported
    <3>1. /\ M \in Seq(Message) /\ <<Summary>> \in Seq(Message)
          /\ Len(<<Summary>>) = 1 /\ <<Summary>>[1] = Summary
      BY <2>8, ContextMessagesType, MessagesOfTasks DEF SessionTypes
    <3>2. OnFile(u)' # <<>>
      <4>1. ASSUME OnFile(u) = <<>> PROVE FALSE
        <5>1. \A j \in 1..Len(OnFile(u)) : OnFile(u)[j] \in {}
          BY <4>1
        <5>2. M \in Seq(HeardBut(u, {}))
          BY <2>8, <5>1, FileOverOnFile
        <5>3. ~IsMessage(Summary)
          BY DEF Summary, Msg, IsMessage, MessageKinds
        <5> HIDE DEF M
        <5>4. (i = 1 /\ memory'[i] = Summary) \/ (i - 1 \in 1..Len(M) /\ memory'[i] = M[i - 1])
          BY <2>1, <3>1
        <5>5. i - 1 \in 1..Len(M) /\ memory'[i] = M[i - 1]
          BY <5>3, <5>4
        <5> QED
          BY <5>2, <5>5 DEF HeardBut
      <4>2. OnFile(u)' = OnFile(u)
        BY <2>1 DEF OnFile
      <4> QED
        BY <4>1, <4>2
    <3>3. RunIsWritten(u)' /\ ~Holds(u)'
      BY <2>7 DEF RunsAreWritten
    <3>4. pc'[u] \notin {"ready", "refused"}
      BY <3>2, <3>3 DEF RunIsWritten
    <3>5. pc'[u] \in Stages /\ pc'[u] # "partly"
      BY DEF SessionTypes, Undisturbed
    <3> QED
      BY <3>3, <3>4, <3>5, HoldsByStage DEF Stages, Held, Reported
  <2>11. TellTheSame'
    BY <2>7, <2>9, PromptingHolds DEF TellTheSame
  <2>12. CallerAlone' /\ SnapshotsAreTheFile'
    BY <2>6 DEF CallerAlone, Compacting, Compactors, SnapshotsAreTheFile
  <2> QED
    BY <2>10, <2>11, <2>12 DEF MemoryFollows
<1>14. ASSUME (\E q \in Queues : Queue(q)) \/ Abort \/ UNCHANGED vars PROVE MemoryFollows'
  <2>1. UNCHANGED <<memory, entries, new, kind, pc, isRunning, overlapped, stage, snapshot>>
    BY <1>14 DEF Queue, Abort, vars
  <2>2. Undisturbed' => Undisturbed
    BY <2>1 DEF Undisturbed
  <2>3. CallerAlone => CallerAlone'
    BY <2>1 DEF CallerAlone, Compacting
  <2>4. \A u \in Tasks : Prompting(u)' <=> Prompting(u)
    BY <2>1 DEF Prompting
  <2>5. \A u \in Tasks : pc[u] \in Reported => pc'[u] \in Reported
    BY <2>1
  <2> QED
    BY <2>1, <2>2, <2>3, <2>4, <2>5, MemoryLeft
<1>15. ASSUME Restart PROVE MemoryFollows'
  <2>1. /\ memory' = ContextMessages(entries') /\ isRunning' = FALSE
        /\ \A c \in Compactors : stage'[c] = "off"
        /\ \A u \in Tasks : pc'[u] = IF pc[u] = "ready" THEN "ready" ELSE "gone"
    BY <1>15 DEF Restart
  <2>2. \A u \in Tasks : ~Prompting(u)'
    BY <2>1 DEF Prompting
  <2>3. SameTold'
    BY <2>1 DEF SameTold
  <2>4. TellTheSame'
    BY <2>2, <2>3 DEF TellTheSame
  <2>5. CallerAlone' /\ SnapshotsAreTheFile'
    BY <2>1 DEF CallerAlone, SnapshotsAreTheFile
  <2>6. MemoryIsReported'
    <3> SUFFICES ASSUME NEW i \in 1..Len(memory'), NEW u \in Tasks,
                        IsMessage(memory'[i]), memory'[i].by = u, pc'[u] = "ready"
                 PROVE  FALSE
      BY <2>1 DEF MemoryIsReported, Reported
    <3>1. OnFile(u)' = <<>>
      BY DEF RunsAreWritten, RunIsWritten
    <3>2. \A j \in 1..Len(entries') : ~(entries'[j] \in OfTask(u))
      <4>1. entries' \in Seq(Entry)
        BY DEF SessionTypes
      <4>2. OnFile(u)' = Kept(entries', OfTask(u))
        BY <4>1, OnFileIs DEF OnFile
      <4>3. \A j \in 1..Len(entries') : entries'[j] \in OfTask(u) =>
              \E k \in 1..Len(Kept(entries', OfTask(u))) : Kept(entries', OfTask(u))[k] = entries'[j]
        BY <4>1, KeptMembers
      <4> QED
        BY <3>1, <4>2, <4>3
    <3> DEFINE Y == Entry \ OfTask(u)
    <3>3. entries' \in Seq(Y)
      <4>1. entries' \in Seq(Entry)
        BY DEF SessionTypes
      <4>2. ASSUME NEW j \in 1..Len(entries') PROVE entries'[j] \in Y
        <5>1. entries'[j] \in Entry
          BY <4>1
        <5> QED
          BY <3>2, <5>1
      <4> HIDE DEF Y
      <4> QED
        BY <4>2, <4>1, OverItsElements
    <3>4. memory' \in Seq(Y)
      <4>1. entries' \in Seq(Entry)
        BY DEF SessionTypes
      <4> HIDE DEF Y
      <4> QED
        BY <2>1, <3>3, <4>1, ContextOver
    <3>5. memory'[i] \in Entry /\ memory'[i] \notin OfTask(u)
      BY <3>4
    <3> QED
      BY <3>5 DEF OfTask, IsMessage, MessageKinds
  <2> QED
    BY <2>4, <2>5, <2>6 DEF MemoryFollows
<1> QED
  BY <1>1, <1>2, <1>3, <1>4, <1>5, <1>6, <1>7, <1>8, <1>9, <1>10, <1>11, <1>12, <1>13, <1>14,
     <1>15 DEF Next, TaskStep, CompactionStep

LEMMA MemoryInit == Init => MemoryFollows
<1> SUFFICES ASSUME Init PROVE MemoryFollows
  OBVIOUS
<1>1. /\ memory = <<>> /\ entries = <<>> /\ isRunning = FALSE
      /\ \A t \in Tasks : pc[t] = "ready"
      /\ \A c \in Compactors : stage[c] = "off"
  BY DEF Init
<1>2. CallerAlone /\ MemoryIsReported /\ SnapshotsAreTheFile
  BY <1>1 DEF CallerAlone, MemoryIsReported, SnapshotsAreTheFile
<1>3. ContextMessages(entries) = <<>>
  <2>1. From(<<>>, 1) = <<>> /\ Compactions(<<>>) = {}
    BY DEF From, Compactions
  <2>2. Messages(<<>>) = <<>>
    BY KeptEmpty DEF Messages
  <2> QED
    BY <1>1, <2>1, <2>2 DEF ContextMessages, ContextStart
<1>4. SameTold
  BY <1>1, <1>3 DEF SameTold
<1>5. \A t \in Tasks : ~Prompting(t)
  BY <1>1 DEF Prompting
<1> QED
  BY <1>2, <1>4, <1>5 DEF MemoryFollows, TellTheSame

\* What is told of a history is picked by one set, whatever the history.
LEMMA ToldIs ==
  ASSUME NEW ms \in Seq(Heard)
  PROVE  ToldOf(ms) = Kept(ms, ToldSet)
<1> DEFINE S == {m \in Range(ms) : Told(m)}
           X == Range(ms) \cap Heard
<1>1. ms \in Seq(X)
  <2>1. \A i \in 1..Len(ms) : ms[i] \in X
    BY OverItsRange
  <2> HIDE DEF X
  <2> QED
    BY <2>1, OverItsElements
<1>2. ASSUME NEW x \in X PROVE x \in S <=> x \in ToldSet
  <2>1. x \in Entry /\ (IsMessage(x) => x.by \in Tasks \cup Queues)
    BY DEF Heard
  <2>2. IsMessage(x) => x \in Message
    BY <2>1 DEF Entry, IsMessage, MessageKinds
  <2>3. Tasks \cap Queues = {}
    BY SessionAssumption
  <2>4. x \in S <=> Told(x)
    OBVIOUS
  <2> QED
    BY <2>1, <2>2, <2>3, <2>4 DEF Told, ToldSet
<1> HIDE DEF S, X
<1>3. Kept(ms, S) = Kept(ms, ToldSet)
  BY <1>1, <1>2, KeptAgree
<1> QED
  BY <1>3 DEF ToldOf, S

LEMMA SessionIInvHolds == Spec => []SessionIInv
<1>1. Init => SessionIInv
  BY SlotInit, HistoryInit, MemoryInit DEF SessionIInv
<1>2. SessionIInv /\ [Next]_vars => SessionIInv'
  <2> SUFFICES ASSUME SessionIInv, [Next]_vars PROVE SessionIInv'
    OBVIOUS
  <2>1. SessionTypes'
    BY TypesStep DEF SessionIInv
  <2>2. SlotIsOnes'
    BY SlotStep DEF SessionIInv
  <2>3. HistoryIsTight'
    BY TightStep DEF SessionIInv
  <2>4. RunsAreWritten'
    BY <2>1, RunsStep DEF SessionIInv
  <2>5. MemoryFollows'
    BY <2>1, <2>2, <2>4, MemoryStep DEF SessionIInv
  <2> QED
    BY <2>1, <2>2, <2>3, <2>4, <2>5 DEF SessionIInv
<1> QED
  BY <1>1, <1>2, PTL DEF Spec

(***************************************************************************)
(* What goes on in memory is what a restart would go on with: at rest, and *)
(* unless a compaction went along with a run or a persist failed, the      *)
(* agent remembers of the runs' messages just those the file gives it, in  *)
(* the file's order, through every abort, failed write and compaction      *)
(* (prompt_with_prefix_blocks, persist_new_messages, compact_inner, new).   *)
(***************************************************************************)
THEOREM MemoryFollowsTheFile == Spec => []MemoryIsTheBranch
<1>1. SessionIInv => MemoryIsTheBranch
  <2> SUFFICES ASSUME SessionIInv, Quiet, ~overlapped, \A t \in Tasks : pc[t] # "partly"
               PROVE  ToldOf(memory) = ToldOf(ContextMessages(entries))
    BY DEF MemoryIsTheBranch
  <2>1. Undisturbed
    BY DEF Undisturbed
  <2>2. \A t \in Tasks : ~Prompting(t)
    BY DEF Quiet, Working, Prompting
  <2>3. \A c \in Compactors : stage[c] # "rebuilding"
    BY DEF Quiet, Compacting
  <2>4. SameTold
    BY <2>1, <2>2, <2>3 DEF SessionIInv, MemoryFollows, TellTheSame
  <2>5. memory \in Seq(Heard) /\ ContextMessages(entries) \in Seq(Heard)
    BY HistoryIsHeard DEF SessionIInv, RunsAreWritten
  <2> QED
    BY <2>4, <2>5, ToldIs DEF SameTold
<1> QED
  BY <1>1, SessionIInvHolds, PTL
=============================================================================
