----------------------------- MODULE FilesProofs -----------------------------
(***************************************************************************)
(* What files written a step at a time promise.  The write and edit tools, *)
(* for every number of calls, every way to spell paths and every number of *)
(* failures and aborts: a file that is always spelled one way is whole,    *)
(* and changes only by a call that succeeds and takes what is there into   *)
(* account.  And the branch that compaction shortens, whatever its length  *)
(* and its weights: results keep their calls, and cuts go forward and keep *)
(* what they should.  And the file of a session under two managers, for    *)
(* any number of entries: what was confirmed stays, and whoever opens it   *)
(* goes on where the last writer was.                                      *)
(***************************************************************************)
EXTENDS FileTools, CompactionHistory, SessionLog, SelectionTheorems, FiniteSetTheorems

(***************************************************************************)
(* The inductive invariant.  Beyond the types: who holds a lock is at work *)
(* under it; a file is at one place; a call that has opened nothing has    *)
(* left no file of its number; and how far a call has come on a file that  *)
(* only the lock's holders touch.                                          *)
(***************************************************************************)
Stages == {"asked", "locked", "read", "open", "filled", "done", "failed", "gone"}
FileCall ==
  [tool : {"write", "edit"}, path : Spellings, at : Stages, aborted : BOOLEAN,
   read : Texts, file : Numbers \cup {None}]

FilesTypes ==
  /\ disk \in [Places -> Numbers \cup {None}]
  /\ text \in [Numbers -> Texts]
  /\ holder \in [Spellings -> FileCalls \cup {None}]
  /\ call \in [FileCalls -> FileCall]
  /\ mishaps \in 0..MaxMishaps

\* c is at work with the lock.
Working(c) == call[c].at \in {"locked", "read", "open", "filled"} /\ ~call[c].aborted

LocksAreHeld ==
  \A c \in FileCalls :
    /\ \A p \in Spellings : holder[p] = c <=> p = call[c].path /\ Working(c)
    /\ call[c].at = "asked" => ~call[c].aborted

OnePlace == \A p, q \in Places : disk[p] = disk[q] /\ disk[p] # None => p = q

NumbersAreFresh ==
  \A c \in FileCalls :
    /\ call[c].at = "open" => call[c].file # None
    /\ call[c].at \in {"asked", "locked", "read"} =>
         /\ call[c].file = None
         /\ \A p \in Places : disk[p] # c
         /\ \A d \in FileCalls : call[d].file # c

\* The file of c is whole.
Whole(c) == disk[File(c)] # None => Scrap \notin text[disk[File(c)]]

\* A call of another file has neither c's file nor its temporary file open.
NobodyElses(c) ==
  \A d \in FileCalls : call[d].at = "open" /\ call[d].path # call[c].path =>
    call[d].file # disk[File(c)] /\ call[d].file # disk[Temp(c)]

\* What c has read is what is there still, and what it has written is at the temporary place.
OnItsWay(c) ==
  /\ call[c].tool = "edit" /\ call[c].at \in {"read", "open", "filled"} =>
       disk[File(c)] # None /\ Held(File(c)) # None /\ call[c].read = Held(File(c))
  /\ call[c].at = "open" => disk[Temp(c)] = call[c].file /\ text[call[c].file] = {Scrap}
  /\ call[c].at = "filled" =>
       disk[Temp(c)] # None /\ text[disk[Temp(c)]] = NewText(c, call[c].read)

FilesGoOn(c) == Whole(c) /\ NobodyElses(c) /\ OnItsWay(c)

FilesIInv ==
  /\ FilesTypes
  /\ LocksAreHeld
  /\ OnePlace
  /\ NumbersAreFresh
  /\ \A c \in FileCalls : OnlySpelling(c) => FilesGoOn(c)
-----------------------------------------------------------------------------
(***************************************************************************)
(* The inductive invariant of a branch that is compacted.  Beyond the      *)
(* types: a result stands right behind its call or another result, and     *)
(* every compaction has cut in front of an entry that is in no exchange,   *)
(* with a tail behind it that is heavy enough, and still is.               *)
(***************************************************************************)
Results == {e \in Entry : e.kind = "result"}
Exchange == {e \in Entry : e.kind \in {"call", "result"}}
Tight(es) == Behind(es, Results, Exchange \X Entry)

CutWell(es, i) ==
  i \in 2..Len(es) /\ ~InExchange(es, i) /\ TailWeight(es, i) >= KeepTokens

CutsWerePlanned(es) ==
  \A i \in Compactions(es) : es[i].keep < i /\ CutWell(es, es[i].keep)

BranchIInv ==
  /\ TypeOK /\ Len(entries) <= MaxEntries
  /\ Tight(entries)
  /\ CutsWerePlanned(entries)
-----------------------------------------------------------------------------
(***************************************************************************)
(* The inductive invariant of a session file.  First what holds at any     *)
(* time: types, and who has opened and written the file, so that an agent  *)
(* that has written nothing has no file yet.                               *)
(***************************************************************************)
Made == [parent : Nat, kind : {"message", "info"}, name : {None, "given", "automatic"}]
AreMade(ms) ==
  /\ ms \in Seq(Made) /\ Len(ms) <= MaxMade
  /\ \A i \in 1..Len(ms) : ms[i].parent < i

Lines(ms) == Seq(-1..Len(ms))
Logs(ms) == [there : BOOLEAN, header : Folders \cup {None}, text : Lines(ms)]

AtEntry(m) == m.step = "entry"
AtLine(m) == m.step = "line"
Appending(m) == AtEntry(m) \/ AtLine(m)
IsManager(ms, m) ==
  /\ m \in [open : BOOLEAN, known : SUBSET (1..Len(ms)), leaf : 0..Len(ms),
            cwd : Folders \cup {None}, materialized : BOOLEAN,
            step : {"idle", "entry", "line", "rewrite", "refill"}, new : 0..Len(ms),
            copy : Lines(ms)]
  /\ m.leaf \in m.known \cup {0}
  /\ Busy(m) => m.open /\ m.materialized
  /\ Appending(m) => m.new # 0

LogTypes ==
  /\ AreMade(made) /\ log \in Logs(made)
  /\ IsManager(made, agent) /\ IsManager(made, helper)
  /\ Busy(helper) => Appending(helper)
  /\ errand \in {None, "rename", "report"} /\ title \in {"free", "asked", "done"}
  /\ deleted \in BOOLEAN /\ blind \in BOOLEAN /\ spoiled \in BOOLEAN

Rewriting == agent.step \in {"rewrite", "refill"}

FileIsTheirs ==
  /\ ~log.there => log = NoLog
  /\ ~log.there /\ ~deleted => made = <<>> /\ ~agent.materialized /\ ~helper.open
  /\ agent.open /\ ~agent.materialized => ~log.there /\ ~deleted
  /\ helper.open => helper.materialized
  /\ deleted /\ ~spoiled => ~log.there /\ ~Rewriting
  /\ agent.step = "refill" /\ ~spoiled => log.header = None

(***************************************************************************)
(* And what holds until a write is cut short, meets another or loses its   *)
(* file.  The text, or the copy of it while it is being written anew, has  *)
(* a line for each entry, the last without its end while an append is      *)
(* about to write that.                                                    *)
(***************************************************************************)
Sound == ~spoiled /\ ~deleted /\ (~Busy(agent) \/ ~Busy(helper))
Text == IF agent.step = "refill" THEN agent.copy ELSE log.text

Tidy(lines) ==
  \A i \in 1..Len(lines) : lines[i] > 0 => EndsLine(lines, i - 1) /\ EndsLine(lines, i + 1)
Ended(lines) == EndsLine(lines, Len(lines))
LastLine(lines, x) == lines # <<>> /\ lines[Len(lines)] = x

\* Branch and NameIn of any entries.
BranchOf(ms, known, leaf) ==
  LET up[i \in 0..Len(ms)] ==
        IF i \in known THEN Append(up[ms[i].parent], i) ELSE <<>>
  IN up[leaf]
Infos(ms, known) == {i \in known : ms[i].kind = "info"}
NameOf(ms, known) ==
  IF Infos(ms, known) = {} THEN None ELSE ms[Max(Infos(ms, known))].name

Rooted(ms, known) == \A i \in known : ms[i].parent \in known \cup {0}

(***************************************************************************)
(* What m knows is in the text, with its parents; what it appends is the   *)
(* latest entry, behind its leaf.                                          *)
(***************************************************************************)
KnowsItsWay(ms, lines, m) ==
  /\ m.open => m.known \subseteq Ids(lines) /\ Rooted(ms, m.known)
  /\ Appending(m) => m.new = Len(ms) /\ ms[m.new].parent = m.leaf
  /\ AtEntry(m) => m.new \notin Ids(lines)
  /\ AtLine(m) => LastLine(lines, m.new)

\* For two managers m and o: the lines hold the entries in sure, and end with
\* the branch last when nobody is about to end a line.
Recorded(ms, lines, sure, last, m, o) ==
  /\ Tidy(lines)
  /\ Rooted(ms, Ids(lines)) /\ sure \subseteq Ids(lines)
  /\ ~AtLine(m) /\ ~AtLine(o) => Ended(lines) /\ BranchOf(ms, Ids(lines), Leaf(lines)) = last
  /\ KnowsItsWay(ms, lines, m) /\ KnowsItsWay(ms, lines, o)

(***************************************************************************)
(* The name the user gave is that of the confirmed entries, and those of   *)
(* them that are names the agent knows, unless one was given behind its    *)
(* back.                                                                   *)
(***************************************************************************)
InLine(m) == IF AtLine(m) THEN {m.new} ELSE {}
Confirmed(lines, m, o) == (Ids(lines) \ InLine(m)) \ InLine(o)

HelperSays(ms, purpose, h) ==
  Appending(h) => /\ ms[h.new].name # "automatic"
                  /\ ms[h.new].kind = "info" => purpose = "rename"

Named(ms, sure, name, a) ==
  /\ name # None => NameOf(ms, sure) = name
  /\ a.open => Infos(ms, sure) \subseteq a.known
  /\ Appending(a) /\ ms[a.new].name = "automatic" => name = None

Trusted ==
  /\ Recorded(made, Text, kept, lastBranch, agent, helper)
  /\ HelperSays(made, errand, helper)
  /\ ~blind => Named(made, Confirmed(Text, agent, helper), given, agent)

LogIInv ==
  /\ LogTypes /\ FileIsTheirs
  /\ Sound => Trusted
-----------------------------------------------------------------------------
LEMMA WhereCallsWrite ==
  ASSUME FilesTypes, NEW c \in FileCalls
  PROVE  File(c) \in Places /\ Temp(c) \in Places /\ call[c] \in FileCall
BY DEF FilesTypes, FileCall, File, Temp, Places, Targets

LEMMA FilesStart == FilesInit => FilesIInv
<1> SUFFICES ASSUME FilesInit PROVE FilesIInv
  OBVIOUS
<1> USE FileToolsAssumption
<1>1. /\ disk \in [Places -> Targets \cup {None}]
      /\ \A p \in Places : disk[p] = None \/ (p \in Targets /\ disk[p] = p)
  BY DEF FilesInit
<1>2. text = [n \in Numbers |-> IF n \in Targets THEN {n} ELSE {}]
  BY DEF FilesInit
<1>3. call \in [FileCalls -> [tool : {"write", "edit"}, path : Spellings, at : {"asked"},
                            aborted : {FALSE}, read : {{}}, file : {None}]]
  BY DEF FilesInit
<1>4. \A c \in FileCalls :
        call[c].at = "asked" /\ call[c].file = None /\ ~call[c].aborted
  BY <1>3
<1>5. FilesTypes
  <2>1. disk \in [Places -> Numbers \cup {None}]
    BY <1>1 DEF Numbers
  <2>2. text \in [Numbers -> Texts]
    BY <1>2 DEF Texts
  <2>3. holder \in [Spellings -> FileCalls \cup {None}] /\ mishaps \in 0..MaxMishaps
    BY DEF FilesInit
  <2>4. call \in [FileCalls -> FileCall]
    BY <1>3 DEF FileCall, Stages, Texts
  <2> QED
    BY <2>1, <2>2, <2>3, <2>4 DEF FilesTypes
<1>6. LocksAreHeld
  BY <1>4 DEF LocksAreHeld, Working, FilesInit
<1>7. OnePlace
  BY <1>1 DEF OnePlace
<1>8. NumbersAreFresh
  BY <1>1, <1>4 DEF NumbersAreFresh
<1>9. ASSUME NEW c \in FileCalls PROVE FilesGoOn(c)
  <2>1. File(c) \in Places
    BY <1>5, WhereCallsWrite
  <2>2. Whole(c)
    BY <1>1, <1>2, <2>1 DEF Whole, Numbers
  <2>3. NobodyElses(c) /\ OnItsWay(c)
    BY <1>4 DEF NobodyElses, OnItsWay
  <2> QED
    BY <2>2, <2>3 DEF FilesGoOn
<1> QED
  BY <1>5, <1>6, <1>7, <1>8, <1>9 DEF FilesIInv

(***************************************************************************)
(* What a step of a call may touch: its own two places, and the text of a  *)
(* file that is at its temporary place, that it has open, or that it makes.*)
(***************************************************************************)
TheRest(a) == \A d \in FileCalls \ {a} : call'[d] = call[d]
SameCall(a) ==
  /\ call'[a].path = call[a].path /\ call'[a].tool = call[a].tool
  /\ call[a].aborted => call'[a].aborted
Opens(a, n) ==
  /\ n # None
  /\ \/ n = disk[Temp(a)]
     \/ n = call[a].file /\ call[a].at = "open"
     \/ n = a /\ call[a].at \in {"locked", "read"}
Touches(a) ==
  /\ \A q \in Places : q # File(a) /\ q # Temp(a) => disk'[q] = disk[q]
  /\ \A n \in Numbers : text'[n] # text[n] => Opens(a, n)
  /\ call'[a].at = "open" => Opens(a, call'[a].file)
FileStep(a) ==
  /\ call' \in [FileCalls -> FileCall]
  /\ TheRest(a) /\ SameCall(a) /\ Touches(a)

LEMMA PathsStay ==
  ASSUME NEW a \in FileCalls, FileStep(a)
  PROVE  \A c \in FileCalls :
           /\ call'[c].path = call[c].path /\ call'[c].tool = call[c].tool
           /\ call[c].aborted => call'[c].aborted
           /\ File(c)' = File(c) /\ Temp(c)' = Temp(c)
           /\ OnlySpelling(c)' => OnlySpelling(c)
<1>1. \A c \in FileCalls : 
        /\ call'[c].path = call[c].path /\ call'[c].tool = call[c].tool
        /\ call[c].aborted => call'[c].aborted
  BY DEF FileStep, TheRest, SameCall
<1>2. \A c \in FileCalls : File(c)' = File(c) /\ Temp(c)' = Temp(c)
  BY <1>1 DEF File, Temp
<1>3. ASSUME NEW c \in FileCalls, OnlySpelling(c)' PROVE OnlySpelling(c)
  BY <1>1, <1>2, <1>3 DEF OnlySpelling
<1> QED
  BY <1>1, <1>2, <1>3

(***************************************************************************)
(* A file that is not the caller's and that is always spelled one way is   *)
(* left alone, and so are the calls on it.                                 *)
(***************************************************************************)
LEMMA Elsewhere ==
  ASSUME FilesIInv, FilesTypes', NEW a \in FileCalls, FileStep(a),
         NEW c \in FileCalls, call[c].path # call[a].path, OnlySpelling(c)'
  PROVE  FilesGoOn(c)' /\ Held(File(c))' = Held(File(c)) /\ call'[c] = call[c]
<1>1. /\ OnlySpelling(c)
      /\ File(c)' = File(c) /\ Temp(c)' = Temp(c)
      /\ call'[c] = call[c]
  BY PathsStay DEF FileStep, TheRest
<1>2. FilesGoOn(c)
  BY <1>1 DEF FilesIInv
<1>3. /\ File(a) # File(c) /\ File(a) # Temp(c)
      /\ Temp(a) # File(c) /\ Temp(a) # Temp(c)
  BY <1>1 DEF OnlySpelling
<1>4. /\ File(a) \in Places /\ Temp(a) \in Places
      /\ File(c) \in Places /\ Temp(c) \in Places
  BY WhereCallsWrite DEF FilesIInv
<1>5. disk'[File(c)] = disk[File(c)] /\ disk'[Temp(c)] = disk[Temp(c)]
  BY <1>3, <1>4 DEF FileStep, Touches
<1>6. ASSUME NEW n, Opens(a, n) PROVE n # disk[File(c)] /\ n # disk[Temp(c)]
  <2>1. CASE n = disk[Temp(a)]
    BY <1>3, <1>4, <1>6, <2>1 DEF Opens, FilesIInv, OnePlace
  <2>2. CASE n = call[a].file /\ call[a].at = "open"
    BY <1>2, <2>2 DEF FilesGoOn, NobodyElses
  <2>3. CASE n = a /\ call[a].at \in {"locked", "read"}
    BY <1>4, <2>3 DEF FilesIInv, NumbersAreFresh
  <2> QED
    BY <1>6, <2>1, <2>2, <2>3 DEF Opens
<1>7. /\ disk[File(c)] # None => text'[disk[File(c)]] = text[disk[File(c)]]
      /\ disk[Temp(c)] # None => text'[disk[Temp(c)]] = text[disk[Temp(c)]]
  <2>1. \A n \in Numbers : n = disk[File(c)] \/ n = disk[Temp(c)] => text'[n] = text[n]
    BY <1>6 DEF FileStep, Touches
  <2>2. /\ disk[File(c)] # None => disk[File(c)] \in Numbers
        /\ disk[Temp(c)] # None => disk[Temp(c)] \in Numbers
    BY <1>4 DEF FilesIInv, FilesTypes
  <2> QED
    BY <2>1, <2>2
<1>8. Held(File(c))' = Held(File(c))
  BY <1>1, <1>5, <1>7 DEF Held
<1>9. Whole(c)'
  BY <1>1, <1>2, <1>5, <1>7 DEF Whole, FilesGoOn
<1>10. NobodyElses(c)'
  <2> SUFFICES ASSUME NEW d \in FileCalls, call'[d].at = "open", call'[d].path # call'[c].path
               PROVE  call'[d].file # disk[File(c)] /\ call'[d].file # disk[Temp(c)]
    BY <1>1, <1>5 DEF NobodyElses
  <2>1. CASE d = a
    BY <1>6, <2>1 DEF FileStep, Touches
  <2>2. CASE d # a
    BY <1>1, <1>2, <2>2 DEF FileStep, TheRest, FilesGoOn, NobodyElses
  <2> QED
    BY <2>1, <2>2
<1>11. OnItsWay(c)'
  <2>1. call[c].at = "open" => call[c].file # None
    BY DEF FilesIInv, NumbersAreFresh
  <2>2. NewText(c, call[c].read)' = NewText(c, call[c].read)
    BY <1>1 DEF NewText
  <2> QED
    BY <1>1, <1>2, <1>5, <1>7, <1>8, <2>1, <2>2 DEF OnItsWay, FilesGoOn
<1> QED
  BY <1>1, <1>8, <1>9, <1>10, <1>11 DEF FilesGoOn

(***************************************************************************)
(* A call on the same file is not at work, so that it is enough to look at *)
(* the call that steps.                                                    *)
(***************************************************************************)
LEMMA EverybodyGoesOn ==
  ASSUME FilesIInv, FilesTypes', NEW a \in FileCalls, FileStep(a),
         holder[call[a].path] \in {None, a} \/ call'[a].aborted,
         OnlySpelling(a)' => FilesGoOn(a)'
  PROVE  \A c \in FileCalls : OnlySpelling(c)' => FilesGoOn(c)'
<1> SUFFICES ASSUME NEW c \in FileCalls, OnlySpelling(c)' PROVE FilesGoOn(c)'
  OBVIOUS
<1>1. CASE call[c].path # call[a].path
  BY <1>1, Elsewhere
<1>2. CASE c = a
  BY <1>2
<1>3. CASE c # a /\ call[c].path = call[a].path
  <2>1. /\ call'[c] = call[c] /\ OnlySpelling(c)
        /\ call'[a].path = call[a].path
    BY <1>3, PathsStay DEF FileStep, TheRest
  <2>2. ~call'[a].aborted /\ ~call'[c].aborted
    BY <1>3, <2>1 DEF OnlySpelling
  <2>3. File(c)' = File(a)' /\ Temp(c)' = Temp(a)' /\ call'[c].path = call'[a].path
    BY <1>3, <2>1 DEF File, Temp
  <2>4. OnlySpelling(a)'
    BY <2>3 DEF OnlySpelling
  <2>5. FilesGoOn(a)'
    BY <2>4
  <2>6. call[c].at \notin {"read", "open", "filled"}
    <3>1. holder[call[c].path] # c
      BY <1>3, <2>2, FileToolsAssumption
    <3>2. call[c].path \in Spellings
      BY DEF FilesIInv, FilesTypes, FileCall
    <3>3. ~Working(c)
      BY <3>1, <3>2 DEF FilesIInv, LocksAreHeld
    <3> QED
      BY <2>1, <2>2, <3>3 DEF Working
  <2>7. Whole(c)' /\ NobodyElses(c)'
    BY <2>3, <2>5 DEF FilesGoOn, Whole, NobodyElses
  <2>8. OnItsWay(c)'
    BY <2>1, <2>6 DEF OnItsWay
  <2> QED
    BY <2>7, <2>8 DEF FilesGoOn
<1> QED
  BY <1>1, <1>2, <1>3

(***************************************************************************)
(* What each step does, field by field.                                    *)
(***************************************************************************)
CallType == call' \in [FileCalls -> FileCall]

LEMMA LockChanges ==
  ASSUME FilesIInv, NEW a \in FileCalls, Lock(a)
  PROVE  /\ FileStep(a)
         /\ call[a].at = "asked" /\ call'[a].at = "locked"
         /\ call'[a].aborted = call[a].aborted /\ call'[a].file = call[a].file
         /\ call'[a].read = call[a].read
         /\ holder[call[a].path] = None
         /\ holder' = [holder EXCEPT ![call[a].path] = a]
         /\ disk' = disk /\ text' = text /\ mishaps' = mishaps
<1>1. call \in [FileCalls -> FileCall]
  BY DEF FilesIInv, FilesTypes
<1>2. call' = [call EXCEPT ![a].at = "locked"]
  BY DEF Lock, Moves
<1>3. "locked" \in Stages
  BY DEF Stages
<1>4. call' \in [FileCalls -> FileCall]
  BY <1>1, <1>2, <1>3 DEF FileCall
<1> QED
  BY <1>1, <1>2, <1>4 DEF Lock, FileStep, TheRest, SameCall, Touches, FileCall

LEMMA FailsChanges ==
  ASSUME FilesIInv, NEW a \in FileCalls, Fails(a)
  PROVE  /\ CallType /\ TheRest(a) /\ SameCall(a)
         /\ call'[a].at \in {"gone", "failed"}
         /\ call'[a].aborted = call[a].aborted /\ call'[a].file = call[a].file
         /\ call'[a].read = call[a].read
         /\ LeavesLock(a)
<1>1. call \in [FileCalls -> FileCall]
  BY DEF FilesIInv, FilesTypes
<1>2. PICK at \in {"gone", "failed"} : call' = [call EXCEPT ![a].at = at]
  BY DEF Fails, Moves
<1>3. at \in Stages
  BY DEF Stages
<1>4. CallType
  BY <1>1, <1>2, <1>3 DEF FileCall, CallType
<1> QED
  BY <1>1, <1>2, <1>4 DEF Fails, TheRest, SameCall, FileCall

LEMMA ReadFileChanges ==
  ASSUME FilesIInv, NEW a \in FileCalls, ReadFile(a)
  PROVE  /\ FileStep(a)
         /\ call[a].at = "locked" /\ ~call[a].aborted
         /\ call'[a].aborted = call[a].aborted /\ call'[a].file = call[a].file
         /\ disk' = disk /\ text' = text /\ mishaps' = mishaps
         /\ \/ /\ call'[a].at = "read" /\ call'[a].read = Held(File(a))
               /\ Held(File(a)) # None /\ disk[File(a)] # None
               /\ holder' = holder
            \/ call'[a].at \in {"gone", "failed"} /\ LeavesLock(a)
<1>1. call \in [FileCalls -> FileCall]
  BY DEF FilesIInv, FilesTypes
<1>2. /\ call[a].at = "locked" /\ ~call[a].aborted
      /\ disk' = disk /\ text' = text /\ mishaps' = mishaps
  BY DEF ReadFile
<1>3. CASE Fails(a)
  BY <1>2, <1>3, FailsChanges DEF FileStep, CallType, Touches
<1>4. CASE /\ Held(File(a)) # None /\ holder' = holder
           /\ call' = [call EXCEPT ![a].at = "read", ![a].read = Held(File(a))]
  <2>1. disk[File(a)] # None
    BY <1>4 DEF Held
  <2>2. Held(File(a)) \in Texts
    BY <2>1, WhereCallsWrite DEF Held, FilesIInv, FilesTypes
  <2>3. "read" \in Stages
    BY DEF Stages
  <2>4. CallType
    BY <1>1, <1>4, <2>2, <2>3, ZenonT(60) DEF CallType, FileCall
  <2>5. /\ call'[a].at = "read" /\ call'[a].read = Held(File(a))
        /\ call'[a].aborted = call[a].aborted /\ call'[a].file = call[a].file
        /\ TheRest(a) /\ SameCall(a)
    BY <1>1, <1>4 DEF FileCall, TheRest, SameCall
  <2>6. Touches(a)
    BY <1>2, <2>5 DEF Touches
  <2> QED
    BY <1>2, <1>4, <2>1, <2>4, <2>5, <2>6 DEF FileStep, CallType
<1> QED
  BY <1>3, <1>4 DEF ReadFile

LEMMA OpenTempChanges ==
  ASSUME FilesIInv, NEW a \in FileCalls, OpenTemp(a)
  PROVE  \E n \in Numbers :
           /\ FileStep(a)
           /\ call[a].at = (IF call[a].tool = "edit" THEN "read" ELSE "locked")
           /\ n = IF disk[Temp(a)] = None THEN a ELSE disk[Temp(a)]
           /\ call'[a].at = "open" /\ call'[a].file = n
           /\ call'[a].aborted = call[a].aborted /\ call'[a].read = call[a].read
           /\ disk' = [disk EXCEPT ![Temp(a)] = n]
           /\ text' = [text EXCEPT ![n] = {Scrap}]
           /\ holder' = holder /\ mishaps' = mishaps
<1>1. call \in [FileCalls -> FileCall]
  BY DEF FilesIInv, FilesTypes
<1> DEFINE n == IF disk[Temp(a)] = None THEN a ELSE disk[Temp(a)]
<1>2. n \in Numbers /\ n # None
  BY WhereCallsWrite, FileToolsAssumption DEF FilesIInv, FilesTypes, Numbers
<1>3. /\ disk' = [disk EXCEPT ![Temp(a)] = n]
      /\ text' = [text EXCEPT ![n] = {Scrap}]
      /\ call' = [call EXCEPT ![a].at = "open", ![a].file = n]
      /\ holder' = holder /\ mishaps' = mishaps
      /\ call[a].at = (IF call[a].tool = "edit" THEN "read" ELSE "locked")
  BY DEF OpenTemp
<1>4. Opens(a, n)
  BY <1>2, <1>3 DEF Opens
<1> HIDE DEF n
<1>5. "open" \in Stages
  BY DEF Stages
<1>6. CallType
  BY <1>1, <1>2, <1>3, <1>5, ZenonT(60) DEF CallType, FileCall
<1>7. /\ call'[a].at = "open" /\ call'[a].file = n
      /\ call'[a].aborted = call[a].aborted /\ call'[a].read = call[a].read
      /\ TheRest(a) /\ SameCall(a)
  BY <1>1, <1>3 DEF FileCall, TheRest, SameCall
<1>8. Touches(a)
  BY <1>3, <1>4, <1>7 DEF Touches, FilesIInv, FilesTypes
<1> QED
  BY <1>2, <1>3, <1>6, <1>7, <1>8 DEF FileStep, CallType, n

LEMMA FillTempChanges ==
  ASSUME FilesIInv, NEW a \in FileCalls, FillTemp(a)
  PROVE  \E new \in Texts :
           /\ FileStep(a)
           /\ call[a].at = "open" /\ call[a].file \in Numbers
           /\ call'[a].at = IF call[a].aborted THEN "gone" ELSE "filled"
           /\ call'[a].aborted = call[a].aborted /\ call'[a].read = call[a].read
           /\ call'[a].file = call[a].file
           /\ text[call[a].file] = {Scrap} => new = NewText(a, call[a].read)
           /\ text' = [text EXCEPT ![call[a].file] = new]
           /\ disk' = disk /\ holder' = holder /\ mishaps' = mishaps
<1>1. call \in [FileCalls -> FileCall]
  BY DEF FilesIInv, FilesTypes
<1> DEFINE mine == NewText(a, call[a].read)
<1>2. /\ call[a].at = "open"
      /\ disk' = disk /\ holder' = holder /\ mishaps' = mishaps
      /\ call' = [call EXCEPT ![a].at = IF call[a].aborted THEN "gone" ELSE "filled"]
  BY DEF FillTemp, Moves
<1>3. PICK new \in {mine, mine \cup {Scrap}} :
        /\ text[call[a].file] = {Scrap} => new = mine
        /\ text' = [text EXCEPT ![call[a].file] = new]
  BY DEF FillTemp
<1>4. call[a].file \in Numbers /\ call[a].file # None
  BY <1>1, <1>2 DEF FilesIInv, NumbersAreFresh, FileCall
<1>5. mine \in Texts
  BY <1>1 DEF NewText, Texts, FileCall
<1>6. new \in Texts
  BY <1>5 DEF Texts
<1>7. "gone" \in Stages /\ "filled" \in Stages
  BY DEF Stages
<1>8. CallType
  BY <1>1, <1>2, <1>7 DEF CallType, FileCall
<1>9. /\ call'[a].at = IF call[a].aborted THEN "gone" ELSE "filled"
      /\ call'[a].aborted = call[a].aborted /\ call'[a].read = call[a].read
      /\ call'[a].file = call[a].file
      /\ TheRest(a) /\ SameCall(a)
  BY <1>1, <1>2 DEF FileCall, TheRest, SameCall
<1>10. Touches(a)
  BY <1>2, <1>3, <1>4, <1>9 DEF Touches, Opens, FilesIInv, FilesTypes
<1> QED
  BY <1>2, <1>3, <1>4, <1>6, <1>8, <1>9, <1>10 DEF FileStep, CallType

LEMMA WriteFailsChanges ==
  ASSUME FilesIInv, NEW a \in FileCalls, WriteFails(a)
  PROVE  /\ FileStep(a)
         /\ call[a].at \in {"locked", "read", "open"}
         /\ call'[a].at \in {"gone", "failed"} /\ LeavesLock(a)
         /\ call'[a].aborted = call[a].aborted /\ call'[a].file = call[a].file
         /\ disk' = disk /\ text' = text
         /\ Mishap
BY FailsChanges DEF WriteFails, FileStep, CallType, Touches

LEMMA RenameChanges ==
  ASSUME FilesIInv, NEW a \in FileCalls, Rename(a)
  PROVE  /\ FileStep(a)
         /\ call[a].at = "filled" /\ disk[Temp(a)] # None
         /\ call'[a].at = IF call[a].aborted THEN "gone" ELSE "done"
         /\ LeavesLock(a)
         /\ call'[a].aborted = call[a].aborted /\ call'[a].file = call[a].file
         /\ call'[a].read = call[a].read
         /\ disk' = IF File(a) = Temp(a) THEN disk
                    ELSE [disk EXCEPT ![File(a)] = disk[Temp(a)], ![Temp(a)] = None]
         /\ text' = text /\ mishaps' = mishaps
<1>1. call \in [FileCalls -> FileCall]
  BY DEF FilesIInv, FilesTypes
<1>2. /\ call[a].at = "filled" /\ disk[Temp(a)] # None
      /\ disk' = IF File(a) = Temp(a) THEN disk
                 ELSE [disk EXCEPT ![File(a)] = disk[Temp(a)], ![Temp(a)] = None]
      /\ LeavesLock(a) /\ text' = text /\ mishaps' = mishaps
      /\ call' = [call EXCEPT ![a].at = IF call[a].aborted THEN "gone" ELSE "done"]
  BY DEF Rename, Moves
<1>3. "gone" \in Stages /\ "done" \in Stages
  BY DEF Stages
<1>4. CallType
  BY <1>1, <1>2, <1>3 DEF CallType, FileCall
<1>5. /\ call'[a].at = IF call[a].aborted THEN "gone" ELSE "done"
      /\ call'[a].aborted = call[a].aborted /\ call'[a].file = call[a].file
      /\ call'[a].read = call[a].read
      /\ TheRest(a) /\ SameCall(a)
  BY <1>1, <1>2 DEF FileCall, TheRest, SameCall
<1>6. Touches(a)
  BY <1>2, <1>5 DEF Touches, FilesIInv, FilesTypes
<1> QED
  BY <1>2, <1>4, <1>5, <1>6 DEF FileStep, CallType

LEMMA RenameFailsChanges ==
  ASSUME FilesIInv, NEW a \in FileCalls, RenameFails(a)
  PROVE  /\ FileStep(a)
         /\ call[a].at = "filled"
         /\ call'[a].at \in {"gone", "failed"} /\ LeavesLock(a)
         /\ call'[a].aborted = call[a].aborted /\ call'[a].file = call[a].file
         /\ disk' = disk \/ disk' = [disk EXCEPT ![Temp(a)] = None]
         /\ text' = text
         /\ mishaps' = mishaps \/ Mishap
<1>1. /\ call[a].at = "filled" /\ Fails(a) /\ text' = text
      /\ disk' = disk \/ disk' = [disk EXCEPT ![Temp(a)] = None]
      /\ mishaps' = mishaps \/ Mishap
  BY DEF RenameFails
<1>2. CallType /\ TheRest(a) /\ SameCall(a) /\ call'[a].at \in {"gone", "failed"}
      /\ LeavesLock(a)
      /\ call'[a].aborted = call[a].aborted /\ call'[a].file = call[a].file
  BY <1>1, FailsChanges
<1>3. Touches(a)
  BY <1>1, <1>2 DEF Touches, FilesIInv, FilesTypes
<1> QED
  BY <1>1, <1>2, <1>3 DEF FileStep, CallType

LEMMA AbortChanges ==
  ASSUME FilesIInv, NEW a \in FileCalls, Abort(a)
  PROVE  /\ FileStep(a)
         /\ call'[a].aborted
         /\ call'[a].at \in {"gone", call[a].at} /\ call'[a].at # "asked"
         /\ call'[a].file = call[a].file
         /\ LeavesLock(a) /\ Mishap
         /\ disk' = disk /\ text' = text
<1>1. call \in [FileCalls -> FileCall]
  BY DEF FilesIInv, FilesTypes
<1>2. PICK at \in {"gone", call[a].at} :
        /\ call' = [call EXCEPT ![a].aborted = TRUE, ![a].at = at]
        /\ at # "asked"
  BY DEF Abort, CutOff, NothingInHand
<1>3. at \in Stages
  BY <1>1 DEF Stages, FileCall
<1>4. CallType
  BY <1>1, <1>2, <1>3, ZenonT(60) DEF CallType, FileCall
<1>5. /\ call'[a].aborted /\ call'[a].at = at
      /\ call'[a].file = call[a].file
      /\ TheRest(a) /\ SameCall(a)
  BY <1>1, <1>2 DEF FileCall, TheRest, SameCall
<1>6. disk' = disk /\ text' = text /\ LeavesLock(a) /\ Mishap
  BY DEF Abort, CutOff
<1>7. Touches(a)
  <2>1. at = "open" => call[a].at = "open"
    BY <1>2
  <2> QED
    BY <1>5, <1>6, <2>1 DEF Touches, Opens, FilesIInv, NumbersAreFresh
<1> QED
  BY <1>2, <1>4, <1>5, <1>6, <1>7 DEF FileStep, CallType

(***************************************************************************)
(* The parts of the invariant that most steps preserve in the same way.    *)
(***************************************************************************)
LEMMA LockIsTheirs ==
  ASSUME FilesIInv, NEW a \in FileCalls, call[a].at \in {"locked", "read", "open", "filled"}
  PROVE  holder[call[a].path] = a \/ call[a].aborted
<1>1. call[a].path \in Spellings
  BY DEF FilesIInv, FilesTypes, FileCall
<1> QED
  BY <1>1 DEF FilesIInv, LocksAreHeld, Working

LEMMA LockKept ==
  ASSUME FilesIInv, NEW a \in FileCalls, FileStep(a), holder' = holder, Working(a)' <=> Working(a),
         call'[a].at # "asked"
  PROVE  LocksAreHeld'
<1>1. \A c \in FileCalls :
        /\ call'[c].path = call[c].path /\ (Working(c)' <=> Working(c))
        /\ c = a \/ call'[c] = call[c]
  BY PathsStay DEF FileStep, TheRest, Working
<1> QED
  BY <1>1 DEF FilesIInv, LocksAreHeld

LEMMA LockLeft ==
  ASSUME FilesIInv, NEW a \in FileCalls, FileStep(a), LeavesLock(a), ~Working(a)',
         call'[a].at # "asked"
  PROVE  LocksAreHeld' /\ holder' \in [Spellings -> FileCalls \cup {None}]
<1>1. holder' \in [Spellings -> FileCalls \cup {None}]
  BY DEF FilesIInv, FilesTypes, LeavesLock
<1>2. ASSUME NEW c \in FileCalls, NEW p \in Spellings
      PROVE  holder'[p] = c <=> p = call'[c].path /\ Working(c)'
  <2>1. holder'[p] = IF holder[p] = a THEN None ELSE holder[p]
    BY DEF LeavesLock
  <2>2. CASE c = a
    BY <2>1, <2>2, FileToolsAssumption
  <2>3. CASE c # a
    <3>1. call'[c] = call[c]
      BY <2>3 DEF FileStep, TheRest
    <3>2. holder[p] = c <=> p = call[c].path /\ Working(c)
      BY DEF FilesIInv, LocksAreHeld
    <3>3. Working(c)' <=> Working(c)
      BY <3>1 DEF Working
    <3> QED
      BY <2>1, <2>3, <3>1, <3>2, <3>3, FileToolsAssumption
  <2> QED
    BY <2>2, <2>3
<1>3. \A c \in FileCalls : call'[c].at = "asked" => ~call'[c].aborted
  BY DEF FilesIInv, LocksAreHeld, FileStep, TheRest
<1> QED
  BY <1>1, <1>2, <1>3 DEF LocksAreHeld

LEMMA FreshStays ==
  ASSUME FilesIInv, NEW a \in FileCalls, FileStep(a),
         \A p \in Places : disk'[p] = None \/ \E q \in Places : disk'[p] = disk[q],
         call'[a].file = call[a].file,
         call'[a].at \in {"asked", "locked", "read"} => call[a].at \in {"asked", "locked", "read"},
         call'[a].at = "open" => call[a].at = "open"
  PROVE  NumbersAreFresh'
<1>1. \A c \in FileCalls :
        /\ call'[c].file = call[c].file
        /\ call'[c].at \in {"asked", "locked", "read"} => call[c].at \in {"asked", "locked", "read"}
        /\ call'[c].at = "open" => call[c].at = "open"
  BY DEF FileStep, TheRest
<1> QED
  BY <1>1, FileToolsAssumption DEF FilesIInv, NumbersAreFresh

LEMMA MishapCounts == ASSUME FilesTypes, Mishap PROVE mishaps' \in 0..MaxMishaps
BY FileToolsAssumption DEF FilesTypes, Mishap

LEMMA QuietGoesOn ==
  ASSUME FilesIInv, NEW a \in FileCalls, FileStep(a), disk' = disk, text' = text,
         call'[a].at \notin {"read", "open", "filled"}, OnlySpelling(a)'
  PROVE  FilesGoOn(a)'
<1>1. OnlySpelling(a) /\ File(a)' = File(a) /\ Temp(a)' = Temp(a) /\ call'[a].path = call[a].path
  BY PathsStay
<1>2. FilesGoOn(a)
  BY <1>1 DEF FilesIInv
<1>3. NobodyElses(a)'
  BY <1>1, <1>2 DEF FilesGoOn, NobodyElses, FileStep, TheRest
<1> QED
  BY <1>1, <1>2, <1>3 DEF FilesGoOn, Whole, OnItsWay

LEMMA LockStep == ASSUME FilesIInv, NEW a \in FileCalls, Lock(a) PROVE FilesIInv'
<1> USE LockChanges
<1>1. FileStep(a) /\ disk' = disk /\ text' = text
  OBVIOUS
<1>2. call[a].path \in Spellings
  BY DEF FilesIInv, FilesTypes, FileCall
<1>3. FilesTypes'
  BY <1>2 DEF FilesIInv, FilesTypes, FileStep
<1>4. LocksAreHeld'
  <2>1. ASSUME NEW c \in FileCalls, NEW p \in Spellings
        PROVE  holder'[p] = c <=> p = call'[c].path /\ Working(c)'
    <3>1. holder[p] = c <=> p = call[c].path /\ Working(c)
      BY DEF FilesIInv, LocksAreHeld
    <3>2. holder'[p] = IF p = call[a].path THEN a ELSE holder[p]
      BY <1>2 DEF FilesIInv, FilesTypes
    <3>3. CASE c = a
      <4>1. Working(a)' /\ ~Working(a)
        BY DEF Working, FilesIInv, LocksAreHeld
      <4> QED
        BY <3>1, <3>2, <3>3, <4>1, PathsStay
    <3>4. CASE c # a
      <4>1. call'[c] = call[c] /\ (Working(c)' <=> Working(c))
        BY <3>4 DEF FileStep, TheRest, Working
      <4> QED
        BY <3>1, <3>2, <3>4, <4>1, FileToolsAssumption
    <3> QED
      BY <3>3, <3>4
  <2>2. \A c \in FileCalls : call'[c].at = "asked" => ~call'[c].aborted
    BY DEF FilesIInv, LocksAreHeld, FileStep, TheRest
  <2> QED
    BY <2>1, <2>2 DEF LocksAreHeld
<1>5. OnePlace' /\ NumbersAreFresh'
  BY FreshStays DEF OnePlace, FilesIInv
<1>6. \A c \in FileCalls : OnlySpelling(c)' => FilesGoOn(c)'
  BY <1>1, <1>3, QuietGoesOn, EverybodyGoesOn
<1> QED
  BY <1>3, <1>4, <1>5, <1>6 DEF FilesIInv

\* A step after which the call is out of the lock, with the files where they are or one gone.
LEMMA LeavingStep ==
  ASSUME FilesIInv, NEW a \in FileCalls, FileStep(a), LeavesLock(a),
         call'[a].at \in {"gone", "failed"},
         call'[a].file = call[a].file, text' = text,
         disk' = disk \/ disk' = [disk EXCEPT ![Temp(a)] = None],
         call[a].at \in {"locked", "read", "open", "filled"},
         mishaps' \in 0..MaxMishaps
  PROVE  FilesIInv'
<1>1. LocksAreHeld' /\ holder' \in [Spellings -> FileCalls \cup {None}]
  BY LockLeft DEF Working
<1>2. FilesTypes'
  BY <1>1 DEF FilesIInv, FilesTypes, FileStep
<1>3. \A p \in Places : disk'[p] = None \/ disk'[p] = disk[p]
  BY DEF FilesIInv, FilesTypes
<1>4. OnePlace' /\ NumbersAreFresh'
  BY <1>3, FreshStays DEF FilesIInv, OnePlace
<1>5. ASSUME OnlySpelling(a)' PROVE FilesGoOn(a)'
  <2>1. /\ OnlySpelling(a) /\ File(a)' = File(a) /\ Temp(a)' = Temp(a)
        /\ call'[a].path = call[a].path
    BY <1>5, PathsStay
  <2>2. FilesGoOn(a) /\ File(a) # Temp(a)
    BY <2>1 DEF FilesIInv, OnlySpelling, Temp
  <2>3. File(a) \in Places /\ Temp(a) \in Places
    BY WhereCallsWrite DEF FilesIInv
  <2>4. disk'[File(a)] = disk[File(a)] /\ disk'[Temp(a)] \in {disk[Temp(a)], None}
    BY <2>2, <2>3 DEF FilesIInv, FilesTypes
  <2>5. NobodyElses(a)'
    BY <2>1, <2>2, <2>4
       DEF FilesGoOn, NobodyElses, FileStep, TheRest, FilesIInv, NumbersAreFresh
  <2> QED
    BY <2>1, <2>2, <2>4, <2>5 DEF FilesGoOn, Whole, OnItsWay
<1>6. holder[call[a].path] \in {None, a} \/ call'[a].aborted
  BY LockIsTheirs DEF FileStep, SameCall
<1> QED
  BY <1>1, <1>2, <1>4, <1>5, <1>6, EverybodyGoesOn DEF FilesIInv

LEMMA WriteFailsStep == ASSUME FilesIInv, NEW a \in FileCalls, WriteFails(a) PROVE FilesIInv'
BY WriteFailsChanges, LeavingStep, MishapCounts DEF FilesIInv

LEMMA RenameFailsStep == ASSUME FilesIInv, NEW a \in FileCalls, RenameFails(a) PROVE FilesIInv'
<1>1. mishaps' \in 0..MaxMishaps
  BY RenameFailsChanges, MishapCounts DEF FilesIInv, FilesTypes
<1> QED
  BY <1>1, RenameFailsChanges, LeavingStep

LEMMA AbortStep == ASSUME FilesIInv, NEW a \in FileCalls, Abort(a) PROVE FilesIInv'
<1> USE AbortChanges
<1>1. LocksAreHeld' /\ holder' \in [Spellings -> FileCalls \cup {None}]
  BY LockLeft DEF Working
<1>2. FilesTypes'
  BY <1>1, MishapCounts DEF FilesIInv, FilesTypes, FileStep
<1>3. OnePlace' /\ NumbersAreFresh'
  BY FreshStays DEF FilesIInv, OnePlace
<1>4. ~OnlySpelling(a)'
  BY DEF OnlySpelling
<1>5. \A c \in FileCalls : OnlySpelling(c)' => FilesGoOn(c)'
  BY <1>2, <1>4, EverybodyGoesOn
<1> QED
  BY <1>1, <1>2, <1>3, <1>5 DEF FilesIInv

LEMMA ReadFileStep == ASSUME FilesIInv, NEW a \in FileCalls, ReadFile(a) PROVE FilesIInv'
<1> USE ReadFileChanges
<1>1. CASE call'[a].at \in {"gone", "failed"} /\ LeavesLock(a)
  BY <1>1, LeavingStep DEF FilesIInv, FilesTypes
<1>2. CASE /\ call'[a].at = "read" /\ call'[a].read = Held(File(a))
           /\ Held(File(a)) # None /\ disk[File(a)] # None
           /\ holder' = holder
  <2>1. FileStep(a)
    OBVIOUS
  <2>2. FilesTypes'
    BY <1>2 DEF FilesIInv, FilesTypes, FileStep
  <2>3. LocksAreHeld'
    BY <1>2, LockKept DEF Working
  <2>4. OnePlace' /\ NumbersAreFresh'
    BY <1>2, FreshStays DEF FilesIInv, OnePlace
  <2>5. ASSUME OnlySpelling(a)' PROVE FilesGoOn(a)'
    <3>1. /\ OnlySpelling(a) /\ File(a)' = File(a) /\ Temp(a)' = Temp(a)
          /\ call'[a].path = call[a].path
      BY <2>1, <2>5, PathsStay
    <3>2. FilesGoOn(a)
      BY <3>1 DEF FilesIInv
    <3>3. NobodyElses(a)'
      BY <2>1, <3>1, <3>2 DEF FilesGoOn, NobodyElses, FileStep, TheRest
    <3>4. Held(File(a))' = Held(File(a))
      BY <3>1 DEF Held
    <3> QED
      BY <1>2, <3>1, <3>2, <3>3, <3>4 DEF FilesGoOn, Whole, OnItsWay
  <2>6. holder[call[a].path] \in {None, a} \/ call'[a].aborted
    BY <2>1, LockIsTheirs DEF FileStep, SameCall
  <2> QED
    BY <2>1, <2>2, <2>3, <2>4, <2>5, <2>6, EverybodyGoesOn DEF FilesIInv
<1> QED
  BY <1>1, <1>2

LEMMA OpenTempStep == ASSUME FilesIInv, NEW a \in FileCalls, OpenTemp(a) PROVE FilesIInv'
<1>1. PICK n \in Numbers :
        /\ FileStep(a)
        /\ call[a].at = (IF call[a].tool = "edit" THEN "read" ELSE "locked")
        /\ n = IF disk[Temp(a)] = None THEN a ELSE disk[Temp(a)]
        /\ call'[a].at = "open" /\ call'[a].file = n
        /\ call'[a].aborted = call[a].aborted /\ call'[a].read = call[a].read
        /\ disk' = [disk EXCEPT ![Temp(a)] = n]
        /\ text' = [text EXCEPT ![n] = {Scrap}]
        /\ holder' = holder /\ mishaps' = mishaps
  BY OpenTempChanges
<1>2. /\ File(a) \in Places /\ Temp(a) \in Places /\ n # None
      /\ \A p \in Places : disk'[p] = IF p = Temp(a) THEN n ELSE disk[p]
  BY <1>1, WhereCallsWrite, FileToolsAssumption DEF FilesIInv, FilesTypes
<1>3. call[a].at \in {"read", "locked"}
  BY <1>1
<1>4. \A p \in Places : disk[p] = n => p = Temp(a)
  BY <1>1, <1>2, <1>3 DEF FilesIInv, OnePlace, NumbersAreFresh
<1>5. FilesTypes'
  BY <1>1, <1>2 DEF FilesIInv, FilesTypes, FileStep, Texts
<1>6. LocksAreHeld'
  BY <1>1, <1>3, LockKept DEF Working
<1>7. OnePlace'
  BY <1>2, <1>4 DEF FilesIInv, OnePlace
<1>8. NumbersAreFresh'
  <2> SUFFICES ASSUME NEW c \in FileCalls
               PROVE  /\ call'[c].at = "open" => call'[c].file # None
                      /\ call'[c].at \in {"asked", "locked", "read"} =>
                           /\ call'[c].file = None
                           /\ \A p \in Places : disk'[p] # c
                           /\ \A d \in FileCalls : call'[d].file # c
    BY DEF NumbersAreFresh
  <2>1. CASE c = a
    BY <1>1, <1>2, <2>1
  <2>2. CASE c # a
    <3>1. call'[c] = call[c]
      BY <1>1, <2>2 DEF FileStep, TheRest
    <3>2. call[c].at \in {"asked", "locked", "read"} => c # n
      BY <1>1, <1>2, <2>2 DEF FilesIInv, NumbersAreFresh
    <3>3. \A d \in FileCalls : call'[d].file \in {n, call[d].file}
      BY <1>1 DEF FileStep, TheRest
    <3> QED
      BY <1>2, <3>1, <3>2, <3>3 DEF FilesIInv, NumbersAreFresh
  <2> QED
    BY <2>1, <2>2
<1>9. ASSUME OnlySpelling(a)' PROVE FilesGoOn(a)'
  <2>1. /\ OnlySpelling(a) /\ File(a)' = File(a) /\ Temp(a)' = Temp(a)
        /\ call'[a].path = call[a].path /\ call'[a].tool = call[a].tool
    BY <1>1, <1>9, PathsStay
  <2>2. FilesGoOn(a) /\ File(a) # Temp(a)
    BY <2>1 DEF FilesIInv, OnlySpelling, Temp
  <2>3. disk'[File(a)] = disk[File(a)] /\ disk'[Temp(a)] = n /\ disk[File(a)] # n
    BY <1>2, <1>4, <2>2
  <2>4. /\ \A m \in Numbers : m # n => text'[m] = text[m]
        /\ text'[n] = {Scrap}
    BY <1>1 DEF FilesIInv, FilesTypes
  <2>5. disk[File(a)] # None => disk[File(a)] \in Numbers
    BY <1>2 DEF FilesIInv, FilesTypes
  <2>6. Held(File(a))' = Held(File(a))
    BY <2>1, <2>3, <2>4, <2>5 DEF Held
  <2>7. Whole(a)'
    BY <2>1, <2>2, <2>3, <2>4, <2>5 DEF FilesGoOn, Whole
  <2>8. NobodyElses(a)'
    <3> SUFFICES ASSUME NEW d \in FileCalls, call'[d].at = "open", call'[d].path # call'[a].path
                 PROVE  call'[d].file # disk[File(a)] /\ call'[d].file # n
      BY <2>1, <2>3 DEF NobodyElses
    <3>1. call'[d] = call[d]
      BY <1>1 DEF FileStep, TheRest
    <3> QED
      BY <1>1, <1>3, <2>1, <2>2, <3>1
         DEF FilesGoOn, NobodyElses, FilesIInv, NumbersAreFresh
  <2>9. OnItsWay(a)'
    BY <1>1, <2>1, <2>2, <2>3, <2>4, <2>6 DEF FilesGoOn, OnItsWay
  <2> QED
    BY <2>7, <2>8, <2>9 DEF FilesGoOn
<1>10. holder[call[a].path] \in {None, a} \/ call'[a].aborted
  BY <1>1, <1>3, LockIsTheirs
<1> QED
  BY <1>1, <1>5, <1>6, <1>7, <1>8, <1>9, <1>10, EverybodyGoesOn DEF FilesIInv

LEMMA FillTempStep == ASSUME FilesIInv, NEW a \in FileCalls, FillTemp(a) PROVE FilesIInv'
<1>1. PICK new \in Texts :
        /\ FileStep(a)
        /\ call[a].at = "open" /\ call[a].file \in Numbers
        /\ call'[a].at = IF call[a].aborted THEN "gone" ELSE "filled"
        /\ call'[a].aborted = call[a].aborted /\ call'[a].read = call[a].read
        /\ call'[a].file = call[a].file
        /\ text[call[a].file] = {Scrap} => new = NewText(a, call[a].read)
        /\ text' = [text EXCEPT ![call[a].file] = new]
        /\ disk' = disk /\ holder' = holder /\ mishaps' = mishaps
  BY FillTempChanges
<1>2. FilesTypes'
  BY <1>1 DEF FilesIInv, FilesTypes, FileStep
<1>3. LocksAreHeld'
  BY <1>1, LockKept DEF Working
<1>4. OnePlace' /\ NumbersAreFresh'
  BY <1>1, FreshStays DEF FilesIInv, OnePlace
<1>5. ASSUME OnlySpelling(a)' PROVE FilesGoOn(a)'
  <2>1. /\ OnlySpelling(a) /\ File(a)' = File(a) /\ Temp(a)' = Temp(a)
        /\ call'[a].path = call[a].path /\ call'[a].tool = call[a].tool
        /\ ~call[a].aborted
    BY <1>1, <1>5, PathsStay DEF OnlySpelling
  <2>2. FilesGoOn(a) /\ File(a) # Temp(a)
    BY <2>1 DEF FilesIInv, OnlySpelling, Temp
  <2>3. /\ File(a) \in Places /\ Temp(a) \in Places
        /\ disk[File(a)] # None => disk[File(a)] \in Numbers
    BY WhereCallsWrite DEF FilesIInv, FilesTypes
  <2>4. /\ disk[Temp(a)] = call[a].file /\ text[call[a].file] = {Scrap}
        /\ call[a].file # None
    BY <1>1, <2>2 DEF FilesGoOn, OnItsWay, FilesIInv, NumbersAreFresh
  <2>5. call[a].file # disk[File(a)]
    BY <2>2, <2>3, <2>4 DEF FilesIInv, OnePlace
  <2>6. /\ text'[call[a].file] = NewText(a, call[a].read)
        /\ disk[File(a)] # None => text'[disk[File(a)]] = text[disk[File(a)]]
    BY <1>1, <2>3, <2>4, <2>5 DEF FilesIInv, FilesTypes
  <2>7. Held(File(a))' = Held(File(a)) /\ NewText(a, call[a].read)' = NewText(a, call[a].read)
    BY <1>1, <2>1, <2>6 DEF Held, NewText
  <2>8. Whole(a)'
    BY <1>1, <2>1, <2>2, <2>6 DEF FilesGoOn, Whole
  <2>9. NobodyElses(a)'
    BY <1>1, <2>1, <2>2 DEF FilesGoOn, NobodyElses, FileStep, TheRest
  <2>10. OnItsWay(a)'
    BY <1>1, <2>1, <2>2, <2>4, <2>6, <2>7 DEF FilesGoOn, OnItsWay
  <2> QED
    BY <2>8, <2>9, <2>10 DEF FilesGoOn
<1>6. holder[call[a].path] \in {None, a} \/ call'[a].aborted
  BY <1>1, LockIsTheirs
<1> QED
  BY <1>1, <1>2, <1>3, <1>4, <1>5, <1>6, EverybodyGoesOn DEF FilesIInv

\* What a rename brings: the text of the call, whole, with what was there for an edit.
LEMMA RenameBrings ==
  ASSUME FilesIInv, NEW a \in FileCalls, Rename(a), OnlySpelling(a)
  PROVE  /\ disk'[File(a)] = disk[Temp(a)] /\ disk'[Temp(a)] = None
         /\ disk[Temp(a)] \in Numbers /\ text' = text
         /\ text[disk[Temp(a)]] =
              NewText(a, IF Held(File(a)) = None THEN {} ELSE Held(File(a)))
         /\ Scrap \notin text[disk[Temp(a)]]
<1>1. FilesGoOn(a) /\ File(a) # Temp(a)
  BY DEF FilesIInv, OnlySpelling, Temp
<1>2. File(a) \in Places /\ Temp(a) \in Places /\ call[a] \in FileCall
  BY WhereCallsWrite DEF FilesIInv
<1>3. call[a].at = "filled" /\ disk[Temp(a)] # None /\ text' = text
  BY RenameChanges
<1>4. disk'[File(a)] = disk[Temp(a)] /\ disk'[Temp(a)] = None /\ disk[Temp(a)] \in Numbers
  BY <1>1, <1>2, <1>3, RenameChanges DEF FilesIInv, FilesTypes
<1>5. text[disk[Temp(a)]] = NewText(a, call[a].read)
  BY <1>1, <1>3 DEF FilesGoOn, OnItsWay
<1>6. CASE call[a].tool = "edit"
  <2>1. disk[File(a)] # None /\ Held(File(a)) # None /\ call[a].read = Held(File(a))
    BY <1>1, <1>3, <1>6 DEF FilesGoOn, OnItsWay
  <2>2. Scrap \notin call[a].read
    BY <1>1, <2>1 DEF FilesGoOn, Whole, Held
  <2> QED
    BY <1>3, <1>4, <1>5, <1>6, <2>1, <2>2, FileToolsAssumption DEF NewText
<1>7. CASE call[a].tool # "edit"
  BY <1>3, <1>4, <1>5, <1>7, FileToolsAssumption DEF NewText
<1> QED
  BY <1>6, <1>7

LEMMA RenameStep == ASSUME FilesIInv, NEW a \in FileCalls, Rename(a) PROVE FilesIInv'
<1>1. /\ FileStep(a) /\ LeavesLock(a)
      /\ call[a].at = "filled" /\ disk[Temp(a)] # None
      /\ call'[a].at \in {"gone", "done"}
      /\ call'[a].aborted = call[a].aborted /\ call'[a].file = call[a].file
      /\ text' = text /\ mishaps' = mishaps
  BY RenameChanges
<1>2. File(a) \in Places /\ Temp(a) \in Places
  BY WhereCallsWrite DEF FilesIInv
<1>3. \A p \in Places :
        disk'[p] = IF File(a) = Temp(a) THEN disk[p]
                   ELSE IF p = Temp(a) THEN None
                   ELSE IF p = File(a) THEN disk[Temp(a)] ELSE disk[p]
  BY RenameChanges, <1>2 DEF FilesIInv, FilesTypes
<1>4. LocksAreHeld' /\ holder' \in [Spellings -> FileCalls \cup {None}]
  BY <1>1, LockLeft DEF Working
<1>5. disk' \in [Places -> Numbers \cup {None}]
  BY <1>2, RenameChanges DEF FilesIInv, FilesTypes
<1>6. FilesTypes'
  BY <1>1, <1>4, <1>5 DEF FilesIInv, FilesTypes, FileStep
<1>7. OnePlace'
  BY <1>2, <1>3 DEF FilesIInv, OnePlace
<1>8. NumbersAreFresh'
  BY <1>1, <1>2, <1>3, FreshStays
<1>9. ASSUME OnlySpelling(a)' PROVE FilesGoOn(a)'
  <2>1. /\ OnlySpelling(a) /\ File(a)' = File(a) /\ Temp(a)' = Temp(a)
        /\ call'[a].path = call[a].path
    BY <1>1, <1>9, PathsStay
  <2>2. FilesGoOn(a)
    BY <2>1 DEF FilesIInv
  <2>3. /\ disk'[File(a)] = disk[Temp(a)] /\ disk'[Temp(a)] = None
        /\ Scrap \notin text[disk[Temp(a)]]
    BY <2>1, RenameBrings
  <2>4. Whole(a)'
    BY <1>1, <2>1, <2>3 DEF Whole
  <2>5. NobodyElses(a)'
    BY <1>1, <2>1, <2>2, <2>3
       DEF FilesGoOn, NobodyElses, FileStep, TheRest, FilesIInv, NumbersAreFresh
  <2>6. OnItsWay(a)'
    BY <1>1 DEF OnItsWay
  <2> QED
    BY <2>4, <2>5, <2>6 DEF FilesGoOn
<1>10. holder[call[a].path] \in {None, a} \/ call'[a].aborted
  BY <1>1, LockIsTheirs
<1> QED
  BY <1>1, <1>4, <1>6, <1>7, <1>8, <1>9, <1>10, EverybodyGoesOn DEF FilesIInv

LEMMA FilesStepKeeps == FilesIInv /\ [FilesNext]_fileVars => FilesIInv'
<1> SUFFICES ASSUME FilesIInv, [FilesNext]_fileVars PROVE FilesIInv'
  OBVIOUS
<1>1. ASSUME NEW a \in FileCalls,
             \/ Lock(a) \/ ReadFile(a) \/ OpenTemp(a) \/ FillTemp(a) \/ WriteFails(a)
             \/ Rename(a) \/ RenameFails(a) \/ Abort(a)
      PROVE  FilesIInv'
  BY <1>1, LockStep, ReadFileStep, OpenTempStep, FillTempStep, WriteFailsStep,
     RenameStep, RenameFailsStep, AbortStep
<1>2. CASE UNCHANGED fileVars
  <2> USE <1>2 DEF fileVars
  <2>1. FilesTypes' /\ OnePlace' /\ NumbersAreFresh'
    BY DEF FilesIInv, FilesTypes, OnePlace, NumbersAreFresh
  <2>2. LocksAreHeld'
    BY DEF FilesIInv, LocksAreHeld, Working
  <2>3. ASSUME NEW c \in FileCalls, OnlySpelling(c)' PROVE FilesGoOn(c)'
    <3>1. File(c)' = File(c) /\ Temp(c)' = Temp(c) /\ Held(File(c))' = Held(File(c))
      BY DEF File, Temp, Held
    <3>2. OnlySpelling(c)
      BY <2>3 DEF OnlySpelling, File, Temp
    <3>3. FilesGoOn(c)
      BY <3>2 DEF FilesIInv
    <3> QED
      BY <3>1, <3>3 DEF FilesGoOn, Whole, NobodyElses, OnItsWay, NewText
  <2> QED
    BY <2>1, <2>2, <2>3 DEF FilesIInv
<1> QED
  BY <1>1, <1>2 DEF FilesNext

LEMMA FilesAlways == FilesSpec => []FilesIInv
BY FilesStart, FilesStepKeeps, PTL DEF FilesSpec

(***************************************************************************)
(* Of a project file that is always spelled one way a reader never meets a *)
(* half-written text, whichever of any number of calls fail or are aborted.*)
(***************************************************************************)
THEOREM FilesStayWhole == FilesSpec => []FilesInvariant
<1>1. FilesIInv => FilesInvariant
  <2> SUFFICES ASSUME FilesIInv PROVE FilesInvariant
    OBVIOUS
  <2>1. FilesTypeOK
    <3>1. ASSUME NEW c \in FileCalls
          PROVE  /\ call[c].at \in Stages
                 /\ (\E p \in Spellings : holder[p] = c) <=> Working(c)
      <4>1. call[c] \in FileCall
        BY DEF FilesIInv, FilesTypes
      <4>2. \A p \in Spellings : holder[p] = c <=> p = call[c].path /\ Working(c)
        BY DEF FilesIInv, LocksAreHeld
      <4> QED
        BY <4>1, <4>2 DEF FileCall
    <3> QED
      BY <3>1 DEF FilesTypeOK, FilesIInv, FilesTypes, Stages, Working
  <2>2. FilesAreWhole
    BY DEF FilesAreWhole, FilesIInv, FilesGoOn, Whole, Held
  <2> QED
    BY <2>1, <2>2 DEF FilesInvariant
<1> QED
  BY <1>1, FilesAlways, PTL

(***************************************************************************)
(* Such a file changes only by the rename of a call that succeeds.         *)
(***************************************************************************)
LEMMA OnlyRenamesShow ==
  ASSUME FilesIInv, NEW a \in FileCalls, OnlySpelling(a)',
         \/ Lock(a) \/ ReadFile(a) \/ OpenTemp(a) \/ FillTemp(a) \/ WriteFails(a)
         \/ RenameFails(a) \/ Abort(a)
  PROVE  FileStep(a) /\ call'[a].at # "done" /\ Held(File(a))' = Held(File(a))
<1>1. FileStep(a) /\ (call'[a].at = "done" => call[a].at = "done" /\ call'[a].aborted)
  BY LockChanges, ReadFileChanges, OpenTempChanges, FillTempChanges, WriteFailsChanges,
     RenameFailsChanges, AbortChanges
<1>2. OnlySpelling(a) /\ File(a)' = File(a) /\ ~call'[a].aborted
  BY <1>1, PathsStay DEF OnlySpelling
<1>3. FilesGoOn(a) /\ File(a) # Temp(a)
  BY <1>2 DEF FilesIInv, OnlySpelling, Temp
<1>4. /\ File(a) \in Places /\ Temp(a) \in Places
      /\ disk[File(a)] # None => disk[File(a)] \in Numbers
  BY WhereCallsWrite DEF FilesIInv, FilesTypes
<1>5. SUFFICES /\ disk'[File(a)] = disk[File(a)]
               /\ disk[File(a)] # None => text'[disk[File(a)]] = text[disk[File(a)]]
  BY <1>1, <1>2 DEF Held
<1>6. CASE disk' = disk /\ text' = text
  BY <1>6
<1>7. CASE OpenTemp(a)
  <2>1. PICK n \in Numbers :
          /\ call[a].at = (IF call[a].tool = "edit" THEN "read" ELSE "locked")
          /\ n = IF disk[Temp(a)] = None THEN a ELSE disk[Temp(a)]
          /\ disk' = [disk EXCEPT ![Temp(a)] = n]
          /\ text' = [text EXCEPT ![n] = {Scrap}]
    BY <1>7, OpenTempChanges
  <2>2. disk[File(a)] # None => disk[File(a)] # n
    BY <1>3, <1>4, <2>1 DEF FilesIInv, OnePlace, NumbersAreFresh
  <2> QED
    BY <1>3, <1>4, <2>1, <2>2 DEF FilesIInv, FilesTypes
<1>8. CASE FillTemp(a)
  <2>1. PICK new \in Texts :
          /\ call[a].at = "open" /\ call[a].file \in Numbers
          /\ text' = [text EXCEPT ![call[a].file] = new] /\ disk' = disk
    BY <1>8, FillTempChanges
  <2>2. disk[Temp(a)] = call[a].file /\ call[a].file # None
    BY <1>3, <2>1 DEF FilesGoOn, OnItsWay, FilesIInv, NumbersAreFresh
  <2>3. disk[File(a)] # call[a].file
    BY <1>3, <1>4, <2>2 DEF FilesIInv, OnePlace
  <2> QED
    BY <1>4, <2>1, <2>3 DEF FilesIInv, FilesTypes
<1>9. CASE RenameFails(a)
  BY <1>3, <1>4, <1>9, RenameFailsChanges DEF FilesIInv, FilesTypes
<1> QED
  BY <1>6, <1>7, <1>8, <1>9, LockChanges, ReadFileChanges, WriteFailsChanges, AbortChanges

LEMMA OnlyWritersShow ==
  ASSUME FilesIInv, FilesIInv', [FilesNext]_fileVars, NEW c \in FileCalls, OnlySpelling(c)'
  PROVE  \/ Held(File(c))' = Held(File(c)) /\ (call[c].at # "done" => call[c].at' # "done")
         \/ \E d \in FileCalls :
              /\ File(d) = File(c) /\ call[d].at # "done" /\ call[d].at' = "done"
              /\ Held(File(c))' =
                   NewText(d, IF Held(File(c)) = None THEN {} ELSE Held(File(c)))
<1>1. CASE UNCHANGED fileVars
  <2>1. Held(File(c))' = Held(File(c)) /\ call'[c] = call[c]
    BY <1>1 DEF fileVars, Held, File
  <2> QED
    BY <2>1
<1>2. ASSUME NEW a \in FileCalls, FileStep(a), call[c].path # call[a].path
      PROVE  Held(File(c))' = Held(File(c)) /\ (call[c].at # "done" => call[c].at' # "done")
  BY <1>2, Elsewhere DEF FilesIInv
<1>3. ASSUME NEW a \in FileCalls, FileStep(a), call[c].path = call[a].path
      PROVE  /\ OnlySpelling(a)' /\ OnlySpelling(a) /\ ~call'[a].aborted
             /\ File(c)' = File(a)' /\ File(c) = File(a) /\ File(a)' = File(a)
             /\ c = a \/ call'[c] = call[c]
  <2>1. /\ call'[c].path = call'[a].path /\ (c = a \/ call'[c] = call[c])
        /\ File(c)' = File(a)' /\ Temp(c)' = Temp(a)' /\ File(c) = File(a)
    BY <1>3, PathsStay DEF File, Temp, FileStep, TheRest
  <2>2. OnlySpelling(a)'
    BY <2>1 DEF OnlySpelling
  <2> QED
    BY <1>3, <2>1, <2>2, PathsStay DEF OnlySpelling
<1>4. ASSUME NEW a \in FileCalls,
             \/ Lock(a) \/ ReadFile(a) \/ OpenTemp(a) \/ FillTemp(a) \/ WriteFails(a)
             \/ RenameFails(a) \/ Abort(a)
      PROVE  Held(File(c))' = Held(File(c)) /\ (call[c].at # "done" => call[c].at' # "done")
  <2>1. FileStep(a)
    BY <1>4, LockChanges, ReadFileChanges, OpenTempChanges, FillTempChanges,
       WriteFailsChanges, RenameFailsChanges, AbortChanges
  <2>2. CASE call[c].path = call[a].path
    <3>1. /\ OnlySpelling(a)' /\ File(c)' = File(a)' /\ File(c) = File(a)
          /\ c = a \/ call'[c] = call[c]
      BY <1>3, <2>1, <2>2
    <3>2. call'[a].at # "done" /\ Held(File(a))' = Held(File(a))
      BY <1>4, <3>1, OnlyRenamesShow
    <3>3. Held(File(c))' = Held(File(a))'
      BY <3>1 DEF Held
    <3> QED
      BY <3>1, <3>2, <3>3
  <2> QED
    BY <1>2, <2>1, <2>2
<1>5. ASSUME NEW a \in FileCalls, Rename(a)
      PROVE  \/ Held(File(c))' = Held(File(c)) /\ (call[c].at # "done" => call[c].at' # "done")
             \/ \E d \in FileCalls :
                  /\ File(d) = File(c) /\ call[d].at # "done" /\ call[d].at' = "done"
                  /\ Held(File(c))' =
                       NewText(d, IF Held(File(c)) = None THEN {} ELSE Held(File(c)))
  <2>1. /\ FileStep(a) /\ call[a].at = "filled"
        /\ call'[a].at = IF call[a].aborted THEN "gone" ELSE "done"
        /\ call'[a].aborted = call[a].aborted
    BY <1>5, RenameChanges
  <2>2. CASE call[c].path = call[a].path
    <3>1. /\ OnlySpelling(a) /\ ~call'[a].aborted
          /\ File(c)' = File(a) /\ File(c) = File(a)
      BY <1>3, <2>1, <2>2
    <3>2. /\ disk'[File(a)] = disk[Temp(a)] /\ disk[Temp(a)] \in Numbers /\ text' = text
          /\ text[disk[Temp(a)]] =
               NewText(a, IF Held(File(a)) = None THEN {} ELSE Held(File(a)))
      BY <1>5, <3>1, RenameBrings
    <3>3. disk[Temp(a)] # None
      BY <1>5, RenameChanges
    <3>4. Held(File(c))' = NewText(a, IF Held(File(c)) = None THEN {} ELSE Held(File(c)))
      BY <3>1, <3>2, <3>3 DEF Held
    <3> QED
      BY <2>1, <3>1, <3>4
  <2> QED
    BY <1>2, <2>1, <2>2
<1> QED
  BY <1>1, <1>4, <1>5 DEF FilesNext

\* Of two edits of a file that is always spelled one way none is lost, and a failed call
\* leaves it as it was, for every number of calls.
THEOREM EditsAreKept == FilesSpec => EditsKeepWhatIsThere
<1>1. FilesIInv /\ FilesIInv' /\ [FilesNext]_fileVars =>
        [\A c \in FileCalls : OnlySpelling(c)' =>
           \/ Held(File(c))' = Held(File(c)) /\ (call[c].at # "done" => call[c].at' # "done")
           \/ \E d \in FileCalls :
                /\ File(d) = File(c) /\ call[d].at # "done" /\ call[d].at' = "done"
                /\ Held(File(c))' =
                     NewText(d, IF Held(File(c)) = None THEN {} ELSE Held(File(c)))]_fileVars
  BY OnlyWritersShow
<1> QED
  BY <1>1, FilesAlways, PTL DEF FilesSpec, EditsKeepWhatIsThere
-----------------------------------------------------------------------------
(***************************************************************************)
(* The branch that compaction shortens.  First, sums of weights: the fold  *)
(* over a set of positions takes them out one by one, and it is all the    *)
(* same in which order.                                                    *)
(***************************************************************************)
Parts(S) == SUBSET S
Pick(S) == CHOOSE x \in S : TRUE

Summing(f, es, D) ==
  f = [T \in D |-> IF T = {} THEN 0 ELSE Weight(es[Pick(T)]) + f[T \ {Pick(T)}]]

UpTo(S, n) == {T \in Parts(S) : Cardinality(T) <= n}

LEMMA PartsHave ==
  ASSUME NEW S
  PROVE  /\ {} \in Parts(S) /\ S \in Parts(S)
         /\ \A T \in Parts(S) : \A x : T \ {x} \in Parts(S) /\ (x \in T => x \in S)
         /\ \A R : S \subseteq R => Parts(S) \subseteq Parts(R)
BY DEF Parts

LEMMA PickOne ==
  ASSUME NEW S, IsFiniteSet(S), NEW n \in Nat, NEW T \in UpTo(S, n + 1), T # {}
  PROVE  Pick(T) \in T /\ \A x \in T : T \ {x} \in UpTo(S, n)
<1>1. Pick(T) \in T
  BY DEF Pick
<1>2. IsFiniteSet(T) /\ Cardinality(T) \in Nat /\ Cardinality(T) <= n + 1 /\ T \in Parts(S)
  BY FS_Subset, FS_CardinalityType DEF UpTo, Parts
<1>3. ASSUME NEW x \in T PROVE T \ {x} \in UpTo(S, n)
  <2>1. Cardinality(T \ {x}) = Cardinality(T) - 1
    BY <1>2, FS_RemoveElement
  <2> QED
    BY <1>2, <2>1, PartsHave DEF UpTo
<1> QED
  BY <1>1, <1>3

LEMMA UpToAll ==
  ASSUME NEW S, IsFiniteSet(S)
  PROVE  Cardinality(S) \in Nat /\ UpTo(S, Cardinality(S)) = Parts(S) /\ UpTo(S, 0) = {{}}
<1>1. Cardinality(S) \in Nat
  BY FS_CardinalityType
<1>2. \A T \in Parts(S) : IsFiniteSet(T) /\ Cardinality(T) <= Cardinality(S) /\ Cardinality(T) \in Nat
  BY FS_Subset, FS_CardinalityType DEF Parts
<1>3. \A T \in Parts(S) : Cardinality(T) = 0 <=> T = {}
  BY <1>2, FS_EmptySet
<1>4. UpTo(S, Cardinality(S)) = Parts(S)
  BY <1>2 DEF UpTo
<1>5. \A T : T \in UpTo(S, 0) <=> T = {}
  <2>1. \A T \in Parts(S) : Cardinality(T) <= 0 <=> T = {}
    BY <1>2, <1>3
  <2> QED
    BY <2>1, PartsHave DEF UpTo
<1>6. UpTo(S, 0) = {{}}
  BY <1>5
<1> QED
  BY <1>1, <1>4, <1>6

LEMMA UpToGrows ==
  ASSUME NEW S, IsFiniteSet(S), NEW n \in Nat
  PROVE  UpTo(S, n) \subseteq UpTo(S, n + 1)
<1>1. \A T \in Parts(S) : Cardinality(T) \in Nat
  BY FS_Subset, FS_CardinalityType DEF Parts
<1> QED
  BY <1>1 DEF UpTo

LEMMA SummingExists ==
  ASSUME NEW es, NEW S, IsFiniteSet(S)
  PROVE  \E f : Summing(f, es, Parts(S))
<1> DEFINE P == {n \in Nat : \E f : Summing(f, es, UpTo(S, n))}
<1>1. 0 \in P
  <2>1. UpTo(S, 0) = {{}}
    BY UpToAll
  <2> DEFINE f == [T \in {{}} |-> 0]
  <2>2. Summing(f, es, UpTo(S, 0))
    BY <2>1 DEF Summing
  <2> QED
    BY <2>2
<1>2. ASSUME NEW n \in P PROVE n + 1 \in P
  <2>1. PICK f : Summing(f, es, UpTo(S, n))
    OBVIOUS
  <2> DEFINE g == [T \in UpTo(S, n + 1) |->
                     IF T = {} THEN 0 ELSE Weight(es[Pick(T)]) + f[T \ {Pick(T)}]]
  <2>2. \A T \in UpTo(S, n) : g[T] = f[T]
    BY <2>1, UpToGrows DEF Summing
  <2>3. \A T \in UpTo(S, n + 1) : T # {} => g[T \ {Pick(T)}] = f[T \ {Pick(T)}]
    BY <2>2, PickOne
  <2>4. \A T \in UpTo(S, n + 1) :
          g[T] = IF T = {} THEN 0 ELSE Weight(es[Pick(T)]) + g[T \ {Pick(T)}]
    BY <2>3
  <2>5. g = [T \in UpTo(S, n + 1) |-> g[T]]
    OBVIOUS
  <2> HIDE DEF g
  <2>6. Summing(g, es, UpTo(S, n + 1))
    BY <2>4, <2>5 DEF Summing
  <2> QED
    BY <2>6
<1>3. P = Nat
  <2>1. P \subseteq Nat
    OBVIOUS
  <2> HIDE DEF P
  <2> QED
    BY <1>1, <1>2, <2>1, SetInduction
<1>4. Cardinality(S) \in P /\ UpTo(S, Cardinality(S)) = Parts(S)
  BY <1>3, UpToAll
<1> QED
  BY <1>4

\* The values of the fold, for a set of positions and its subsets.
Sums(f, es, S) ==
  \A T \in Parts(S) :
    /\ f[T] \in Nat
    /\ T = {} => f[T] = 0
    /\ T # {} => f[T] = Weight(es[Pick(T)]) + f[T \ {Pick(T)}]

LEMMA SummingSums ==
  ASSUME NEW es, NEW S, IsFiniteSet(S), \A i \in S : Weight(es[i]) \in Nat,
         NEW f, Summing(f, es, Parts(S))
  PROVE  Sums(f, es, S)
<1>1. \A T \in Parts(S) : f[T] = IF T = {} THEN 0 ELSE Weight(es[Pick(T)]) + f[T \ {Pick(T)}]
  BY DEF Summing
<1> DEFINE P == {n \in Nat : \A T \in UpTo(S, n) : f[T] \in Nat}
<1>empty. f[{}] = 0
  BY <1>1, PartsHave
<1>2. 0 \in P
  <2>1. UpTo(S, 0) = {{}}
    BY UpToAll
  <2>2. \A T \in UpTo(S, 0) : f[T] = f[{}]
    BY <2>1, Zenon
  <2> QED
    BY <1>empty, <2>2
<1>3. ASSUME NEW n \in P PROVE n + 1 \in P
  <2> SUFFICES ASSUME NEW T \in UpTo(S, n + 1) PROVE f[T] \in Nat
    OBVIOUS
  <2>empty. CASE T = {}
    BY <1>empty, <2>empty
  <2> SUFFICES ASSUME T # {} PROVE f[T] \in Nat
    BY <2>empty
  <2>1. Pick(T) \in T /\ T \ {Pick(T)} \in UpTo(S, n)
    BY PickOne
  <2>2. Weight(es[Pick(T)]) \in Nat /\ f[T \ {Pick(T)}] \in Nat
    BY <2>1, PartsHave DEF UpTo
  <2>3. f[T] = Weight(es[Pick(T)]) + f[T \ {Pick(T)}]
    BY <1>1 DEF UpTo
  <2> QED
    BY <2>2, <2>3
<1>4. P = Nat
  <2>1. P \subseteq Nat
    OBVIOUS
  <2> HIDE DEF P
  <2> QED
    BY <1>2, <1>3, <2>1, SetInduction
<1>5. \A T \in Parts(S) : f[T] \in Nat
  BY <1>4, UpToAll
<1> QED
  BY <1>1, <1>5 DEF Sums

LEMMA SumsOf ==
  ASSUME NEW es, NEW S, NEW f, Sums(f, es, S), NEW T \in Parts(S)
  PROVE  /\ f[T] \in Nat
         /\ T = {} => f[T] = 0
         /\ T # {} => f[T] = Weight(es[Pick(T)]) + f[T \ {Pick(T)}]
BY DEF Sums

LEMMA WeightOfSums ==
  ASSUME NEW es, NEW S, IsFiniteSet(S), \A i \in S : Weight(es[i]) \in Nat
  PROVE  \E f : Sums(f, es, S) /\ WeightOf(es, S) = f[S]
<1> DEFINE u == CHOOSE f : Summing(f, es, Parts(S))
<1>1. Summing(u, es, Parts(S))
  BY SummingExists
<1>2. WeightOf(es, S) = u[S]
  BY Zenon DEF WeightOf, MapThenSumSet, MapThenFoldSet, Summing, Pick, Parts
<1> HIDE DEF u
<1> QED
  BY <1>1, <1>2, SummingSums

(***************************************************************************)
(* Any position can be taken out first.                                    *)
(***************************************************************************)
LEMMA SumsTakeOut ==
  ASSUME NEW es, NEW S, IsFiniteSet(S), NEW f, Sums(f, es, S),
         \A i \in S : Weight(es[i]) \in Nat
  PROVE  \A x \in S : f[S] = Weight(es[x]) + f[S \ {x}]
<1> DEFINE P == {n \in Nat : \A T \in UpTo(S, n) : \A x \in T :
                               f[T] = Weight(es[x]) + f[T \ {x}]}
<1>1. 0 \in P
  BY UpToAll
<1>2. ASSUME NEW n \in P PROVE n + 1 \in P
  <2> SUFFICES ASSUME NEW T \in UpTo(S, n + 1), NEW x \in T
               PROVE  f[T] = Weight(es[x]) + f[T \ {x}]
    OBVIOUS
  <2> DEFINE c == Pick(T)
  <2>1. c \in T /\ T \ {c} \in UpTo(S, n) /\ T \ {x} \in UpTo(S, n) /\ T \in Parts(S)
    BY PickOne DEF UpTo
  <2>2. f[T] = Weight(es[c]) + f[T \ {c}]
    BY <2>1, SumsOf
  <2> HIDE DEF c
  <2>3. CASE x = c
    BY <2>2, <2>3
  <2>4. CASE x # c
    <3>1. f[T \ {c}] = Weight(es[x]) + f[(T \ {c}) \ {x}]
      BY <2>1, <2>4
    <3>2. f[T \ {x}] = Weight(es[c]) + f[(T \ {x}) \ {c}]
      BY <2>1, <2>4
    <3>3. (T \ {x}) \ {c} = (T \ {c}) \ {x} /\ (T \ {c}) \ {x} \in Parts(S)
      BY <2>1, PartsHave
    <3>4. f[(T \ {c}) \ {x}] \in Nat
      BY <3>3, SumsOf
    <3>5. Weight(es[x]) \in Nat /\ Weight(es[c]) \in Nat
      BY <2>1, PartsHave
    <3>6. f[T \ {x}] = Weight(es[c]) + f[(T \ {c}) \ {x}]
      BY <3>2, <3>3
    <3> QED
      BY <2>2, <3>1, <3>4, <3>5, <3>6
  <2> QED
    BY <2>3, <2>4
<1>3. P = Nat
  <2>1. P \subseteq Nat
    OBVIOUS
  <2> HIDE DEF P
  <2> QED
    BY <1>1, <1>2, <2>1, SetInduction
<1>4. S \in UpTo(S, Cardinality(S)) /\ Cardinality(S) \in P
  BY <1>3, UpToAll, PartsHave
<1> QED
  BY <1>4

(***************************************************************************)
(* What is at other positions does not count.                              *)
(***************************************************************************)
LEMMA SumsAgree ==
  ASSUME NEW es, NEW more, NEW S, IsFiniteSet(S), NEW R, S \subseteq R,
         NEW f, Sums(f, es, S), NEW g, Sums(g, more, R),
         \A i \in S : es[i] = more[i]
  PROVE  f[S] = g[S]
<1> DEFINE P == {n \in Nat : \A T \in UpTo(S, n) : f[T] = g[T]}
<1>empty. f[{}] = 0 /\ g[{}] = 0
  <2>1. {} \in Parts(S) /\ {} \in Parts(R)
    BY PartsHave
  <2>2. \A T \in Parts(S) : T = {} => f[T] = 0
    BY DEF Sums
  <2>3. \A T \in Parts(R) : T = {} => g[T] = 0
    BY DEF Sums
  <2> QED
    BY <2>1, <2>2, <2>3
<1>1. 0 \in P
  <2>1. UpTo(S, 0) = {{}}
    BY UpToAll
  <2> QED
    BY <1>empty, <2>1
<1>2. ASSUME NEW n \in P PROVE n + 1 \in P
  <2>1. n \in Nat /\ \A T \in UpTo(S, n) : f[T] = g[T]
    OBVIOUS
  <2>2. ASSUME NEW T \in UpTo(S, n + 1), T # {} PROVE f[T] = g[T]
    <3>1. Pick(T) \in T /\ T \ {Pick(T)} \in UpTo(S, n) /\ T \in Parts(S) /\ T \in Parts(R)
      BY <2>1, <2>2, PickOne, PartsHave DEF UpTo
    <3>2. /\ f[T] = Weight(es[Pick(T)]) + f[T \ {Pick(T)}]
          /\ g[T] = Weight(more[Pick(T)]) + g[T \ {Pick(T)}]
      BY <2>2, <3>1, SumsOf
    <3>3. f[T \ {Pick(T)}] = g[T \ {Pick(T)}]
      BY <2>1, <3>1
    <3>4. es[Pick(T)] = more[Pick(T)]
      BY <3>1, PartsHave
    <3> QED
      BY <3>2, <3>3, <3>4, Zenon
  <2>3. \A T \in UpTo(S, n + 1) : f[T] = g[T]
    BY <1>empty, <2>2
  <2> QED
    BY <2>1, <2>3
<1>3. P = Nat
  <2>1. P \subseteq Nat
    OBVIOUS
  <2> HIDE DEF P
  <2> QED
    BY <1>1, <1>2, <2>1, SetInduction
<1>4. S \in UpTo(S, Cardinality(S)) /\ Cardinality(S) \in P
  BY <1>3, UpToAll, PartsHave
<1> QED
  BY <1>4

(***************************************************************************)
(* The weight of a set of positions: a number, 0 for none, and what one of *)
(* them weighs beside the others.                                          *)
(***************************************************************************)
LEMMA WeightOfParts ==
  ASSUME NEW es, NEW S, IsFiniteSet(S), \A i \in S : Weight(es[i]) \in Nat
  PROVE  /\ WeightOf(es, S) \in Nat
         /\ S = {} => WeightOf(es, S) = 0
         /\ \A x \in S : WeightOf(es, S) = Weight(es[x]) + WeightOf(es, S \ {x})
<1>1. PICK f : Sums(f, es, S) /\ WeightOf(es, S) = f[S]
  BY WeightOfSums
<1>2. WeightOf(es, S) \in Nat /\ (S = {} => WeightOf(es, S) = 0)
  <2>1. S \in Parts(S)
    BY PartsHave
  <2> QED
    BY <1>1, <2>1, SumsOf, Zenon
<1>3. ASSUME NEW x \in S PROVE WeightOf(es, S) = Weight(es[x]) + WeightOf(es, S \ {x})
  <2>1. IsFiniteSet(S \ {x})
    BY FS_RemoveElement
  <2>2. PICK g : Sums(g, es, S \ {x}) /\ WeightOf(es, S \ {x}) = g[S \ {x}]
    BY <2>1, WeightOfSums
  <2>3. g[S \ {x}] = f[S \ {x}]
    BY <1>1, <2>1, <2>2, SumsAgree
  <2>4. f[S] = Weight(es[x]) + f[S \ {x}]
    BY <1>1, SumsTakeOut
  <2> QED
    BY <1>1, <2>2, <2>3, <2>4
<1> QED
  BY <1>2, <1>3

LEMMA WeightOfAgree ==
  ASSUME NEW es, NEW more, NEW S, IsFiniteSet(S), \A i \in S : Weight(es[i]) \in Nat,
         \A i \in S : es[i] = more[i]
  PROVE  WeightOf(es, S) = WeightOf(more, S)
<1>1. PICK f : Sums(f, es, S) /\ WeightOf(es, S) = f[S]
  BY WeightOfSums
<1>2. PICK g : Sums(g, more, S) /\ WeightOf(more, S) = g[S]
  BY WeightOfSums
<1> QED
  BY <1>1, <1>2, SumsAgree

(***************************************************************************)
(* The weight of a tail, and how it grows with the branch.                 *)
(***************************************************************************)
LEMMA TailIsFinite ==
  ASSUME NEW es \in Seq(Entry), NEW i \in Nat \ {0}
  PROVE  IsFiniteSet(i..Len(es)) /\ \A j \in i..Len(es) : Weight(es[j]) \in Nat
<1>1. Len(es) \in Nat
  OBVIOUS
<1>2. IsFiniteSet(i..Len(es))
  BY <1>1, FS_Interval
<1>3. \A j \in i..Len(es) : es[j] \in Entry
  BY <1>1
<1> QED
  BY <1>2, <1>3, HistoryAssumption

LEMMA TailWeightParts ==
  ASSUME NEW es \in Seq(Entry), NEW i \in Nat \ {0}
  PROVE  /\ TailWeight(es, i) \in Nat
         /\ i \in 1..Len(es) => /\ Weight(es[i]) \in Nat
                                /\ TailWeight(es, i) = Weight(es[i]) + TailWeight(es, i + 1)
<1>1. IsFiniteSet(i..Len(es)) /\ \A j \in i..Len(es) : Weight(es[j]) \in Nat
  BY TailIsFinite
<1>2. WeightOf(es, i..Len(es)) \in Nat
  BY <1>1, WeightOfParts
<1>3. ASSUME i \in 1..Len(es)
      PROVE  /\ Weight(es[i]) \in Nat
             /\ WeightOf(es, i..Len(es)) = Weight(es[i]) + WeightOf(es, (i + 1)..Len(es))
  <2>1. i \in i..Len(es) /\ (i..Len(es)) \ {i} = (i + 1)..Len(es)
    BY <1>3
  <2> QED
    BY <1>1, <2>1, WeightOfParts, SMTT(30)
<1> QED
  BY <1>2, <1>3 DEF TailWeight

LEMMA LongerTailsWeighMore ==
  ASSUME NEW es \in Seq(Entry), NEW i \in Nat \ {0}, NEW j \in Nat, i <= j, j <= Len(es) + 1
  PROVE  TailWeight(es, i) >= TailWeight(es, j)
<1> DEFINE P == {d \in Nat : i + d <= Len(es) + 1 => TailWeight(es, i) >= TailWeight(es, i + d)}
<1>0. Len(es) \in Nat
  OBVIOUS
<1>1. 0 \in P
  BY TailWeightParts
<1>2. ASSUME NEW d \in P PROVE d + 1 \in P
  <2> SUFFICES ASSUME i + (d + 1) <= Len(es) + 1
               PROVE  TailWeight(es, i) >= TailWeight(es, i + (d + 1))
    OBVIOUS
  <2>1. TailWeight(es, i) >= TailWeight(es, i + d)
    BY <1>0
  <2>2. i + d \in Nat \ {0} /\ i + d \in 1..Len(es) /\ (i + d) + 1 = i + (d + 1)
    BY <1>0
  <2>3. /\ Weight(es[i + d]) \in Nat
        /\ TailWeight(es, i + d) = Weight(es[i + d]) + TailWeight(es, i + (d + 1))
    BY <2>2, TailWeightParts
  <2>4. TailWeight(es, i) \in Nat /\ TailWeight(es, i + (d + 1)) \in Nat
    BY TailWeightParts
  <2> QED
    BY <2>1, <2>3, <2>4
<1>3. P = Nat
  <2>1. P \subseteq Nat
    OBVIOUS
  <2> HIDE DEF P
  <2> QED
    BY <1>1, <1>2, <2>1, SetInduction
<1>4. j - i \in Nat /\ i + (j - i) = j
  OBVIOUS
<1>5. j - i \in P
  BY <1>3, <1>4
<1> QED
  BY <1>0, <1>4, <1>5

LEMMA WithoutLast ==
  ASSUME NEW i \in Nat, NEW n \in Nat, NEW m, m = n + 1
  PROVE  (i..m) \ {m} = i..n
OBVIOUS

LEMMA TailsGrow ==
  ASSUME NEW es \in Seq(Entry), NEW more \in Seq(Entry), NEW i \in 1..Len(es)
  PROVE  TailWeight(es \o more, i) >= TailWeight(es, i)
<1> DEFINE P == {s \in Seq(Entry) : TailWeight(es \o s, i) >= TailWeight(es, i)}
<1>1. <<>> \in P
  <2>1. es \o <<>> = es /\ <<>> \in Seq(Entry)
    OBVIOUS
  <2>2. TailWeight(es, i) \in Nat
    BY TailWeightParts
  <2> QED
    BY <2>1, <2>2
<1>2. ASSUME NEW s \in P, NEW e \in Entry PROVE Append(s, e) \in P
  <2> DEFINE t == es \o s
             u == es \o Append(s, e)
  <2>1. /\ t \in Seq(Entry) /\ u \in Seq(Entry) /\ Len(u) = Len(t) + 1
        /\ Len(t) \in Nat /\ i \in Nat \ {0} /\ i <= Len(t)
        /\ \A j \in 1..Len(t) : u[j] = t[j]
    OBVIOUS
  <2>2. TailWeight(t, i) >= TailWeight(es, i)
    OBVIOUS
  <2> HIDE DEF t, u
  <2>3. /\ IsFiniteSet(i..Len(t)) /\ \A j \in i..Len(t) : Weight(t[j]) \in Nat
        /\ IsFiniteSet(i..Len(u)) /\ \A j \in i..Len(u) : Weight(u[j]) \in Nat
    BY <2>1, TailIsFinite
  <2>4. WeightOf(t, i..Len(t)) = WeightOf(u, i..Len(t))
    <3>1. \A j \in i..Len(t) : t[j] = u[j]
      BY <2>1
    <3> QED
      BY <2>3, <3>1, WeightOfAgree
  <2>5. WeightOf(u, i..Len(u)) = Weight(u[Len(u)]) + WeightOf(u, i..Len(t))
    <3>1. Len(u) \in i..Len(u)
      BY <2>1
    <3>3. (i..Len(u)) \ {Len(u)} = i..Len(t)
      BY <2>1, WithoutLast
    <3>4. WeightOf(u, i..Len(u)) = Weight(u[Len(u)]) + WeightOf(u, (i..Len(u)) \ {Len(u)})
      BY <2>3, <3>1, WeightOfParts, Zenon
    <3> QED
      BY <3>3, <3>4, Zenon
  <2>6. /\ Weight(u[Len(u)]) \in Nat /\ WeightOf(t, i..Len(t)) \in Nat
        /\ TailWeight(es, i) \in Nat
    <3>1. Len(u) \in i..Len(u)
      BY <2>1
    <3>2. WeightOf(t, i..Len(t)) \in Nat
      BY <2>3, WeightOfParts
    <3>3. TailWeight(es, i) \in Nat
      BY <2>1, TailWeightParts
    <3> QED
      BY <2>3, <3>1, <3>2, <3>3
  <2>7. TailWeight(u, i) >= TailWeight(es, i)
    BY <2>2, <2>4, <2>5, <2>6 DEF TailWeight
  <2> QED
    BY <2>7 DEF u
<1>3. P = Seq(Entry)
  <2>1. P \subseteq Seq(Entry)
    OBVIOUS
  <2> HIDE DEF P
  <2> QED
    BY <1>1, <1>2, <2>1, SequenceInduction
<1> QED
  BY <1>3

(***************************************************************************)
(* The branch: where a cut is planned, and what a growing branch keeps.    *)
(***************************************************************************)
LEMMA KeepTokensType == KeepTokens \in Nat
<1> DEFINE a == IF Threshold = 0 THEN 0 ELSE Threshold - 1
<1>1. a \in Nat /\ Target \in Nat
  BY TriggerAssumption
<1> HIDE DEF a
<1>2. \E x \in {Target, a} : \A y \in {Target, a} : x <= y
  BY <1>1
<1>3. Min({Target, a}) \in {Target, a}
  BY <1>2 DEF Min
<1> QED
  BY <1>1, <1>3 DEF KeepTokens, a

\* The greatest of some positions of a branch.
LEMMA GreatestPosition ==
  ASSUME NEW n \in Nat, NEW T \in SUBSET (1..n), T # {}
  PROVE  Max(T) \in T /\ \A m \in T : Max(T) >= m
<1>1. T \in SUBSET Nat /\ \A m \in T : m <= n
  OBVIOUS
<1>2. \E x \in T : \A m \in T : x >= m
  BY <1>1, GreatestMember
<1> QED
  BY <1>2 DEF Max

LEMMA PlanCuts ==
  ASSUME NEW es \in Seq(Entry), NEW used, NEW cut, cut = Plan(es, used), cut # 0,
         NEW raw, raw = Max(HeavyTails(es))
  PROVE  /\ CutWell(es, cut)
         /\ raw \in cut..Len(es)
         /\ raw = Len(es) \/ TailWeight(es, raw + 1) < KeepTokens
         /\ \A i \in (cut + 1)..raw : InExchange(es, i)
         /\ \A i \in 1..raw : ~InExchange(es, i) => cut >= i
         /\ \A i \in HeavyTails(es) : raw >= i
<1> DEFINE heavy == HeavyTails(es)
           safe  == {i \in 1..raw : i = 1 \/ ~InExchange(es, i)}
<1>1. heavy # {} /\ cut = Max(safe) /\ cut > 1
  BY DEF Plan, SafeCut
<1>2. Len(es) \in Nat /\ heavy \in SUBSET (1..Len(es))
  BY DEF HeavyTails
<1>3. raw \in heavy /\ \A i \in heavy : raw >= i
  BY <1>1, <1>2, GreatestPosition
<1>4. raw \in 1..Len(es) /\ TailWeight(es, raw) >= KeepTokens
  BY <1>3 DEF HeavyTails
<1>5. \A i \in 1..Len(es) : i > raw => ~(TailWeight(es, i) >= KeepTokens)
  BY <1>3, <1>4 DEF HeavyTails
<1>6. raw = Len(es) \/ TailWeight(es, raw + 1) < KeepTokens
  <2> SUFFICES ASSUME raw # Len(es) PROVE TailWeight(es, raw + 1) < KeepTokens
    OBVIOUS
  <2>1. raw + 1 \in 1..Len(es) /\ raw + 1 > raw /\ raw + 1 \in Nat \ {0}
    BY <1>2, <1>4
  <2>2. TailWeight(es, raw + 1) \in Nat /\ KeepTokens \in Nat
    BY <2>1, TailWeightParts, KeepTokensType
  <2> QED
    BY <1>5, <2>1, <2>2
<1> HIDE DEF heavy
<1>7. safe \in SUBSET (1..raw) /\ raw \in Nat /\ 1 \in safe
  BY <1>2, <1>4
<1>8. cut \in safe /\ \A i \in safe : cut >= i
  BY <1>1, <1>7, GreatestPosition
<1>9. cut \in 2..Len(es) /\ ~InExchange(es, cut) /\ raw \in cut..Len(es)
  BY <1>1, <1>2, <1>4, <1>8
<1>10. TailWeight(es, cut) >= KeepTokens
  <2>1. cut \in Nat \ {0} /\ raw \in Nat /\ raw \in Nat \ {0} /\ cut <= raw /\ raw <= Len(es) + 1
    BY <1>2, <1>4, <1>9
  <2>2. TailWeight(es, cut) >= TailWeight(es, raw)
    BY <2>1, LongerTailsWeighMore
  <2>3. TailWeight(es, cut) \in Nat /\ TailWeight(es, raw) \in Nat /\ KeepTokens \in Nat
    BY <2>1, TailWeightParts, KeepTokensType
  <2> QED
    BY <1>4, <2>2, <2>3
<1>11. \A i \in (cut + 1)..raw : InExchange(es, i)
  BY <1>4, <1>8, <1>9
<1>12. \A i \in 1..raw : ~InExchange(es, i) => cut >= i
  BY <1>8
<1> HIDE DEF safe
<1>13. CutWell(es, cut)
  BY <1>9, <1>10 DEF CutWell
<1> QED
  BY <1>3, <1>6, <1>9, <1>11, <1>12, <1>13 DEF heavy

\* A cut stays as good as it was when the branch grows.
LEMMA CutsStayWell ==
  ASSUME NEW es \in Seq(Entry), NEW more \in Seq(Entry), Tight(more), NEW i, CutWell(es, i)
  PROVE  CutWell(es \o more, i)
<1> DEFINE v == es \o more
<1>1. /\ v \in Seq(Entry) /\ Len(v) = Len(es) + Len(more) /\ Len(es) \in Nat /\ Len(more) \in Nat
      /\ \A j \in 1..Len(es) : v[j] = es[j]
      /\ Len(more) > 0 => v[Len(es) + 1] = more[1]
  OBVIOUS
<1>2. i \in 2..Len(es) /\ i \in 1..Len(es) /\ ~InExchange(es, i) /\ TailWeight(es, i) >= KeepTokens
  BY <1>1 DEF CutWell
<1>3. TailWeight(v, i) >= KeepTokens
  <2>1. TailWeight(v, i) >= TailWeight(es, i)
    BY <1>2, TailsGrow
  <2>2. i \in Nat \ {0}
    BY <1>2
  <2>3. TailWeight(v, i) \in Nat /\ TailWeight(es, i) \in Nat /\ KeepTokens \in Nat
    BY <1>1, <2>2, TailWeightParts, KeepTokensType
  <2> QED
    BY <1>2, <2>1, <2>3
<1>4. Len(more) > 0 => more[1].kind # "result"
  <2>0. Len(more) > 0 => 1 \in 1..Len(more)
    BY <1>1
  <2>1. Len(more) > 0 => more[1] \notin Results
    <3>1. \A j \in 1..Len(more) : more[j] \in Results => j > 1
      BY DEF Tight, Behind
    <3> QED
      BY <2>0, <3>1
  <2>2. Len(more) > 0 => more[1] \in Entry
    BY <1>1
  <2> QED
    BY <2>1, <2>2 DEF Results
<1> HIDE DEF v
<1>5. ~InExchange(v, i)
  <2>1. es[i].kind # "result" /\ v[i] = es[i]
    BY <1>1, <1>2 DEF InExchange, IsKind
  <2>2. CASE i < Len(es)
    BY <1>1, <1>2, <2>1, <2>2 DEF InExchange, IsKind
  <2>3. CASE i = Len(es)
    <3>1. ~IsKind(v, i + 1, "result")
      BY <1>1, <1>4, <2>3 DEF IsKind
    <3> QED
      BY <2>1, <3>1 DEF InExchange, IsKind
  <2> QED
    BY <1>1, <1>2, <2>2, <2>3
<1>6. i \in 2..Len(v)
  BY <1>1, <1>2
<1> QED
  BY <1>3, <1>5, <1>6 DEF CutWell, v

LEMMA TightConcat ==
  ASSUME NEW es \in Seq(Entry), NEW more \in Seq(Entry), Tight(es), Tight(more)
  PROVE  Tight(es \o more)
BY BehindConcat DEF Tight

(***************************************************************************)
(* A branch that grows: by entries of which no result is without its call, *)
(* and by compactions whose cut is well.                                   *)
(***************************************************************************)
LEMMA BranchGrows ==
  ASSUME BranchIInv, NEW more \in Seq(Entry), Tight(more),
         entries' = entries \o more, Len(entries) + Len(more) <= MaxEntries,
         \A i \in 1..Len(more) : more[i].kind = "compaction" => CutWell(entries, more[i].keep),
         planned' \in {"none", "cut", "refused"}
  PROVE  BranchIInv'
<1> DEFINE v == entries \o more
<1>1. entries \in Seq(Entry) /\ Tight(entries) /\ CutsWerePlanned(entries)
  BY DEF BranchIInv, TypeOK
<1>2. /\ v \in Seq(Entry) /\ Len(v) = Len(entries) + Len(more)
      /\ Len(entries) \in Nat /\ Len(more) \in Nat
      /\ \A i \in 1..Len(entries) : v[i] = entries[i]
      /\ \A i \in 1..Len(v) : i \notin 1..Len(entries) =>
           i - Len(entries) \in 1..Len(more) /\ v[i] = more[i - Len(entries)]
  BY <1>1
<1>3. Tight(v)
  BY <1>1, TightConcat
<1> HIDE DEF v
<1>4. ASSUME NEW i \in Compactions(v)
      PROVE  v[i].keep < i /\ CutWell(v, v[i].keep)
  <2>1. i \in 1..Len(v) /\ v[i].kind = "compaction"
    BY DEF Compactions
  <2>2. v[i].keep < i /\ CutWell(entries, v[i].keep)
    <3>1. CASE i \in 1..Len(entries)
      <4>1. i \in Compactions(entries) /\ v[i] = entries[i]
        BY <1>2, <2>1, <3>1 DEF Compactions
      <4> QED
        BY <1>1, <4>1 DEF CutsWerePlanned
    <3>2. CASE i \notin 1..Len(entries)
      <4>1. CutWell(entries, v[i].keep)
        BY <1>2, <2>1, <3>2
      <4>2. v[i].keep \in 2..Len(entries)
        BY <4>1 DEF CutWell
      <4> QED
        BY <1>2, <2>1, <3>2, <4>1, <4>2
    <3> QED
      BY <3>1, <3>2
  <2>3. CutWell(v, v[i].keep)
    BY <1>1, <2>2, CutsStayWell DEF v
  <2> QED
    BY <2>2, <2>3
<1>5. CutsWerePlanned(v)
  BY <1>4 DEF CutsWerePlanned
<1>6. entries' = v
  BY DEF v
<1>7. TypeOK'
  BY <1>2, <1>6 DEF TypeOK
<1>8. Len(entries)' <= MaxEntries
  BY <1>2, <1>6
<1>9. Tight(entries)' /\ CutsWerePlanned(entries)'
  BY <1>3, <1>5, <1>6
<1> QED
  BY <1>7, <1>8, <1>9 DEF BranchIInv

LEMMA OneMore ==
  ASSUME BranchIInv, NEW e \in Entry, Tight(<<e>>), entries' = entries \o <<e>>,
         Len(entries) + 1 <= MaxEntries, e.kind = "compaction" => CutWell(entries, e.keep),
         planned' \in {"none", "cut", "refused"}
  PROVE  BranchIInv'
<1> DEFINE more == <<e>>
<1>1. more \in Seq(Entry) /\ Len(more) = 1 /\ \A i \in 1..Len(more) : more[i] = e
  OBVIOUS
<1>2. Tight(more) /\ entries' = entries \o more
  OBVIOUS
<1> HIDE DEF more
<1> QED
  BY <1>1, <1>2, BranchGrows

LEMMA EntriesAre ==
  /\ \A kind \in MessageKinds \cup {"other"}, w \in Weights \cup {0} :
       LET e == [kind |-> kind, weight |-> w] IN
         /\ e \in Entry /\ e.kind = kind
         /\ kind # "result" => Tight(<<e>>)
  /\ \A w \in Weights, keep \in 1..MaxEntries :
       LET e == [kind |-> "compaction", weight |-> w, keep |-> keep] IN
         e \in Entry /\ e.kind = "compaction" /\ e.keep = keep /\ Tight(<<e>>)
<1>1. ASSUME NEW e \in Entry, e.kind # "result" PROVE Tight(<<e>>)
  BY <1>1 DEF Tight, Behind, Results
<1>2. \A kind \in MessageKinds \cup {"other"}, w \in Weights \cup {0} :
        [kind |-> kind, weight |-> w] \in Entry
  BY DEF Entry
<1>3. \A w \in Weights, keep \in 1..MaxEntries :
        [kind |-> "compaction", weight |-> w, keep |-> keep] \in Entry
  BY DEF Entry
<1> QED
  BY <1>1, <1>2, <1>3

LEMMA BranchStep ==
  ASSUME BranchIInv, [Next]_vars
  PROVE  BranchIInv'
<1>0. entries \in Seq(Entry) /\ Len(entries) \in Nat /\ MaxEntries \in Nat /\ MaxResults \in Nat
  BY HistoryAssumption DEF BranchIInv, TypeOK
<1>1. CASE Say
  <2>1. PICK kind \in {"user", "answer"}, w \in Weights :
          entries' = Append(entries, [kind |-> kind, weight |-> w])
    BY <1>1 DEF Say, Append1
  <2> DEFINE e == [kind |-> kind, weight |-> w]
  <2>2. e \in Entry /\ e.kind = kind /\ Tight(<<e>>)
    BY EntriesAre DEF MessageKinds
  <2>3. entries' = entries \o <<e>>
    BY <1>0, <2>1, <2>2
  <2>4. planned' = "none" /\ Len(entries) + 1 <= MaxEntries
    BY <1>1 DEF Say, Room
  <2> HIDE DEF e
  <2> QED
    BY <2>2, <2>3, <2>4, OneMore
<1>2. CASE Note
  <2> DEFINE e == [kind |-> "other", weight |-> 0]
  <2>2. e \in Entry /\ e.kind = "other" /\ Tight(<<e>>)
    BY EntriesAre
  <2>3. entries' = entries \o <<e>>
    BY <1>0, <1>2, <2>2 DEF Note, Append1
  <2>4. planned' = "none" /\ Len(entries) + 1 <= MaxEntries
    BY <1>2 DEF Note, Room
  <2> HIDE DEF e
  <2> QED
    BY <2>2, <2>3, <2>4, OneMore
<1>3. CASE UseTools
  <2>1. PICK n \in 1..MaxResults, w \in Weights, r \in Weights :
          /\ Room(n + 1)
          /\ entries' = Append1(entries, "call", w)
                          \o [i \in 1..n |-> [kind |-> "result", weight |-> r]]
          /\ planned' = "none"
    BY <1>3 DEF UseTools
  <2> DEFINE c == [kind |-> "call", weight |-> w]
             s == [kind |-> "result", weight |-> r]
             more == <<c>> \o [i \in 1..n |-> s]
  <2>2. c \in Entry /\ s \in Entry /\ c.kind = "call" /\ s.kind = "result"
    BY EntriesAre DEF MessageKinds
  <2>3. entries' = Append(entries, c) \o [i \in 1..n |-> s]
    BY <2>1 DEF Append1
  <2> HIDE DEF c, s
  <2>4. n \in Nat /\ [i \in 1..n |-> s] \in Seq(Entry) /\ Len([i \in 1..n |-> s]) = n
    BY <1>0, <2>2
  <2>5. entries' = entries \o more
    BY <1>0, <2>2, <2>3, <2>4
  <2>6. /\ more \in Seq(Entry) /\ Len(more) = n + 1
        /\ more[1] = c /\ \A i \in 1..Len(more) : i # 1 => more[i] = s
    BY <2>2, <2>4
  <2> HIDE DEF more
  <2>7. Tight(more)
    <3> SUFFICES ASSUME NEW i \in 1..Len(more), more[i] \in Results
                 PROVE  i > 1 /\ <<more[i - 1], more[i]>> \in Exchange \X Entry
      BY DEF Tight, Behind
    <3>1. i # 1
      BY <2>2, <2>6 DEF Results
    <3>2. i - 1 \in 1..Len(more) /\ i > 1
      BY <2>4, <2>6, <3>1
    <3>3. more[i - 1] \in Exchange /\ more[i] \in Entry
      BY <2>2, <2>6, <3>2 DEF Exchange
    <3> QED
      BY <3>2, <3>3
  <2>8. \A i \in 1..Len(more) : more[i].kind # "compaction"
    BY <2>2, <2>6
  <2>9. Len(entries) + Len(more) <= MaxEntries
    BY <1>0, <2>1, <2>4, <2>6 DEF Room
  <2> QED
    BY <2>1, <2>5, <2>6, <2>7, <2>8, <2>9, BranchGrows
<1>4. ASSUME NEW used \in {0, Threshold}, Compact(used) PROVE BranchIInv'
  <2> DEFINE cut == Plan(entries, used)
  <2>1. CASE cut = 0
    <3>1. UNCHANGED entries /\ planned' \in {"none", "refused"}
      BY <1>4, <2>1 DEF Compact, CutFor
    <3> QED
      BY <3>1 DEF BranchIInv, TypeOK, Tight, Behind
  <2>2. CASE cut # 0
    <3>1. planned' = "cut" /\ Len(entries) + 1 <= MaxEntries
      BY <1>4, <2>2 DEF Compact, CutFor, Room
    <3>2. PICK w \in Weights :
            entries' = Append(entries, [kind |-> "compaction", weight |-> w, keep |-> cut])
      BY <1>4, <2>2 DEF Compact, CutFor
    <3> DEFINE e == [kind |-> "compaction", weight |-> w, keep |-> cut]
    <3>3. CutWell(entries, cut)
      BY <1>0, <2>2, PlanCuts
    <3>4. cut \in 1..MaxEntries
      BY <1>0, <3>1, <3>3 DEF CutWell
    <3>5. e \in Entry /\ e.kind = "compaction" /\ e.keep = cut /\ Tight(<<e>>)
      BY <3>4, EntriesAre
    <3>6. entries' = entries \o <<e>>
      BY <1>0, <3>2, <3>5
    <3> HIDE DEF e, cut
    <3> QED
      BY <3>1, <3>3, <3>5, <3>6, OneMore
  <2> QED
    BY <2>1, <2>2
<1>5. CASE UNCHANGED vars
  BY <1>5 DEF vars, BranchIInv, TypeOK, Tight, Behind
<1> QED
  BY <1>1, <1>2, <1>3, <1>4, <1>5 DEF Next

LEMMA BranchStart ==
  ASSUME Init
  PROVE  BranchIInv
<1>1. entries = <<>> /\ planned = "none" /\ MaxEntries \in Nat
  BY HistoryAssumption DEF Init
<1>2. entries \in Seq(Entry) /\ Len(entries) = 0
  BY <1>1
<1>3. Tight(entries) /\ CutsWerePlanned(entries)
  BY <1>2 DEF Tight, Behind, CutsWerePlanned, Compactions
<1> QED
  BY <1>1, <1>2, <1>3 DEF BranchIInv, TypeOK

(***************************************************************************)
(* What the invariant says of the messages the agent is given.             *)
(***************************************************************************)
LEMMA ContextStartIs ==
  ASSUME NEW es \in Seq(Entry), CutsWerePlanned(es)
  PROVE  ContextStart(es) = 1 \/ CutWell(es, ContextStart(es))
<1>1. CASE Compactions(es) = {}
  BY <1>1 DEF ContextStart
<1>2. CASE Compactions(es) # {}
  <2>1. Len(es) \in Nat /\ Compactions(es) \in SUBSET (1..Len(es))
    BY DEF Compactions
  <2>2. Max(Compactions(es)) \in Compactions(es)
    BY <1>2, <2>1, GreatestPosition
  <2>3. CutWell(es, es[Max(Compactions(es))].keep)
    BY <2>2 DEF CutsWerePlanned
  <2> QED
    BY <1>2, <2>3 DEF ContextStart
<1> QED
  BY <1>1, <1>2

LEMMA ContextIsTight ==
  ASSUME BranchIInv
  PROVE  ResultsFollowTheirCall
<1>1. entries \in Seq(Entry) /\ Len(entries) \in Nat /\ Tight(entries) /\ CutsWerePlanned(entries)
  BY DEF BranchIInv, TypeOK
<1> DEFINE start == ContextStart(entries)
           tail  == From(entries, start)
           S     == {e \in Range(tail) : IsMessage(e)}
           context == Kept(tail, S)
<1>2. start \in Nat \ {0} /\ (start <= Len(entries) => entries[start] \notin Results)
  <2>1. CASE start = 1
    <3>1. \A i \in 1..Len(entries) : entries[i] \in Results => i > 1
      BY <1>1 DEF Tight, Behind
    <3> QED
      BY <1>1, <2>1, <3>1
  <2>2. CASE CutWell(entries, start)
    BY <1>1, <2>2 DEF CutWell, InExchange, IsKind, Results
  <2> HIDE DEF start
  <2> QED
    BY <1>1, <2>1, <2>2, ContextStartIs DEF start
<1> HIDE DEF start
<1>3. Behind(tail, Results, Exchange \X Entry) /\ tail \in Seq(Entry)
  <2>1. Len(entries) \in 0..Len(entries)
    BY <1>1
  <2> QED
    BY <1>1, <1>2, <2>1, BehindPart DEF Tight, From
<1> HIDE DEF tail
<1> DEFINE X == {tail[i] : i \in 1..Len(tail)}
<1>4. tail \in Seq(X) /\ X \subseteq Entry
  BY <1>3, OverItsElements
<1>5. \A x, y \in X : x \in Results /\ <<y, x>> \in Exchange \X Entry => y \in S
  BY <1>3 DEF Exchange, IsMessage, MessageKinds, Range
<1> HIDE DEF X, S
<1>6. Behind(context, Results, Exchange \X Entry) /\ context \in Seq(Entry)
  BY <1>3, <1>4, <1>5, KeptBehind, KeptType
<1>7. ContextMessages(entries) = context
  BY DEF ContextMessages, Messages, start, tail, S
<1> HIDE DEF context
<1> SUFFICES ASSUME NEW i \in 1..Len(context), context[i].kind = "result"
             PROVE  i > 1 /\ context[i - 1].kind \in {"call", "result"}
  BY <1>7 DEF ResultsFollowTheirCall
<1>8. context[i] \in Results
  BY <1>6 DEF Results
<1>9. i > 1 /\ <<context[i - 1], context[i]>> \in Exchange \X Entry
  BY <1>6, <1>8 DEF Behind
<1> QED
  BY <1>9 DEF Exchange

(***************************************************************************)
(* However often a branch is compacted, and whatever its entries weigh, the *)
(* agent is given a result only behind its call or another result          *)
(* (CompactionEngine::adjust_to_safe_boundary).                            *)
(***************************************************************************)
THEOREM BranchesStayWhole == Spec => []BranchInvariant
<1>1. Init => BranchIInv
  BY BranchStart
<1>2. BranchIInv /\ [Next]_vars => BranchIInv'
  BY BranchStep
<1>3. BranchIInv => BranchInvariant
  BY ContextIsTight DEF BranchIInv, BranchInvariant
<1> QED
  BY <1>1, <1>2, <1>3, PTL DEF Spec

(***************************************************************************)
(* What a step does to the start of the agent's messages.                  *)
(***************************************************************************)
LEMMA LatestCut ==
  ASSUME NEW es \in Seq(Entry), NEW e \in Entry, e.kind = "compaction"
  PROVE  ContextStart(Append(es, e)) = e.keep
<1> DEFINE v == Append(es, e)
<1>1. Len(es) \in Nat /\ Len(v) = Len(es) + 1 /\ v[Len(v)] = e /\ Len(v) \in 1..Len(v)
  OBVIOUS
<1> HIDE DEF v
<1>2. Len(v) \in Compactions(v) /\ Compactions(v) \in SUBSET (1..Len(v)) /\ Len(v) \in Nat
  BY <1>1 DEF Compactions
<1>3. Max(Compactions(v)) \in Compactions(v) /\ Max(Compactions(v)) >= Len(v)
  BY <1>2, GreatestPosition
<1>4. Max(Compactions(v)) = Len(v)
  BY <1>1, <1>2, <1>3
<1> QED
  BY <1>1, <1>2, <1>4 DEF ContextStart, v

LEMMA SameCut ==
  ASSUME NEW es \in Seq(Entry), NEW more \in Seq(Entry),
         \A i \in 1..Len(more) : more[i].kind # "compaction"
  PROVE  ContextStart(es \o more) = ContextStart(es)
<1> DEFINE v == es \o more
<1>1. /\ Len(v) = Len(es) + Len(more) /\ Len(es) \in Nat /\ Len(more) \in Nat
      /\ \A i \in 1..Len(es) : v[i] = es[i]
      /\ \A i \in 1..Len(v) : i \notin 1..Len(es) =>
           i - Len(es) \in 1..Len(more) /\ v[i] = more[i - Len(es)]
  OBVIOUS
<1> HIDE DEF v
<1>2. \A i : i \in Compactions(v) <=> i \in Compactions(es)
  BY <1>1 DEF Compactions
<1>3. Compactions(v) = Compactions(es)
  BY <1>2
<1>4. CASE Compactions(es) = {}
  BY <1>3, <1>4 DEF ContextStart, v
<1>5. CASE Compactions(es) # {}
  <2>1. Compactions(es) \in SUBSET (1..Len(es))
    BY DEF Compactions
  <2>2. Max(Compactions(es)) \in 1..Len(es)
    BY <1>1, <1>5, <2>1, GreatestPosition
  <2>3. v[Max(Compactions(es))] = es[Max(Compactions(es))]
    BY <1>1, <2>2
  <2> QED
    BY <1>3, <1>5, <2>3 DEF ContextStart, v
<1> QED
  BY <1>4, <1>5

LEMMA CutStep ==
  ASSUME BranchIInv, Next
  PROVE  /\ ContextStart(entries') >= ContextStart(entries)
         /\ planned' = "cut" =>
              LET cut == ContextStart(entries') IN
                /\ TailWeight(entries, cut) >= KeepTokens
                /\ \E raw \in cut..Len(entries) :
                     /\ TailWeight(entries, raw + 1) < KeepTokens \/ raw = Len(entries)
                     /\ \A i \in cut + 1..raw : entries[i].kind \in {"call", "result"}
<1>0. entries \in Seq(Entry) /\ Len(entries) \in Nat /\ CutsWerePlanned(entries)
  BY DEF BranchIInv, TypeOK
<1>1. ContextStart(entries) \in Nat
  BY <1>0, ContextStartIs DEF CutWell
<1>2. ASSUME NEW more \in Seq(Entry), entries' = entries \o more, planned' = "none",
             \A i \in 1..Len(more) : more[i].kind # "compaction"
      PROVE  ContextStart(entries') >= ContextStart(entries) /\ planned' # "cut"
  <2>1. ContextStart(entries') = ContextStart(entries)
    BY <1>0, <1>2, SameCut
  <2> QED
    BY <1>1, <1>2, <2>1
<1>3. CASE Say \/ Note \/ UseTools
  <2> SUFFICES \E more \in Seq(Entry) :
                 /\ entries' = entries \o more /\ planned' = "none"
                 /\ \A i \in 1..Len(more) : more[i].kind # "compaction"
    BY <1>2
  <2>1. ASSUME NEW kind \in {"user", "answer", "other"}, NEW w \in Weights \cup {0},
               entries' = Append1(entries, kind, w)
        PROVE  \E more \in Seq(Entry) :
                 /\ entries' = entries \o more
                 /\ \A i \in 1..Len(more) : more[i].kind # "compaction"
    <3> DEFINE e == [kind |-> kind, weight |-> w]
    <3>1. e \in Entry /\ e.kind # "compaction"
      BY EntriesAre DEF MessageKinds
    <3>2. entries' = Append(entries, e)
      BY <2>1 DEF Append1
    <3> HIDE DEF e
    <3>3. <<e>> \in Seq(Entry) /\ entries' = entries \o <<e>>
      BY <1>0, <3>1, <3>2
    <3>4. \A i \in 1..Len(<<e>>) : <<e>>[i] = e
      BY <3>1
    <3> QED
      BY <3>1, <3>3, <3>4
  <2>2. CASE Say
    <3>1. planned' = "none"
      BY <2>2 DEF Say
    <3>2. PICK kind \in {"user", "answer"}, w \in Weights : entries' = Append1(entries, kind, w)
      BY <2>2 DEF Say
    <3> QED
      BY <2>1, <3>1, <3>2
  <2>3. CASE Note
    <3>1. planned' = "none" /\ entries' = Append1(entries, "other", 0)
      BY <2>3 DEF Note
    <3> QED
      BY <2>1, <3>1
  <2>4. CASE UseTools
    <3>1. PICK n \in 1..MaxResults, w \in Weights, r \in Weights :
            /\ entries' = Append1(entries, "call", w)
                            \o [i \in 1..n |-> [kind |-> "result", weight |-> r]]
            /\ planned' = "none"
      BY <2>4 DEF UseTools
    <3> DEFINE c == [kind |-> "call", weight |-> w]
               s == [kind |-> "result", weight |-> r]
               rest == [i \in 1..n |-> s]
    <3>2. c \in Entry /\ s \in Entry /\ c.kind = "call" /\ s.kind = "result"
      BY EntriesAre DEF MessageKinds
    <3>3. entries' = Append(entries, c) \o rest
      BY <3>1 DEF Append1
    <3> HIDE DEF c, s
    <3>4. n \in Nat /\ rest \in Seq(Entry) /\ Len(rest) = n /\ \A i \in 1..n : rest[i] = s
      BY <3>2, HistoryAssumption
    <3> HIDE DEF rest
    <3>5. entries' = entries \o (<<c>> \o rest)
      BY <1>0, <3>2, <3>3, <3>4
    <3>6. /\ <<c>> \o rest \in Seq(Entry)
          /\ \A i \in 1..Len(<<c>> \o rest) : (<<c>> \o rest)[i] \in {c, s}
      BY <3>2, <3>4
    <3> QED
      BY <3>1, <3>2, <3>5, <3>6
  <2> QED
    BY <1>3, <2>2, <2>3, <2>4
<1>4. ASSUME NEW used \in {0, Threshold}, Compact(used), Plan(entries, used) = 0
      PROVE  UNCHANGED entries /\ planned' # "cut"
  BY <1>4 DEF Compact, CutFor
<1>5. ASSUME NEW used \in {0, Threshold}, Compact(used), Plan(entries, used) # 0
      PROVE  /\ ContextStart(entries') >= ContextStart(entries)
             /\ LET cut == ContextStart(entries') IN
                  /\ TailWeight(entries, cut) >= KeepTokens
                  /\ \E raw \in cut..Len(entries) :
                       /\ TailWeight(entries, raw + 1) < KeepTokens \/ raw = Len(entries)
                       /\ \A i \in cut + 1..raw : entries[i].kind \in {"call", "result"}
  <2> DEFINE cut == Plan(entries, used)
             raw == Max(HeavyTails(entries))
  <2>1. PICK w \in Weights :
          entries' = Append(entries, [kind |-> "compaction", weight |-> w, keep |-> cut])
    BY <1>5 DEF Compact, CutFor
  <2>2. /\ CutWell(entries, cut)
        /\ raw \in cut..Len(entries)
        /\ raw = Len(entries) \/ TailWeight(entries, raw + 1) < KeepTokens
        /\ \A i \in (cut + 1)..raw : InExchange(entries, i)
        /\ \A i \in 1..raw : ~InExchange(entries, i) => cut >= i
        /\ \A i \in HeavyTails(entries) : raw >= i
    BY <1>0, <1>5, PlanCuts
  <2>3. cut \in 1..MaxEntries
    BY <1>0, <2>2, HistoryAssumption DEF CutWell, BranchIInv
  <2> HIDE DEF cut, raw
  <2>4. ContextStart(entries') = cut
    BY <1>0, <2>1, <2>3, LatestCut, EntriesAre
  <2>5. cut >= ContextStart(entries)
    <3>1. CASE ContextStart(entries) = 1
      BY <2>3, <3>1
    <3>2. CASE CutWell(entries, ContextStart(entries))
      <4>1. ContextStart(entries) \in 1..Len(entries) /\ ContextStart(entries) \in HeavyTails(entries)
        BY <1>0, <3>2 DEF CutWell, HeavyTails
      <4>2. ContextStart(entries) \in 1..raw
        BY <2>2, <2>3, <4>1
      <4> QED
        BY <2>2, <3>2, <4>2 DEF CutWell
    <3> QED
      BY <1>0, <3>1, <3>2, ContextStartIs
  <2>6. TailWeight(entries, cut) >= KeepTokens
    BY <2>2 DEF CutWell
  <2>7. \A i \in cut + 1..raw : entries[i].kind \in {"call", "result"}
    BY <2>2 DEF InExchange, IsKind
  <2> QED
    BY <2>2, <2>4, <2>5, <2>6, <2>7
<1> QED
  BY <1>1, <1>3, <1>4, <1>5, <1>2 DEF Next

(***************************************************************************)
(* A compaction moves the start of the agent's messages only forward, and  *)
(* keeps the tokens it is told to and beyond them one entry and the        *)
(* exchanges before it (CompactionEngine::prepare_with_context).           *)
(***************************************************************************)
THEOREM CutsGoForward == Spec => CutsAreRight
<1>1. Init => BranchIInv
  BY BranchStart
<1>2. BranchIInv /\ [Next]_vars => BranchIInv'
  BY BranchStep
<1>3. BranchIInv /\ [Next]_vars => [ContextStart(entries') >= ContextStart(entries)]_vars
  BY CutStep
<1>4. BranchIInv /\ [Next]_vars =>
        [planned' = "cut" =>
           LET cut == ContextStart(entries') IN
             /\ TailWeight(entries, cut) >= KeepTokens
             /\ \E raw \in cut..Len(entries) :
                  /\ TailWeight(entries, raw + 1) < KeepTokens \/ raw = Len(entries)
                  /\ \A i \in cut + 1..raw : entries[i].kind \in {"call", "result"}]_vars
  BY CutStep
<1>5. Spec => CompactionOnlyForgets
  BY <1>1, <1>2, <1>3, PTL DEF Spec, CompactionOnlyForgets
<1>6. Spec => KeptTailFits
  BY <1>1, <1>2, <1>4, PTL DEF Spec, KeptTailFits
<1> QED
  BY <1>5, <1>6 DEF CutsAreRight
-----------------------------------------------------------------------------
\* f has the branches of ms up to entry N, each behind that of its parent.
Climbing(f, ms, known, N) ==
  f = [i \in 0..N |-> IF i \in known THEN Append(f[ms[i].parent], i) ELSE <<>>]
Climbs(f, ms, known, N) ==
  \A i \in 0..N : f[i] = IF i \in known THEN Append(f[ms[i].parent], i) ELSE <<>>

LEMMA ParentsAre ==
  ASSUME NEW ms, AreMade(ms)
  PROVE  /\ Len(ms) \in Nat
         /\ \A i \in 1..Len(ms) : /\ ms[i] \in Made /\ ms[i].parent \in 0..(i - 1)
<1>1. ms \in Seq(Made) /\ \A i \in 1..Len(ms) : ms[i].parent < i
  BY DEF AreMade
<1>2. \A i \in 1..Len(ms) : ms[i] \in Made
  BY <1>1
<1>3. \A i \in 1..Len(ms) : ms[i].parent \in Nat
  BY <1>2 DEF Made
<1> QED
  BY <1>1, <1>2, <1>3

(***************************************************************************)
(* There is such a function, for every number of entries.                  *)
(***************************************************************************)
LEMMA ClimbingExists ==
  ASSUME NEW ms, AreMade(ms), NEW known \in SUBSET (1..Len(ms))
  PROVE  \A N \in Nat : N <= Len(ms) => \E f : Climbing(f, ms, known, N)
<1> DEFINE P == {N \in Nat : N <= Len(ms) => \E f : Climbing(f, ms, known, N)}
<1>1. 0 \in P
  <2>1. Climbing([i \in 0..0 |-> <<>>], ms, known, 0)
    BY DEF Climbing
  <2> QED
    BY <2>1
<1>2. ASSUME NEW N \in P PROVE N + 1 \in P
  <2>1. CASE N + 1 <= Len(ms)
    <3>1. PICK f : Climbing(f, ms, known, N)
      BY <2>1, ParentsAre
    <3> DEFINE g == [i \in 0..(N + 1) |->
                       IF i <= N THEN f[i]
                       ELSE IF i \in known THEN Append(f[ms[i].parent], i) ELSE <<>>]
    <3>2. \A i \in 0..N : f[i] = IF i \in known THEN Append(f[ms[i].parent], i) ELSE <<>>
      BY <3>1 DEF Climbing
    <3>3. \A i \in 1..(N + 1) : ms[i].parent \in 0..N
      BY <2>1, ParentsAre
    <3>4. \A i \in 1..(N + 1) : g[ms[i].parent] = f[ms[i].parent]
      BY <3>3
    <3>5. \A i \in 0..(N + 1) :
            g[i] = IF i \in known THEN Append(g[ms[i].parent], i) ELSE <<>>
      <4> SUFFICES ASSUME NEW i \in 0..(N + 1)
                   PROVE  g[i] = IF i \in known THEN Append(g[ms[i].parent], i) ELSE <<>>
        OBVIOUS
      <4>1. i \in known => i \in 1..(N + 1)
        OBVIOUS
      <4>2. g[i] = IF i \in known THEN Append(f[ms[i].parent], i) ELSE <<>>
        BY <3>2
      <4> HIDE DEF g
      <4> QED
        BY <3>4, <4>1, <4>2
    <3>6. g = [i \in 0..(N + 1) |-> g[i]]
      OBVIOUS
    <3> HIDE DEF g
    <3>7. Climbing(g, ms, known, N + 1)
      BY <3>5, <3>6 DEF Climbing
    <3> QED
      BY <3>7
  <2> QED
    BY <2>1
<1>3. P = Nat
  <2>1. P \subseteq Nat
    OBVIOUS
  <2> HIDE DEF P
  <2> QED
    BY <1>1, <1>2, <2>1, SetInduction
<1> QED
  BY <1>3

(***************************************************************************)
(* A branch is a value of it.                                              *)
(***************************************************************************)
LEMMA BranchClimbs ==
  ASSUME NEW ms, AreMade(ms), NEW known \in SUBSET (1..Len(ms))
  PROVE  \E f : /\ Climbs(f, ms, known, Len(ms))
                /\ \A leaf : BranchOf(ms, known, leaf) = f[leaf]
<1> DEFINE u == CHOOSE f : Climbing(f, ms, known, Len(ms))
<1>1. Climbing(u, ms, known, Len(ms))
  <2>1. Len(ms) \in Nat /\ Len(ms) <= Len(ms)
    BY ParentsAre
  <2>2. \E f : Climbing(f, ms, known, Len(ms))
    BY <2>1, ClimbingExists
  <2> QED
    BY <2>2
<1>2. \A leaf : BranchOf(ms, known, leaf) = u[leaf]
  BY Zenon DEF BranchOf, Climbing
<1> HIDE DEF u
<1>3. Climbs(u, ms, known, Len(ms))
  BY <1>1 DEF Climbing, Climbs
<1> QED
  BY <1>2, <1>3

(***************************************************************************)
(* The branch of an entry is the same among more entries, made later or    *)
(* known beside those of the branch.                                       *)
(***************************************************************************)
LEMMA SameBranch ==
  ASSUME NEW ms, AreMade(ms), NEW ns, AreMade(ns), Len(ms) <= Len(ns),
         \A i \in 1..Len(ms) : ns[i] = ms[i],
         NEW known \in SUBSET (1..Len(ms)), Rooted(ms, known),
         NEW more \in SUBSET (1..Len(ns)), known \subseteq more,
         NEW leaf \in known \cup {0}
  PROVE  BranchOf(ns, more, leaf) = BranchOf(ms, known, leaf)
<1>1. PICK f : /\ Climbs(f, ms, known, Len(ms))
               /\ \A i : BranchOf(ms, known, i) = f[i]
  BY BranchClimbs
<1>2. PICK g : /\ Climbs(g, ns, more, Len(ns))
               /\ \A i : BranchOf(ns, more, i) = g[i]
  BY BranchClimbs
<1> DEFINE P == {n \in Nat : \A i \in known \cup {0} : i <= n => f[i] = g[i]}
<1>3. Len(ms) \in Nat /\ Len(ns) \in Nat
  BY ParentsAre
<1>4. f[0] = <<>> /\ g[0] = <<>>
  BY <1>1, <1>2, <1>3 DEF Climbs
<1>5. ASSUME NEW i \in known
      PROVE  /\ f[i] = Append(f[ms[i].parent], i) /\ g[i] = Append(g[ms[i].parent], i)
             /\ ms[i].parent \in known \cup {0} /\ ms[i].parent \in 0..(i - 1)
  <2>1. ms[i].parent \in known \cup {0} /\ ms[i].parent \in 0..(i - 1)
    BY ParentsAre DEF Rooted
  <2>2. i \in 0..Len(ms) /\ i \in 0..Len(ns) /\ i \in more /\ ns[i] = ms[i]
    BY <1>3
  <2>3. f[i] = Append(f[ms[i].parent], i)
    BY <1>1, <2>2, Zenon DEF Climbs
  <2>4. g[i] = Append(g[ns[i].parent], i)
    BY <1>2, <2>2, Zenon DEF Climbs
  <2>5. g[i] = Append(g[ms[i].parent], i)
    BY <2>2, <2>4
  <2> QED
    BY <2>1, <2>3, <2>5
<1>6. 0 \in P
  BY <1>4
<1>7. ASSUME NEW n \in P PROVE n + 1 \in P
  <2>1. n \in Nat /\ \A i \in known \cup {0} : i <= n => f[i] = g[i]
    OBVIOUS
  <2>2. ASSUME NEW i \in known \cup {0}, i <= n + 1 PROVE f[i] = g[i]
    <3>1. CASE i = 0
      BY <1>4, <3>1
    <3>2. CASE i \in known
      <4>1. /\ f[i] = Append(f[ms[i].parent], i) /\ g[i] = Append(g[ms[i].parent], i)
            /\ ms[i].parent \in known \cup {0} /\ ms[i].parent \in 0..(i - 1)
        BY <1>5, <3>2
      <4>2. i \in Nat /\ ms[i].parent <= n
        BY <1>3, <2>1, <2>2, <3>2, <4>1
      <4>3. f[ms[i].parent] = g[ms[i].parent]
        BY <2>1, <4>1, <4>2
      <4> QED
        BY <4>1, <4>3, Zenon
    <3> QED
      BY <2>2, <3>1, <3>2
  <2>3. \A i \in known \cup {0} : i <= n + 1 => f[i] = g[i]
    BY <2>2
  <2> QED
    BY <2>1, <2>3
<1>8. P = Nat
  <2>1. P \subseteq Nat
    OBVIOUS
  <2> HIDE DEF P
  <2> QED
    BY <1>6, <1>7, <2>1, SetInduction
<1>9. leaf \in Nat
  BY <1>3
<1>10. f[leaf] = g[leaf]
  <2>1. leaf \in P
    BY <1>8, <1>9
  <2> QED
    BY <1>9, <2>1
<1> QED
  BY <1>1, <1>2, <1>10

(***************************************************************************)
(* Of no entries there is no branch.                                       *)
(***************************************************************************)
LEMMA NoBranch ==
  ASSUME NEW ms, AreMade(ms)
  PROVE  BranchOf(ms, {}, 0) = <<>>
<1>1. PICK f : Climbs(f, ms, {}, Len(ms)) /\ \A i : BranchOf(ms, {}, i) = f[i]
  BY BranchClimbs
<1> QED
  BY <1>1, ParentsAre DEF Climbs

-----------------------------------------------------------------------------
(***************************************************************************)
(* The lines of a file as an append writes an entry and its end of line.   *)
(***************************************************************************)
LEMMA TidyLines ==
  ASSUME NEW lines \in Seq(Int), Tidy(lines)
  PROVE  /\ Len(lines) \in Nat
         /\ Parsed(lines) = {i \in 1..Len(lines) : lines[i] > 0}
         /\ Ids(lines) = {lines[i] : i \in {j \in 1..Len(lines) : lines[j] > 0}}
<1>1. Parsed(lines) = {i \in 1..Len(lines) : lines[i] > 0}
  BY DEF Parsed, Tidy
<1> QED
  BY <1>1 DEF Ids

LEMMA LeafIs ==
  ASSUME NEW n \in Nat, NEW lines \in Seq(-1..n)
  PROVE  /\ lines \in Seq(Int)
         /\ Ids(lines) \in SUBSET (1..n)
         /\ Leaf(lines) \in Ids(lines) \cup {0}
<1>1. Len(lines) \in Nat /\ \A i \in 1..Len(lines) : lines[i] \in -1..n
  OBVIOUS
<1>2. lines \in Seq(Int)
  <2>1. -1..n \subseteq Int
    OBVIOUS
  <2> QED
    BY <1>1, <2>1
<1>3. Parsed(lines) \in SUBSET (1..Len(lines)) /\ \A i \in Parsed(lines) : lines[i] > 0
  BY DEF Parsed
<1>4. Ids(lines) \in SUBSET (1..n)
  BY <1>1, <1>3 DEF Ids
<1>5. Parsed(lines) # {} => Max(Parsed(lines)) \in Parsed(lines)
  BY <1>1, <1>3, GreatestPosition
<1>6. Leaf(lines) \in Ids(lines) \cup {0}
  BY <1>5 DEF Leaf, Ids
<1> QED
  BY <1>2, <1>4, <1>6

LEMMA LineAdded ==
  ASSUME NEW lines \in Seq(Int), Tidy(lines), Ended(lines), NEW x \in Nat \ {0}
  PROVE  LET more == lines \o <<x>>
         IN Tidy(more) /\ Ids(more) = Ids(lines) \cup {x} /\ LastLine(more, x)
<1> DEFINE more == lines \o <<x>>
           n == Len(lines)
<1>1. /\ n \in Nat /\ more \in Seq(Int) /\ Len(more) = n + 1
      /\ \A i \in 1..n : more[i] = lines[i]
      /\ more[n + 1] = x
  OBVIOUS
<1>2. \A i \in 1..n : lines[i] \in Int
  OBVIOUS
<1> HIDE DEF more
<1>3. n = 0 \/ lines[n] = 0
  BY <1>1 DEF Ended, EndsLine
<1>4. ASSUME NEW i \in 1..n, lines[i] > 0
      PROVE  EndsLine(more, i - 1) /\ EndsLine(more, i + 1)
  <2>1. EndsLine(lines, i - 1) /\ EndsLine(lines, i + 1)
    BY <1>4 DEF Tidy
  <2>2. i < n
    BY <1>1, <1>3, <1>4
  <2>3. i - 1 = 0 \/ (i - 1 \in 1..n /\ lines[i - 1] = 0)
    BY <1>1, <2>1, <2>2 DEF EndsLine
  <2>4. i + 1 \in 1..n /\ lines[i + 1] = 0
    BY <1>1, <2>1, <2>2 DEF EndsLine
  <2> QED
    BY <1>1, <2>3, <2>4 DEF EndsLine
<1>5. EndsLine(more, n) /\ EndsLine(more, n + 2)
  <2>1. n = 0 \/ (n \in 1..n /\ lines[n] = 0)
    BY <1>1, <1>3
  <2>2. n = 0 \/ more[n] = 0
    BY <1>1, <2>1
  <2>3. n + 2 = Len(more) + 1
    BY <1>1
  <2> QED
    BY <2>2, <2>3 DEF EndsLine
<1>6. Tidy(more)
  <2> SUFFICES ASSUME NEW i \in 1..(n + 1), more[i] > 0
               PROVE  EndsLine(more, i - 1) /\ EndsLine(more, i + 1)
    BY <1>1 DEF Tidy
  <2>1. CASE i \in 1..n
    BY <1>1, <1>4, <2>1
  <2>2. CASE i = n + 1
    <3>1. i - 1 = n /\ i + 1 = n + 2
      BY <1>1, <2>2
    <3> QED
      BY <1>5, <3>1
  <2> QED
    BY <1>1, <2>1, <2>2
<1>7. Ids(more) = Ids(lines) \cup {x}
  <2>1. Ids(more) = {more[i] : i \in {j \in 1..(n + 1) : more[j] > 0}}
    BY <1>1, <1>6, TidyLines
  <2>2. Ids(lines) = {lines[i] : i \in {j \in 1..n : lines[j] > 0}}
    BY TidyLines
  <2>3. ASSUME NEW y \in Ids(more) PROVE y \in Ids(lines) \cup {x}
    BY <1>1, <2>1, <2>2
  <2>4. ASSUME NEW y \in Ids(lines) PROVE y \in Ids(more)
    BY <1>1, <2>1, <2>2
  <2>5. x \in Ids(more)
    BY <1>1, <2>1
  <2> QED
    BY <2>3, <2>4, <2>5
<1>8. LastLine(more, x)
  BY <1>1 DEF LastLine
<1> QED
  BY <1>6, <1>7, <1>8 DEF more

LEMMA LineEnded ==
  ASSUME NEW lines \in Seq(Int), Tidy(lines), NEW x \in Nat \ {0}, LastLine(lines, x)
  PROVE  LET more == lines \o <<0>>
         IN Tidy(more) /\ Ended(more) /\ Ids(more) = Ids(lines) /\ Leaf(more) = x
<1> DEFINE more == lines \o <<0>>
           n == Len(lines)
<1>1. /\ n \in Nat \ {0} /\ more \in Seq(Int) /\ Len(more) = n + 1
      /\ \A i \in 1..n : more[i] = lines[i]
      /\ more[n + 1] = 0
  BY DEF LastLine
<1>2. lines[n] = x /\ n \in 1..n
  BY <1>1 DEF LastLine
<1> HIDE DEF more
<1>3. ASSUME NEW i \in 1..n, lines[i] > 0
      PROVE  EndsLine(more, i - 1) /\ EndsLine(more, i + 1)
  <2>1. EndsLine(lines, i - 1) /\ EndsLine(lines, i + 1)
    BY <1>3 DEF Tidy
  <2>2. i - 1 = 0 \/ (i - 1 \in 1..n /\ lines[i - 1] = 0)
    BY <1>1, <2>1 DEF EndsLine
  <2>3. i + 1 = n + 1 \/ (i + 1 \in 1..n /\ lines[i + 1] = 0)
    BY <1>1, <2>1 DEF EndsLine
  <2> QED
    BY <1>1, <2>2, <2>3 DEF EndsLine
<1>4. Tidy(more)
  <2> SUFFICES ASSUME NEW i \in 1..(n + 1), more[i] > 0
               PROVE  EndsLine(more, i - 1) /\ EndsLine(more, i + 1)
    BY <1>1 DEF Tidy
  <2>1. i \in 1..n /\ lines[i] > 0
    BY <1>1
  <2> QED
    BY <1>3, <2>1
<1>5. Ended(more)
  BY <1>1 DEF Ended, EndsLine
<1>6. Parsed(more) = {i \in 1..(n + 1) : more[i] > 0}
  BY <1>1, <1>4, TidyLines
<1>7. Parsed(lines) = {i \in 1..n : lines[i] > 0}
  BY TidyLines
<1>8. Parsed(more) = Parsed(lines)
  BY <1>1, <1>6, <1>7
<1>9. Ids(more) = Ids(lines)
  BY <1>1, <1>7, <1>8 DEF Ids
<1>10. Leaf(more) = x
  <2>1. n \in Parsed(more) /\ Parsed(more) \in SUBSET (1..n)
    BY <1>1, <1>2, <1>7, <1>8
  <2>2. Max(Parsed(more)) \in Parsed(more) /\ Max(Parsed(more)) >= n
    BY <1>1, <2>1, GreatestPosition
  <2>3. Max(Parsed(more)) = n
    BY <1>1, <2>1, <2>2
  <2> QED
    BY <1>1, <1>2, <2>1, <2>3 DEF Leaf
<1> QED
  BY <1>4, <1>5, <1>9, <1>10 DEF more

-----------------------------------------------------------------------------
\* n is a manager like m, apart from a rewriting of its file.
Like(m, n) ==
  /\ n.open = m.open /\ n.known = m.known /\ n.leaf = m.leaf /\ n.new = m.new
  /\ (AtEntry(n) <=> AtEntry(m)) /\ (AtLine(n) <=> AtLine(m))

(***************************************************************************)
(* What becomes of the record when a manager appends, opens the file or    *)
(* is dropped, and the other one does nothing.                             *)
(***************************************************************************)
LEMMA RecordedLike ==
  ASSUME NEW ms, NEW lines, NEW sure, NEW last, NEW m, NEW o, NEW n, NEW p,
         Recorded(ms, lines, sure, last, m, o), Like(m, n), Like(o, p)
  PROVE  Recorded(ms, lines, sure, last, n, p)
BY DEF Recorded, KnowsItsWay, Like, Appending

LEMMA Grown ==
  ASSUME NEW ms, AreMade(ms), NEW e \in Made
  PROVE  /\ Len(Append(ms, e)) = Len(ms) + 1 /\ Append(ms, e)[Len(ms) + 1] = e
         /\ \A i \in 1..Len(ms) : Append(ms, e)[i] = ms[i]
         /\ \A known \in SUBSET (1..Len(ms)) :
              /\ Rooted(ms, known) => Rooted(Append(ms, e), known)
              /\ Infos(Append(ms, e), known) = Infos(ms, known)
<1> DEFINE ns == Append(ms, e)
<1>1. /\ Len(ms) \in Nat /\ Len(ns) = Len(ms) + 1 /\ ns[Len(ms) + 1] = e
      /\ \A i \in 1..Len(ms) : ns[i] = ms[i]
  BY DEF AreMade
<1> HIDE DEF ns
<1>2. ASSUME NEW known \in SUBSET (1..Len(ms))
      PROVE  /\ Rooted(ms, known) => Rooted(ns, known)
             /\ Infos(ns, known) = Infos(ms, known)
  BY <1>1 DEF Rooted, Infos
<1> QED
  BY <1>1, <1>2 DEF ns

LEMMA RecordedBegin ==
  ASSUME NEW ms, AreMade(ms), NEW e \in Made, AreMade(Append(ms, e)), NEW lines \in Lines(ms),
         NEW sure, NEW last, NEW m, NEW o, NEW n, IsManager(ms, m), IsManager(ms, o),
         Recorded(ms, lines, sure, last, m, o), ~Busy(m), ~Busy(o), e.parent = m.leaf,
         n.open = m.open, n.known = m.known, n.leaf = m.leaf, AtEntry(n), n.new = Len(ms) + 1
  PROVE  Recorded(Append(ms, e), lines, sure, last, n, o)
<1> DEFINE ns == Append(ms, e)
           K == Ids(lines)
<1>1. Len(ms) \in Nat
  BY ParentsAre
<1>2. /\ Len(ns) = Len(ms) + 1 /\ ns[Len(ms) + 1] = e
      /\ \A i \in 1..Len(ms) : ns[i] = ms[i]
      /\ \A known \in SUBSET (1..Len(ms)) : Rooted(ms, known) => Rooted(ns, known)
  BY Grown
<1>3. K \in SUBSET (1..Len(ms)) /\ Leaf(lines) \in K \cup {0}
  BY <1>1, LeafIs DEF Lines
<1>4. ~Appending(m) /\ ~Appending(o) /\ ~AtLine(m) /\ ~AtLine(o) /\ ~AtEntry(o) /\ ~AtLine(n)
  BY DEF Busy, Appending, AtEntry, AtLine
<1>5. m.known \in SUBSET (1..Len(ms)) /\ o.known \in SUBSET (1..Len(ms))
  BY DEF IsManager
<1>6. AreMade(ns)
  OBVIOUS
<1> HIDE DEF ns, K
<1>7. /\ Tidy(lines) /\ Ended(lines) /\ Rooted(ms, K) /\ sure \subseteq K
      /\ BranchOf(ms, K, Leaf(lines)) = last
      /\ m.open => m.known \subseteq K /\ Rooted(ms, m.known)
      /\ o.open => o.known \subseteq K /\ Rooted(ms, o.known)
  BY <1>4 DEF Recorded, KnowsItsWay, K
<1>8. BranchOf(ns, K, Leaf(lines)) = last
  <2>1. K \in SUBSET (1..Len(ns)) /\ Len(ms) <= Len(ns)
    BY <1>1, <1>2, <1>3
  <2> QED
    BY <1>2, <1>3, <1>6, <1>7, <2>1, SameBranch
<1>9. Rooted(ns, K) /\ (m.open => Rooted(ns, m.known)) /\ (o.open => Rooted(ns, o.known))
  BY <1>2, <1>3, <1>5, <1>7
<1>10. KnowsItsWay(ns, lines, o)
  BY <1>4, <1>7, <1>9 DEF KnowsItsWay, K
<1>11. KnowsItsWay(ns, lines, n)
  <2>1. n.new = Len(ns) /\ ns[n.new].parent = n.leaf
    BY <1>2
  <2>2. n.new \notin K
    BY <1>1, <1>3
  <2> QED
    BY <1>4, <1>7, <1>9, <2>1, <2>2 DEF KnowsItsWay, K
<1> QED
  BY <1>7, <1>8, <1>9, <1>10, <1>11 DEF Recorded, K, ns

LEMMA RecordedEntry ==
  ASSUME NEW ms, AreMade(ms), NEW lines \in Lines(ms),
         NEW sure, NEW last, NEW m, NEW o, NEW n, IsManager(ms, m), IsManager(ms, o),
         Recorded(ms, lines, sure, last, m, o), AtEntry(m), ~Busy(o),
         n.open = m.open, n.known = m.known, n.leaf = m.leaf, AtLine(n), n.new = m.new
  PROVE  /\ Recorded(ms, lines \o <<m.new>>, sure, last, n, o)
         /\ Confirmed(lines \o <<m.new>>, n, o) = Confirmed(lines, m, o)
<1> DEFINE K == Ids(lines)
           more == lines \o <<m.new>>
<1>1. Len(ms) \in Nat /\ lines \in Seq(Int)
  BY ParentsAre, LeafIs DEF Lines
<1>2. m.new \in Nat \ {0} /\ m.leaf \in m.known \cup {0} /\ m.open
  BY <1>1 DEF IsManager, Appending, AtEntry, Busy
<1>3. /\ ~AtLine(o) /\ ~AtLine(m) /\ ~AtEntry(o) /\ ~Appending(o) /\ Appending(m)
      /\ Appending(n) /\ ~AtEntry(n)
  BY DEF Busy, Appending, AtEntry, AtLine
<1>4. /\ Tidy(lines) /\ Ended(lines) /\ Rooted(ms, K) /\ sure \subseteq K
      /\ m.known \subseteq K /\ Rooted(ms, m.known)
      /\ m.new = Len(ms) /\ ms[m.new].parent = m.leaf /\ m.new \notin K
      /\ o.open => o.known \subseteq K /\ Rooted(ms, o.known)
  BY <1>2, <1>3 DEF Recorded, KnowsItsWay
<1>5. Tidy(more) /\ Ids(more) = K \cup {m.new} /\ LastLine(more, m.new)
  BY <1>1, <1>2, <1>4, LineAdded
<1> HIDE DEF K, more
<1>6. Rooted(ms, Ids(more))
  BY <1>2, <1>4, <1>5 DEF Rooted
<1>7. KnowsItsWay(ms, more, n) /\ KnowsItsWay(ms, more, o)
  BY <1>3, <1>4, <1>5 DEF KnowsItsWay
<1>8. sure \subseteq Ids(more)
  BY <1>4, <1>5
<1>9. Confirmed(more, n, o) = Confirmed(lines, m, o)
  BY <1>3, <1>4, <1>5 DEF Confirmed, InLine, K
<1> QED
  BY <1>3, <1>5, <1>6, <1>7, <1>8, <1>9 DEF Recorded, more

\* n has returned from an append of m, and may have been dropped then.
HasAppended(m, n) ==
  /\ ~Busy(n)
  /\ n.open => n.known = m.known \cup {m.new}

LEMMA RecordedEnd ==
  ASSUME NEW ms, AreMade(ms), NEW lines \in Lines(ms),
         NEW sure, NEW last, NEW m, NEW o, NEW n, IsManager(ms, m), IsManager(ms, o),
         Recorded(ms, lines, sure, last, m, o), AtLine(m), ~Busy(o), HasAppended(m, n)
  PROVE  /\ Recorded(ms, lines \o <<0>>, sure \cup {m.new},
                     BranchOf(ms, m.known \cup {m.new}, m.new), n, o)
         /\ Confirmed(lines \o <<0>>, n, o) = Confirmed(lines, m, o) \cup {m.new}
         /\ m.new = Len(ms) /\ m.new \in 1..Len(ms)
<1> DEFINE K == Ids(lines)
           more == lines \o <<0>>
           known == m.known \cup {m.new}
<1>1. Len(ms) \in Nat /\ lines \in Seq(Int) /\ K \in SUBSET (1..Len(ms))
  BY ParentsAre, LeafIs DEF Lines
<1>2. /\ m.new \in Nat \ {0} /\ m.leaf \in m.known \cup {0} /\ m.open
      /\ known \in SUBSET (1..Len(ms))
  BY <1>1 DEF IsManager, Appending, AtLine, Busy
<1>3. /\ ~AtLine(o) /\ ~AtEntry(o) /\ ~Appending(o) /\ Appending(m)
      /\ ~Appending(n) /\ ~AtEntry(n) /\ ~AtLine(n)
  BY DEF Busy, Appending, AtEntry, AtLine, HasAppended
<1>4. /\ Tidy(lines) /\ Rooted(ms, K) /\ sure \subseteq K
      /\ m.known \subseteq K /\ Rooted(ms, m.known)
      /\ m.new = Len(ms) /\ ms[m.new].parent = m.leaf /\ LastLine(lines, m.new)
      /\ o.open => o.known \subseteq K /\ Rooted(ms, o.known)
  BY <1>2, <1>3 DEF Recorded, KnowsItsWay
<1>5. Tidy(more) /\ Ended(more) /\ Ids(more) = K /\ Leaf(more) = m.new
  BY <1>1, <1>2, <1>4, LineEnded
<1>6. m.new \in K
  <2>1. Len(lines) \in 1..Len(lines) /\ lines[Len(lines)] = m.new /\ m.new > 0
    BY <1>1, <1>2, <1>4 DEF LastLine
  <2> QED
    BY <1>1, <1>4, <2>1, TidyLines
<1> HIDE DEF K, more, known
<1>7. Rooted(ms, known) /\ known \subseteq K /\ m.new \in known
  BY <1>2, <1>4, <1>6 DEF Rooted, known
<1>8. BranchOf(ms, K, m.new) = BranchOf(ms, known, m.new)
  BY <1>1, <1>2, <1>7, SameBranch
<1>9. KnowsItsWay(ms, more, n) /\ KnowsItsWay(ms, more, o)
  BY <1>3, <1>4, <1>5, <1>7 DEF KnowsItsWay, HasAppended, known
<1>10. Confirmed(more, n, o) = Confirmed(lines, m, o) \cup {m.new}
  BY <1>3, <1>5, <1>6 DEF Confirmed, InLine, K
<1>11. m.new = Len(ms) /\ m.new \in 1..Len(ms)
  BY <1>1, <1>2, <1>4
<1> QED
  BY <1>3, <1>4, <1>5, <1>6, <1>8, <1>9, <1>10, <1>11 DEF Recorded, more, known

LEMMA RecordedOpen ==
  ASSUME NEW ms, NEW lines, NEW sure, NEW last, NEW m, NEW o, NEW n,
         Recorded(ms, lines, sure, last, m, o), ~Busy(m), ~Busy(n),
         n.open => n.known = Ids(lines)
  PROVE  Recorded(ms, lines, sure, last, n, o)
<1>1. ~AtLine(m) /\ ~AtLine(n) /\ ~AtEntry(n) /\ ~Appending(n)
  BY DEF Busy, Appending, AtEntry, AtLine
<1> QED
  BY <1>1 DEF Recorded, KnowsItsWay

LEMMA RecordedTurned ==
  ASSUME NEW ms, NEW lines, NEW sure, NEW last, NEW m, NEW o
  PROVE  Recorded(ms, lines, sure, last, m, o) <=> Recorded(ms, lines, sure, last, o, m)
BY DEF Recorded


(***************************************************************************)
(* What becomes of the name.                                               *)
(***************************************************************************)
LEMMA ConfirmedAre ==
  ASSUME NEW ms, AreMade(ms), NEW lines \in Lines(ms), NEW m, NEW o
  PROVE  /\ Confirmed(lines, m, o) \in SUBSET Ids(lines) /\ Ids(lines) \in SUBSET (1..Len(ms))
         /\ Confirmed(lines, m, o) = Confirmed(lines, o, m)
         /\ ~AtLine(m) /\ ~AtLine(o) => Confirmed(lines, m, o) = Ids(lines)
<1>1. Len(ms) \in Nat /\ Ids(lines) \in SUBSET (1..Len(ms))
  BY ParentsAre, LeafIs DEF Lines
<1> QED
  BY <1>1 DEF Confirmed, InLine

LEMMA NamedMoves ==
  ASSUME NEW ms, NEW sure, NEW name, NEW a, NEW b, Named(ms, sure, name, a), ~Appending(b),
         b.open => Infos(ms, sure) \subseteq b.known
  PROVE  Named(ms, sure, name, b)
BY DEF Named

LEMMA NamedLike ==
  ASSUME NEW ms, NEW sure, NEW name, NEW a, NEW b, Named(ms, sure, name, a), Like(a, b)
  PROVE  Named(ms, sure, name, b)
BY DEF Named, Like, Appending

\* Somebody, who may be the agent, begins an append.
LEMMA NamedBegin ==
  ASSUME NEW ms, AreMade(ms), NEW e \in Made, NEW sure \in SUBSET (1..Len(ms)), NEW name,
         NEW a, NEW b, Named(ms, sure, name, a), b.open = a.open, b.known = a.known,
         Appending(b) => /\ b.new = Len(ms) + 1
                         /\ e.name = "automatic" => name = None
  PROVE  Named(Append(ms, e), sure, name, b)
<1> DEFINE ns == Append(ms, e)
<1>1. /\ Len(ns) = Len(ms) + 1 /\ ns[Len(ms) + 1] = e
      /\ \A i \in 1..Len(ms) : ns[i] = ms[i]
      /\ Infos(ns, sure) = Infos(ms, sure)
  BY Grown
<1>2. Len(ms) \in Nat /\ Infos(ms, sure) \in SUBSET (1..Len(ms))
  BY ParentsAre DEF Infos
<1> HIDE DEF ns
<1>3. NameOf(ns, sure) = NameOf(ms, sure)
  <2>1. CASE Infos(ms, sure) = {}
    BY <1>1, <2>1 DEF NameOf
  <2>2. CASE Infos(ms, sure) # {}
    <3>1. Max(Infos(ms, sure)) \in 1..Len(ms)
      BY <1>2, <2>2, GreatestPosition
    <3> QED
      BY <1>1, <2>2, <3>1 DEF NameOf
  <2> QED
    BY <2>1, <2>2
<1>4. Appending(b) /\ ns[b.new].name = "automatic" => name = None
  BY <1>1
<1> QED
  BY <1>1, <1>3, <1>4 DEF Named, ns

\* An append of entry x returns; b is the agent then.
LEMMA NamedEnd ==
  ASSUME NEW ms, AreMade(ms), NEW sure \in SUBSET (1..Len(ms)), NEW name, NEW a, NEW b,
         NEW x \in 1..Len(ms), x = Len(ms), Named(ms, sure, name, a), ~Appending(b),
         ms[x].name = "automatic" => name = None,
         b.open => /\ a.open /\ a.known \subseteq b.known
                   /\ ms[x].kind = "info" => x \in b.known
  PROVE  Named(ms, sure \cup {x},
               IF ms[x].kind = "info" /\ ms[x].name # "automatic" THEN ms[x].name ELSE name, b)
<1> DEFINE more == sure \cup {x}
           new == IF ms[x].kind = "info" /\ ms[x].name # "automatic" THEN ms[x].name ELSE name
<1>1. Len(ms) \in Nat /\ more \in SUBSET (1..Len(ms))
  BY ParentsAre
<1>2. Infos(ms, more) = IF ms[x].kind = "info" THEN Infos(ms, sure) \cup {x} ELSE Infos(ms, sure)
  BY DEF Infos
<1>3. CASE ms[x].kind = "info"
  <2>1. Infos(ms, more) \in SUBSET (1..Len(ms)) /\ x \in Infos(ms, more)
    BY <1>1, <1>2, <1>3 DEF Infos
  <2>2. Max(Infos(ms, more)) \in 1..Len(ms) /\ Max(Infos(ms, more)) >= x
    BY <1>1, <2>1, GreatestPosition
  <2>3. Max(Infos(ms, more)) = x
    BY <1>1, <2>2
  <2>4. NameOf(ms, more) = ms[x].name
    BY <2>1, <2>3 DEF NameOf
  <2>5. b.open => Infos(ms, more) \subseteq b.known
    BY <1>2, <1>3 DEF Named
  <2> QED
    BY <1>3, <2>4, <2>5 DEF Named
<1>4. CASE ms[x].kind # "info"
  <2>1. Infos(ms, more) = Infos(ms, sure) /\ new = name
    BY <1>2, <1>4
  <2>2. NameOf(ms, more) = NameOf(ms, sure)
    BY <2>1 DEF NameOf
  <2> HIDE DEF new, more
  <2>3. Named(ms, more, new, b)
    BY <2>1, <2>2 DEF Named
  <2> QED
    BY <2>3 DEF new, more
<1> QED
  BY <1>3, <1>4

-----------------------------------------------------------------------------
(***************************************************************************)
(* The types, and whose the file is, at every step.                        *)
(***************************************************************************)
LEMMA LogStart == LogInit => LogIInv
<1> SUFFICES ASSUME LogInit PROVE LogIInv
  OBVIOUS
<1>1. /\ made = <<>> /\ log = NoLog /\ helper = Closed
      /\ errand = None /\ title = "free" /\ deleted = FALSE
      /\ kept = {} /\ lastBranch = <<>> /\ given = None /\ blind = FALSE /\ spoiled = FALSE
  BY DEF LogInit
<1>2. PICK c \in Folders : agent = Lazy(c)
  BY DEF LogInit
<1>3. MaxMade \in Nat /\ Len(made) = 0 /\ made \in Seq(Made) /\ <<>> \in Lines(made)
  BY <1>1, LogAssumption DEF Lines
<1>4. AreMade(made)
  BY <1>3 DEF AreMade
<1>5. /\ agent.open /\ agent.known = {} /\ agent.leaf = 0 /\ agent.cwd = c
      /\ ~agent.materialized /\ agent.step = "idle" /\ agent.new = 0 /\ agent.copy = <<>>
  BY <1>2 DEF Lazy, Closed
<1>6. IsManager(made, agent) /\ IsManager(made, helper)
  <2>1. IsManager(made, Closed)
    BY <1>3 DEF IsManager, Closed, Busy, Appending, AtEntry, AtLine
  <2>2. IsManager(made, Lazy(c))
    <3>1. Lazy(c) \in
            [open : BOOLEAN, known : SUBSET (1..Len(made)), leaf : 0..Len(made),
             cwd : Folders \cup {None}, materialized : BOOLEAN,
             step : {"idle", "entry", "line", "rewrite", "refill"}, new : 0..Len(made),
             copy : Lines(made)]
      BY <2>1 DEF Lazy, IsManager
    <3>2. /\ Lazy(c).open /\ Lazy(c).known = {} /\ Lazy(c).leaf = 0 /\ Lazy(c).step = "idle"
      BY <1>2, <1>5
    <3> QED
      BY <3>1, <3>2 DEF IsManager, Busy, Appending, AtEntry, AtLine
  <2> QED
    BY <1>1, <1>2, <2>1, <2>2
<1>7. log \in Logs(made)
  BY <1>1, <1>3 DEF NoLog, Logs
<1>8. ~helper.open /\ helper.step = "idle" /\ ~helper.materialized /\ helper.known = {}
  BY <1>1 DEF Closed
<1>9. LogTypes
  BY <1>1, <1>4, <1>6, <1>7, <1>8 DEF LogTypes, Busy
<1>10. FileIsTheirs
  BY <1>1, <1>5, <1>8 DEF FileIsTheirs, Rewriting, NoLog
<1>11. Text = <<>>
  BY <1>1, <1>5 DEF Text, NoLog
<1>12. Ids(<<>>) = {} /\ Leaf(<<>>) = 0 /\ Tidy(<<>>) /\ Ended(<<>>)
  BY DEF Ids, Leaf, Parsed, Tidy, Ended, EndsLine
<1>13. BranchOf(made, {}, 0) = <<>>
  BY <1>4, NoBranch
<1>14. Recorded(made, <<>>, {}, <<>>, agent, helper)
  BY <1>5, <1>8, <1>12, <1>13 DEF Recorded, KnowsItsWay, Rooted, Appending, AtEntry, AtLine
<1>15. HelperSays(made, errand, helper)
  BY <1>8 DEF HelperSays, Appending, AtEntry, AtLine
<1>16. Confirmed(<<>>, agent, helper) = {}
  BY <1>12 DEF Confirmed
<1>17. Named(made, {}, None, agent)
  BY <1>5 DEF Named, Infos, Appending, AtEntry, AtLine
<1> QED
  BY <1>1, <1>9, <1>10, <1>11, <1>14, <1>15, <1>16, <1>17 DEF LogIInv, Trusted

LEMMA ManagerGrows ==
  ASSUME NEW ms, AreMade(ms), NEW e \in Made
  PROVE  /\ Lines(ms) \subseteq Lines(Append(ms, e)) /\ Logs(ms) \subseteq Logs(Append(ms, e))
         /\ \A m : IsManager(ms, m) => IsManager(Append(ms, e), m)
<1>1. Len(ms) \in Nat /\ Len(Append(ms, e)) = Len(ms) + 1
  BY ParentsAre, Grown
<1>2. Lines(ms) \subseteq Lines(Append(ms, e))
  <2>1. (-1)..Len(ms) \subseteq (-1)..(Len(ms) + 1)
    BY <1>1
  <2> QED
    BY <1>1, <2>1 DEF Lines
<1>3. Logs(ms) \subseteq Logs(Append(ms, e))
  BY <1>2 DEF Logs
<1>4. ASSUME NEW m, IsManager(ms, m) PROVE IsManager(Append(ms, e), m)
  <2>1. 1..Len(ms) \subseteq 1..(Len(ms) + 1) /\ 0..Len(ms) \subseteq 0..(Len(ms) + 1)
    BY <1>1
  <2>2. SUBSET (1..Len(ms)) \subseteq SUBSET (1..(Len(ms) + 1))
    BY <2>1
  <2> QED
    BY <1>1, <1>2, <1>4, <2>1, <2>2 DEF IsManager
<1> QED
  BY <1>2, <1>3, <1>4

LEMMA ClosedIs ==
  ASSUME NEW ms, AreMade(ms)
  PROVE  IsManager(ms, Closed) /\ ~Closed.open /\ ~Busy(Closed) /\ ~Closed.materialized
<1>1. Len(ms) \in Nat /\ <<>> \in Lines(ms)
  BY ParentsAre DEF Lines
<1> QED
  BY <1>1 DEF IsManager, Closed, Busy, Appending, AtEntry, AtLine

LEMMA OpenedIs ==
  ASSUME LogTypes
  PROVE  /\ IsManager(made, Opened) /\ Opened.open /\ Opened.materialized /\ ~Busy(Opened)
         /\ Opened.known = Ids(log.text)
<1>1. AreMade(made) /\ log \in Logs(made)
  BY DEF LogTypes
<1>2. Len(made) \in Nat /\ log.text \in Lines(made) /\ log.header \in Folders \cup {None}
  BY <1>1, ParentsAre DEF Logs
<1>3. /\ Ids(log.text) \in SUBSET (1..Len(made)) /\ Leaf(log.text) \in Ids(log.text) \cup {0}
      /\ <<>> \in Lines(made)
  BY <1>2, LeafIs DEF Lines
<1>4. /\ Opened.open /\ Opened.known = Ids(log.text) /\ Opened.leaf = Leaf(log.text)
      /\ Opened.cwd = log.header /\ Opened.materialized /\ Opened.step = "idle"
      /\ Opened.new = 0 /\ Opened.copy = <<>>
  BY DEF Opened, Closed
<1>5. IsManager(made, Closed)
  BY <1>1, ClosedIs
<1>6. Opened \in
        [open : BOOLEAN, known : SUBSET (1..Len(made)), leaf : 0..Len(made),
         cwd : Folders \cup {None}, materialized : BOOLEAN,
         step : {"idle", "entry", "line", "rewrite", "refill"}, new : 0..Len(made),
         copy : Lines(made)]
  <2>1. Leaf(log.text) \in 0..Len(made)
    BY <1>2, <1>3
  <2> QED
    BY <1>2, <1>3, <1>5, <2>1 DEF Opened, IsManager
<1> HIDE DEF Opened
<1>7. IsManager(made, Opened)
  BY <1>2, <1>3, <1>4, <1>6 DEF IsManager, Busy, Appending, AtEntry, AtLine
<1> QED
  BY <1>4, <1>7 DEF Busy

(***************************************************************************)
(* An append as far as it has come.                                        *)
(***************************************************************************)
NewEntry(m, kind, name) == [parent |-> m.leaf, kind |-> kind, name |-> name]

LEMMA BeginsChanges ==
  ASSUME LogTypes, FileIsTheirs, NEW m, NEW n, IsManager(made, m),
         NEW kind \in {"message", "info"}, NEW name \in {None, "given", "automatic"},
         m.open /\ ~m.materialized => ~log.there /\ ~deleted,
         Begins(m, n, kind, name)
  PROVE  /\ m.open /\ ~Busy(m)
         /\ UNCHANGED <<deleted, incidents, kept, lastBranch>>
         /\ log'.text = log.text /\ log'.header \in Folders \cup {None}
         /\ log' = log \/ (log'.there /\ ~m.materialized /\ ~deleted)
         /\ n.open = m.open /\ n.known = m.known /\ n.leaf = m.leaf /\ n.materialized
         /\ log' \in Logs(made)
         /\ \/ /\ log'.there /\ NewEntry(m, kind, name) \in Made
               /\ made' = Append(made, NewEntry(m, kind, name)) /\ AreMade(made')
               /\ AtEntry(n) /\ n.new = Len(made) + 1 /\ IsManager(made', n)
            \/ made' = made /\ ~log'.there /\ log' = log /\ n = m /\ ~Busy(n)
<1> DEFINE e == NewEntry(m, kind, name)
<1>1. AreMade(made) /\ log \in Logs(made) /\ Len(made) \in Nat
  BY ParentsAre DEF LogTypes
<1>2. /\ Idle(m) /\ Len(made) < MaxMade /\ log' = Materialized(m)
      /\ UNCHANGED <<deleted, incidents, kept, lastBranch>>
  BY DEF Begins, ForAppend
<1>3. m.open /\ m.step = "idle" /\ ~Busy(m)
  BY <1>2 DEF Idle, Busy
<1>4. /\ m.leaf \in 0..Len(made) /\ m.cwd \in Folders \cup {None} /\ m.materialized \in BOOLEAN
  BY DEF IsManager
<1>5. <<>> \in Lines(made)
  BY <1>1 DEF Lines
<1>8. /\ log'.text = log.text /\ log' \in Logs(made) /\ log'.header \in Folders \cup {None}
      /\ log' = log \/ (log'.there /\ ~m.materialized /\ ~deleted)
  <2>1. CASE m.materialized
    <3>1. log' = log
      BY <1>2, <2>1 DEF Materialized
    <3> QED
      BY <1>1, <3>1 DEF Logs
  <2>2. CASE ~m.materialized
    <3>1. log' = [there |-> TRUE, header |-> m.cwd, text |-> <<>>]
      BY <1>2, <2>2 DEF Materialized
    <3>2. log = NoLog /\ ~deleted
      BY <1>3, <2>2 DEF FileIsTheirs
    <3> QED
      BY <1>4, <1>5, <2>2, <3>1, <3>2 DEF NoLog, Logs
  <2> QED
    BY <1>4, <2>1, <2>2
<1>9. CASE log'.there
  <2>1. /\ made' = Append(made, e)
        /\ n = [m EXCEPT !.materialized = TRUE, !.step = "entry", !.new = Len(made) + 1]
    BY <1>9 DEF Begins, Follows, NewEntry
  <2>2. e \in Made
    BY <1>1, <1>4 DEF NewEntry, Made
  <2>3. AreMade(made')
    <3>1. e.parent = m.leaf
      BY DEF NewEntry
    <3>2. made' \in Seq(Made) /\ Len(made') = Len(made) + 1
      BY <1>1, <2>1, <2>2 DEF AreMade
    <3>3. \A i \in 1..Len(made) : made'[i] = made[i] /\ made[i].parent < i
      BY <1>1, <2>1, <2>2 DEF AreMade
    <3>4. made'[Len(made) + 1] = e
      BY <1>1, <2>1, <2>2, Grown
    <3>5. Len(made) + 1 <= MaxMade
      BY <1>1, <1>2, LogAssumption
    <3> HIDE DEF e
    <3>6. \A i \in 1..(Len(made) + 1) : made'[i].parent < i
      BY <1>1, <1>4, <3>1, <3>3, <3>4
    <3> QED
      BY <3>2, <3>5, <3>6 DEF AreMade
  <2>4. IsManager(made', m) /\ Len(made') = Len(made) + 1
    BY <1>1, <2>1, <2>2, ManagerGrows, Grown
  <2>5. Len(made) + 1 \in 0..Len(made') /\ Len(made) + 1 # 0
    BY <1>1, <2>4
  <2>6. /\ n.open = m.open /\ n.known = m.known /\ n.leaf = m.leaf /\ n.materialized
        /\ AtEntry(n) /\ n.new = Len(made) + 1
    BY <2>1, <2>4 DEF AtEntry, IsManager
  <2>7. IsManager(made', n)
    BY <1>3, <2>1, <2>4, <2>5, <2>6 DEF IsManager, Busy, Appending
  <2> QED
    BY <1>2, <1>3, <1>8, <1>9, <2>1, <2>2, <2>3, <2>6, <2>7
<1>10. CASE ~log'.there
  <2>1. made' = made /\ n = [m EXCEPT !.materialized = TRUE] /\ log' = log
    BY <1>8, <1>10 DEF Begins
  <2>2. m.materialized
    BY <1>2, <1>10 DEF Materialized
  <2>3. n = m
    BY <2>1, <2>2 DEF IsManager
  <2> QED
    BY <1>2, <1>3, <1>8, <1>10, <2>1, <2>2, <2>3
<1> QED
  BY <1>9, <1>10

LEMMA TextGrows ==
  ASSUME NEW ms, AreMade(ms), NEW lines \in Lines(ms), NEW x \in 0..Len(ms)
  PROVE  lines \o <<x>> \in Lines(ms)
<1>1. Len(ms) \in Nat
  BY ParentsAre
<1>2. x \in (-1)..Len(ms)
  BY <1>1
<1> QED
  BY <1>1, <1>2 DEF Lines

LEMMA WroteChanges ==
  ASSUME LogTypes, FileIsTheirs, NEW x \in 0..Len(made), Wrote(<<x>>)
  PROVE  /\ log' \in Logs(made) /\ log'.there = log.there /\ log'.header = log.header
         /\ log.there => log'.text = log.text \o <<x>>
         /\ ~log.there => log' = log
<1>1. AreMade(made) /\ log \in Logs(made)
  BY DEF LogTypes
<1>2. log.text \o <<x>> \in Lines(made)
  BY <1>1, TextGrows DEF Logs
<1>3. log' = IF log.there THEN [log EXCEPT !.text = @ \o <<x>>] ELSE log
  BY DEF Wrote
<1> QED
  BY <1>1, <1>2, <1>3 DEF Logs

LEMMA EntryChanges ==
  ASSUME LogTypes, FileIsTheirs, NEW m, NEW n, NEW o, IsManager(made, m), WritesEntry(m, n, o)
  PROVE  /\ IsManager(made, n) /\ AtEntry(m) /\ AtLine(n)
         /\ n.open = m.open /\ n.known = m.known /\ n.leaf = m.leaf /\ n.new = m.new
         /\ n.materialized = m.materialized
         /\ spoiled' = Meets(o)
         /\ UNCHANGED <<made, errand, title, deleted, incidents, kept, lastBranch, given, blind>>
         /\ log' \in Logs(made) /\ log'.there = log.there /\ log'.header = log.header
         /\ log.there => log'.text = log.text \o <<m.new>>
         /\ ~log.there => log' = log
<1>1. /\ m.step = "entry" /\ Wrote(<<m.new>>) /\ n = [m EXCEPT !.step = "line"]
      /\ spoiled' = Meets(o)
      /\ UNCHANGED <<made, errand, title, deleted, incidents, kept, lastBranch, given, blind>>
  BY DEF WritesEntry
<1>2. m.new \in 0..Len(made)
  BY DEF IsManager
<1>3. /\ n.open = m.open /\ n.known = m.known /\ n.leaf = m.leaf /\ n.new = m.new
      /\ n.materialized = m.materialized /\ n.step = "line"
  BY <1>1 DEF IsManager
<1>4. IsManager(made, n)
  BY <1>1, <1>3 DEF IsManager, Busy, Appending, AtEntry, AtLine
<1> QED
  BY <1>1, <1>2, <1>3, <1>4, WroteChanges DEF AtEntry, AtLine

LEMMA ReturnChanges ==
  ASSUME LogTypes, FileIsTheirs, NEW m, NEW o, IsManager(made, m), Returns(m, o)
  PROVE  /\ AtLine(m) /\ m.open /\ m.materialized /\ m.new \in 1..Len(made)
         /\ IsManager(made, [m EXCEPT !.known = @ \cup {m.new}, !.leaf = m.new,
                                      !.step = "idle", !.new = 0])
         /\ kept' = kept \cup {m.new}
         /\ lastBranch' = BranchOf(made, m.known \cup {m.new}, m.new)
         /\ given' = IF made[m.new].kind = "info" /\ made[m.new].name # "automatic"
                     THEN made[m.new].name ELSE given
         /\ blind' = (blind \/ (errand = "rename" /\ agent.open))
         /\ spoiled' = Meets(o)
         /\ UNCHANGED <<made, title, deleted, incidents>>
         /\ log' \in Logs(made) /\ log'.there = log.there /\ log'.header = log.header
         /\ log.there => log'.text = log.text \o <<0>>
         /\ ~log.there => log' = log
<1>1. AreMade(made) /\ Len(made) \in Nat
  BY ParentsAre DEF LogTypes
<1>2. /\ m.step = "line" /\ Wrote(<<0>>)
      /\ kept' = kept \cup {m.new} /\ lastBranch' = Branch(m.known \cup {m.new}, m.new)
      /\ given' = IF made[m.new].kind = "info" /\ made[m.new].name # "automatic"
                  THEN made[m.new].name ELSE given
      /\ blind' = (blind \/ (errand = "rename" /\ agent.open))
      /\ spoiled' = Meets(o)
      /\ UNCHANGED <<made, title, deleted, incidents>>
  BY DEF Returns, WritesEnd
<1>3. Branch(m.known \cup {m.new}, m.new) = BranchOf(made, m.known \cup {m.new}, m.new)
  BY DEF Branch, BranchOf
<1>4. /\ m.open /\ m.materialized /\ m.new \in 1..Len(made) /\ AtLine(m)
      /\ m.known \in SUBSET (1..Len(made))
  BY <1>1, <1>2 DEF IsManager, Busy, Appending, AtLine
<1>5. IsManager(made, [m EXCEPT !.known = @ \cup {m.new}, !.leaf = m.new,
                                !.step = "idle", !.new = 0])
  <2>1. m.known \cup {m.new} \in SUBSET (1..Len(made)) /\ m.new \in 0..Len(made) /\ 0 \in 0..Len(made)
    BY <1>1, <1>4
  <2> QED
    BY <1>4, <2>1 DEF IsManager, Busy, Appending, AtEntry, AtLine
<1>6. 0 \in 0..Len(made)
  BY <1>1
<1> QED
  BY <1>2, <1>3, <1>4, <1>5, <1>6, WroteChanges


Always == LogTypes /\ FileIsTheirs

LEMMA AgentBegins ==
  ASSUME Always, NEW kind \in {"message", "info"}, NEW name \in {None, "given", "automatic"},
         Begins(agent, agent', kind, name), UNCHANGED <<helper, errand, blind, spoiled>>,
         title' \in {"free", "asked", "done"}
  PROVE  Always'
<1>1. IsManager(made, agent) /\ IsManager(made, helper) /\ AreMade(made) /\ log \in Logs(made)
  BY DEF Always, LogTypes
<1>2. agent.open /\ ~agent.materialized => ~log.there /\ ~deleted
  BY DEF Always, FileIsTheirs
<1>3. /\ agent.open /\ ~Busy(agent) /\ deleted' = deleted
      /\ log' = log \/ (log'.there /\ ~agent.materialized /\ ~deleted)
      /\ agent'.open = agent.open /\ agent'.materialized
      /\ log' \in Logs(made)
      /\ \/ /\ log'.there /\ NewEntry(agent, kind, name) \in Made
            /\ made' = Append(made, NewEntry(agent, kind, name)) /\ AreMade(made')
            /\ AtEntry(agent') /\ IsManager(made', agent')
         \/ made' = made /\ ~log'.there /\ log' = log /\ agent' = agent /\ ~Busy(agent')
  BY <1>1, <1>2, BeginsChanges DEF Always
<1>4. /\ AreMade(made') /\ log' \in Logs(made')
      /\ IsManager(made', agent') /\ IsManager(made', helper)
  BY <1>1, <1>3, ManagerGrows
<1>5. LogTypes'
  BY <1>3, <1>4 DEF Always, LogTypes
<1>6. ~Rewriting'
  BY <1>3 DEF Rewriting, AtEntry, Busy
<1>7. FileIsTheirs'
  BY <1>3, <1>6 DEF Always, FileIsTheirs, Rewriting
<1> QED
  BY <1>5, <1>7 DEF Always

LEMMA HelperBegins ==
  ASSUME Always, NEW kind \in {"message", "info"}, NEW name \in {None, "given", "automatic"},
         Begins(helper, helper', kind, name), UNCHANGED <<agent, title, blind, spoiled>>,
         errand' \in {None, "rename", "report"}
  PROVE  Always'
<1>1. IsManager(made, agent) /\ IsManager(made, helper) /\ AreMade(made) /\ log \in Logs(made)
  BY DEF Always, LogTypes
<1>2. helper.open => helper.materialized
  BY DEF Always, FileIsTheirs
<1>3. /\ helper.open /\ ~Busy(helper) /\ deleted' = deleted /\ log' = log
      /\ helper'.open /\ helper'.materialized
      /\ \/ /\ log.there /\ NewEntry(helper, kind, name) \in Made
            /\ made' = Append(made, NewEntry(helper, kind, name)) /\ AreMade(made')
            /\ AtEntry(helper') /\ IsManager(made', helper')
         \/ made' = made /\ ~log.there /\ helper' = helper /\ ~Busy(helper')
  <2>1. helper.open /\ ~helper.materialized => ~log.there /\ ~deleted
    BY <1>2
  <2> QED
    BY <1>1, <1>2, <2>1, BeginsChanges DEF Always
<1>4. /\ AreMade(made') /\ log' \in Logs(made')
      /\ IsManager(made', agent) /\ IsManager(made', helper')
  BY <1>1, <1>3, ManagerGrows
<1>5. Busy(helper') => Appending(helper')
  BY <1>3 DEF Appending
<1>6. LogTypes'
  BY <1>3, <1>4, <1>5 DEF Always, LogTypes
<1>7. FileIsTheirs'
  BY <1>3 DEF Always, FileIsTheirs, Rewriting
<1> QED
  BY <1>6, <1>7 DEF Always

LEMMA AgentWritesOn == ASSUME Always, AgentWrites PROVE Always'
<1>1. IsManager(made, agent) /\ IsManager(made, helper) /\ AreMade(made) /\ log \in Logs(made)
  BY DEF Always, LogTypes
<1>2. CASE WritesEntry(agent, agent', helper) /\ UNCHANGED helper
  <2>1. /\ IsManager(made, agent') /\ AtEntry(agent) /\ AtLine(agent')
        /\ agent'.open = agent.open /\ agent'.materialized = agent.materialized
        /\ spoiled' = Meets(helper)
        /\ UNCHANGED <<made, errand, title, deleted, blind, helper>>
        /\ log' \in Logs(made) /\ log'.there = log.there /\ (~log.there => log' = log)
    BY <1>1, <1>2, EntryChanges DEF Always
  <2>2. spoiled' \in BOOLEAN /\ (spoiled => spoiled')
    BY <2>1 DEF Meets, Always, LogTypes
  <2>3. LogTypes'
    BY <1>1, <2>1, <2>2 DEF Always, LogTypes
  <2>4. ~Rewriting'
    BY <2>1 DEF Rewriting, AtLine
  <2>5. FileIsTheirs'
    BY <2>1, <2>2, <2>4 DEF Always, FileIsTheirs, Rewriting
  <2> QED
    BY <2>3, <2>5 DEF Always
<1>3. CASE /\ Returns(agent, helper)
           /\ agent' = [agent EXCEPT !.known = @ \cup {agent.new}, !.leaf = agent.new,
                                     !.step = "idle", !.new = 0]
           /\ UNCHANGED <<helper, errand>>
  <2>1. /\ IsManager(made, agent') /\ blind' \in BOOLEAN
        /\ spoiled' = Meets(helper)
        /\ UNCHANGED <<made, errand, title, deleted, helper>>
        /\ log' \in Logs(made) /\ log'.there = log.there /\ (~log.there => log' = log)
    <3>1. blind' = (blind \/ (errand = "rename" /\ agent.open))
      BY <1>1, <1>3, ReturnChanges DEF Always
    <3>2. blind' \in BOOLEAN
      BY <3>1 DEF Always, LogTypes
    <3> QED
      BY <1>1, <1>3, <3>2, ReturnChanges DEF Always
  <2>2. agent'.open = agent.open /\ agent'.materialized = agent.materialized /\ agent'.step = "idle"
    BY <1>1, <1>3 DEF IsManager
  <2>3. spoiled' \in BOOLEAN /\ (spoiled => spoiled')
    BY <2>1 DEF Meets, Always, LogTypes
  <2>4. LogTypes'
    BY <1>1, <2>1, <2>3 DEF Always, LogTypes
  <2>5. FileIsTheirs'
    BY <2>1, <2>2, <2>3 DEF Always, FileIsTheirs, Rewriting
  <2> QED
    BY <2>4, <2>5 DEF Always
<1> QED
  BY <1>2, <1>3 DEF AgentWrites

LEMMA HelperWritesOn == ASSUME Always, HelperWrites PROVE Always'
<1>1. IsManager(made, agent) /\ IsManager(made, helper) /\ AreMade(made) /\ log \in Logs(made)
  BY DEF Always, LogTypes
<1>2. CASE WritesEntry(helper, helper', agent) /\ UNCHANGED agent
  <2>1. /\ IsManager(made, helper') /\ AtEntry(helper) /\ AtLine(helper')
        /\ helper'.open = helper.open /\ helper'.materialized = helper.materialized
        /\ spoiled' = Meets(agent)
        /\ UNCHANGED <<made, errand, title, deleted, blind, agent>>
        /\ log' \in Logs(made) /\ log'.there = log.there /\ log'.header = log.header
        /\ ~log.there => log' = log
    BY <1>1, <1>2, EntryChanges DEF Always
  <2>2. spoiled' \in BOOLEAN /\ (spoiled => spoiled')
    BY <2>1 DEF Meets, Always, LogTypes
  <2>3. LogTypes'
    BY <1>1, <2>1, <2>2 DEF Always, LogTypes, Appending
  <2>4. FileIsTheirs'
    BY <2>1, <2>2 DEF Always, FileIsTheirs, Rewriting
  <2> QED
    BY <2>3, <2>4 DEF Always
<1>3. CASE /\ Returns(helper, agent) /\ helper' = Closed /\ errand' = None /\ UNCHANGED agent
  <2>1. /\ blind' \in BOOLEAN /\ spoiled' = Meets(agent)
        /\ UNCHANGED <<made, title, deleted, agent>> /\ errand' = None
        /\ log' \in Logs(made) /\ log'.there = log.there /\ log'.header = log.header
        /\ ~log.there => log' = log
    <3>1. blind' = (blind \/ (errand = "rename" /\ agent.open))
      BY <1>1, <1>3, ReturnChanges DEF Always
    <3>2. blind' \in BOOLEAN
      BY <3>1 DEF Always, LogTypes
    <3> QED
      BY <1>1, <1>3, <3>2, ReturnChanges DEF Always
  <2>2. IsManager(made, helper') /\ ~helper'.open /\ ~Busy(helper')
    BY <1>1, <1>3, ClosedIs
  <2>3. spoiled' \in BOOLEAN /\ (spoiled => spoiled')
    BY <2>1 DEF Meets, Always, LogTypes
  <2>4. LogTypes'
    BY <1>1, <2>1, <2>2, <2>3 DEF Always, LogTypes
  <2>5. FileIsTheirs'
    BY <2>1, <2>2, <2>3 DEF Always, FileIsTheirs, Rewriting
  <2> QED
    BY <2>4, <2>5 DEF Always
<1> QED
  BY <1>2, <1>3 DEF HelperWrites

LEMMA FolderChanges ==
  ASSUME Always, ChangeFolder
  PROVE  /\ ~Busy(agent) /\ agent.open
         /\ agent'.open /\ agent'.known = agent.known /\ agent'.leaf = agent.leaf
         /\ agent'.new = agent.new /\ agent'.copy = log'.text
         /\ agent'.materialized /\ IsManager(made, agent')
         /\ agent'.step = "idle" \/ (agent'.step = "rewrite" /\ log'.there)
         /\ log' = log \/ (log'.there /\ ~agent.materialized /\ ~deleted)
         /\ log'.text = log.text /\ log' \in Logs(made)
<1>1. IsManager(made, agent) /\ AreMade(made) /\ log \in Logs(made)
  BY DEF Always, LogTypes
<1>2. PICK c \in Folders \ {agent.cwd} :
        /\ log' = Materialized(agent)
        /\ agent' = [agent EXCEPT !.materialized = TRUE,
                       !.step = IF log'.there /\ log'.header # None THEN "rewrite" ELSE "idle",
                       !.copy = log'.text]
  BY DEF ChangeFolder
<1>3. ~Busy(agent) /\ agent.open
  BY DEF ChangeFolder, Idle, Busy
<1>4. <<>> \in Lines(made) /\ agent.cwd \in Folders \cup {None}
  BY <1>1, ParentsAre DEF Lines, IsManager
<1>5. /\ log' = log \/ (log'.there /\ ~agent.materialized /\ ~deleted)
      /\ log'.text = log.text /\ log' \in Logs(made)
  <2>1. CASE agent.materialized
    BY <1>1, <1>2, <2>1 DEF Materialized
  <2>2. CASE ~agent.materialized
    <3>1. log' = [there |-> TRUE, header |-> agent.cwd, text |-> <<>>]
      BY <1>2, <2>2 DEF Materialized
    <3>2. log = NoLog /\ ~deleted
      BY <1>3, <2>2 DEF FileIsTheirs, Always
    <3> QED
      BY <1>4, <2>2, <3>1, <3>2 DEF NoLog, Logs
  <2> QED
    BY <2>1, <2>2
<1>6. /\ agent'.open = agent.open /\ agent'.known = agent.known /\ agent'.leaf = agent.leaf
      /\ agent'.new = agent.new /\ agent'.copy = log'.text /\ agent'.materialized
      /\ agent'.step = IF log'.there /\ log'.header # None THEN "rewrite" ELSE "idle"
  BY <1>1, <1>2 DEF IsManager
<1>7. log'.text \in Lines(made)
  BY <1>5 DEF Logs
<1>8. IsManager(made, agent')
  BY <1>1, <1>2, <1>3, <1>6, <1>7 DEF IsManager, Busy, Appending, AtEntry, AtLine
<1> QED
  BY <1>3, <1>5, <1>6, <1>8

LEMMA RewriteChanges ==
  ASSUME Always, Empty \/ Refill
  PROVE  /\ Rewriting /\ agent.open /\ agent.materialized
         /\ agent'.open /\ agent'.known = agent.known /\ agent'.leaf = agent.leaf
         /\ agent'.new = agent.new /\ agent'.materialized /\ IsManager(made, agent')
         /\ \/ agent'.step = "refill" /\ log'.header = None /\ agent'.copy = agent.copy
            \/ agent'.step = "idle"
         /\ log'.there /\ log' \in Logs(made)
         /\ (spoiled => spoiled') /\ spoiled' \in BOOLEAN
         /\ ~spoiled' => Text' = Text /\ ~Busy(helper)
<1>1. IsManager(made, agent) /\ AreMade(made) /\ log \in Logs(made)
  BY DEF Always, LogTypes
<1>2. <<>> \in Lines(made)
  BY <1>1, ParentsAre DEF Lines
<1>3. CASE Empty
  <2>1. /\ agent.step = "rewrite" /\ log' = [there |-> TRUE, header |-> None, text |-> <<>>]
        /\ agent' = [agent EXCEPT !.step = "refill"]
        /\ spoiled' = (Meets(helper) \/ log.text # agent.copy)
    BY <1>3 DEF Empty
  <2>2. agent.open /\ agent.materialized
    BY <1>1, <2>1 DEF IsManager, Busy
  <2>3. /\ agent'.open = agent.open /\ agent'.known = agent.known /\ agent'.leaf = agent.leaf
        /\ agent'.new = agent.new /\ agent'.materialized = agent.materialized
        /\ agent'.step = "refill" /\ agent'.copy = agent.copy
    BY <1>1, <2>1 DEF IsManager
  <2>4. IsManager(made, agent')
    BY <1>1, <2>1, <2>2, <2>3 DEF IsManager, Busy, Appending, AtEntry, AtLine
  <2>5. log' \in Logs(made) /\ log'.there /\ log'.header = None
    BY <1>2, <2>1 DEF Logs
  <2>6. Text' = agent.copy /\ Text = log.text
    BY <2>1, <2>3 DEF Text
  <2> QED
    BY <2>1, <2>2, <2>3, <2>4, <2>5, <2>6 DEF Rewriting, Meets, Always, LogTypes
<1>4. CASE Refill
  <2>1. PICK c \in Folders \ {agent.cwd} :
          /\ log' = [there |-> TRUE, header |-> c, text |-> agent.copy]
          /\ agent' = [agent EXCEPT !.step = "idle", !.copy = <<>>, !.cwd = c]
    BY <1>4 DEF Refill, Rest
  <2>2. agent.step = "refill" /\ spoiled' = Meets(helper)
    BY <1>4 DEF Refill
  <2>3. agent.open /\ agent.materialized
    BY <1>1, <2>2 DEF IsManager, Busy
  <2>4. /\ agent'.open = agent.open /\ agent'.known = agent.known /\ agent'.leaf = agent.leaf
        /\ agent'.new = agent.new /\ agent'.materialized = agent.materialized
        /\ agent'.step = "idle"
    BY <1>1, <2>1 DEF IsManager
  <2>5. IsManager(made, agent')
    BY <1>1, <1>2, <2>1, <2>3, <2>4 DEF IsManager, Busy, Appending, AtEntry, AtLine
  <2>6. log' \in Logs(made) /\ log'.there
    BY <1>1, <2>1 DEF Logs, IsManager
  <2>7. Text' = agent.copy /\ Text = agent.copy
    BY <2>1, <2>2, <2>4 DEF Text
  <2> QED
    BY <2>2, <2>3, <2>4, <2>5, <2>6, <2>7 DEF Rewriting, Meets, Always, LogTypes
<1> QED
  BY <1>3, <1>4


LEMMA CrashChanges ==
  ASSUME Always, Crash
  PROVE  /\ agent' = Closed /\ helper' = Closed /\ errand' = None /\ title' = "free"
         /\ UNCHANGED <<made, deleted, kept, lastBranch, given, blind>>
         /\ log' \in Logs(made) /\ log'.there = log.there /\ (~log.there => log' = log)
         /\ spoiled' = (spoiled \/ Busy(agent) \/ Busy(helper))
         /\ (~Busy(agent) /\ ~Busy(helper) => log' = log)
<1>1. AreMade(made) /\ log \in Logs(made)
  BY DEF Always, LogTypes
<1>2. /\ log' \in IF Busy(agent) THEN Cut(agent) ELSE Cut(helper)
      /\ agent' = Closed /\ helper' = Closed /\ errand' = None /\ title' = "free"
      /\ spoiled' = (spoiled \/ Busy(agent) \/ Busy(helper))
      /\ UNCHANGED <<made, deleted, kept, lastBranch, given, blind>>
  BY DEF Crash
<1>3. log' = log \/ (log.there /\ log' = [log EXCEPT !.text = Append(@, Torn)])
  BY <1>2 DEF Cut
<1>4. log' \in Logs(made) /\ log'.there = log.there /\ (~log.there => log' = log)
  <2>1. Append(log.text, Torn) \in Lines(made)
    <3>1. Torn \in (-1)..Len(made)
      BY <1>1, ParentsAre DEF Torn
    <3>2. log.text \in Lines(made)
      BY <1>1 DEF Logs
    <3> QED
      BY <3>1, <3>2 DEF Lines
  <2> QED
    BY <1>1, <1>3, <2>1 DEF Logs
<1>5. ~Busy(agent) /\ ~Busy(helper) => log' = log
  BY <1>2 DEF Cut, Busy
<1> QED
  BY <1>2, <1>4, <1>5

LEMMA AlwaysStep == Always /\ [LogNext]_logVars => Always'
<1> SUFFICES ASSUME Always, [LogNext]_logVars PROVE Always'
  OBVIOUS
<1>1. /\ AreMade(made) /\ log \in Logs(made)
      /\ IsManager(made, agent) /\ IsManager(made, helper)
      /\ Busy(helper) => Appending(helper)
      /\ errand \in {None, "rename", "report"} /\ title \in {"free", "asked", "done"}
      /\ deleted \in BOOLEAN /\ blind \in BOOLEAN /\ spoiled \in BOOLEAN
  BY DEF Always, LogTypes
<1>2. CASE Speak
  BY <1>1, <1>2, AgentBegins DEF Speak, Unblamed
<1>3. CASE RenameOpen
  <2>1. PICK name \in Names : Begins(agent, agent', "info", name)
    BY <1>3 DEF RenameOpen
  <2>2. name \in {None, "given", "automatic"}
    BY DEF Names
  <2> QED
    BY <1>1, <1>3, <2>1, <2>2, AgentBegins DEF RenameOpen, Unblamed
<1>4. CASE AskTitle
  <2>1. /\ UNCHANGED <<made, log, agent, helper, errand, deleted, blind, spoiled>>
        /\ title' = "asked"
    BY <1>4 DEF AskTitle, historyVars
  <2>2. LogTypes'
    BY <1>1, <2>1 DEF LogTypes
  <2> QED
    BY <2>1, <2>2 DEF Always, FileIsTheirs, Rewriting
<1>5. CASE PersistTitle
  <2>1. CASE StillUnnamed
    <3>1. Begins(agent, agent', "info", "automatic")
      BY <1>5, <2>1 DEF PersistTitle
    <3>2. title' = "done" /\ UNCHANGED <<helper, errand, blind, spoiled>>
      BY <1>5 DEF PersistTitle, Unblamed
    <3> QED
      BY <3>1, <3>2, AgentBegins
  <2>2. CASE ~StillUnnamed
    <3>1. title' = "done" /\ UNCHANGED <<made, log, agent, helper, errand, deleted, blind, spoiled>>
      BY <1>5, <2>2 DEF PersistTitle, Unblamed
    <3>2. LogTypes'
      BY <1>1, <3>1 DEF LogTypes
    <3> QED
      BY <3>1, <3>2 DEF Always, FileIsTheirs, Rewriting
  <2> QED
    BY <2>1, <2>2
<1>6. CASE AgentWrites
  BY <1>6, AgentWritesOn
<1>7. CASE Errand
  <2>1. /\ UNCHANGED <<made, log, agent, helper, title, deleted, blind, spoiled>>
        /\ errand' \in {"rename", "report"}
    BY <1>7 DEF Errand, historyVars
  <2>2. LogTypes'
    BY <1>1, <2>1 DEF LogTypes
  <2> QED
    BY <2>1, <2>2 DEF Always, FileIsTheirs, Rewriting
<1>8. CASE HelperOpens
  <2>1. UNCHANGED <<made, log, agent, title, deleted, blind, spoiled>> /\ ~helper.open
    BY <1>8 DEF HelperOpens, Unblamed
  <2>2. CASE Openable
    <3>1. helper' = Opened /\ errand' = errand /\ log.there
      BY <1>8, <2>2 DEF HelperOpens, Openable
    <3>2. IsManager(made, helper') /\ helper'.open /\ helper'.materialized /\ ~Busy(helper')
      BY <3>1, OpenedIs DEF Always
    <3>3. LogTypes'
      BY <1>1, <2>1, <3>1, <3>2 DEF LogTypes
    <3> QED
      BY <2>1, <3>1, <3>2, <3>3 DEF Always, FileIsTheirs, Rewriting
  <2>3. CASE ~Openable
    <3>1. UNCHANGED helper /\ errand' = None
      BY <1>8, <2>3 DEF HelperOpens
    <3>2. LogTypes'
      BY <1>1, <2>1, <3>1 DEF LogTypes
    <3> QED
      BY <2>1, <3>1, <3>2 DEF Always, FileIsTheirs, Rewriting
  <2> QED
    BY <2>2, <2>3
<1>9. CASE HelperSpeaks
  <2>1. /\ errand' \in {None, "rename", "report"} /\ UNCHANGED <<agent, title, blind, spoiled>>
    BY <1>1, <1>9 DEF HelperSpeaks, Unblamed
  <2>2. CASE errand = "rename" /\ \E name \in Names : Begins(helper, helper', "info", name)
    <3>1. PICK name \in Names : Begins(helper, helper', "info", name)
      BY <2>2
    <3>2. name \in {None, "given", "automatic"}
      BY DEF Names
    <3> QED
      BY <2>1, <3>1, <3>2, HelperBegins
  <2>3. CASE errand = "report" /\ Begins(helper, helper', "message", None)
    BY <2>1, <2>3, HelperBegins
  <2> QED
    BY <1>9, <2>2, <2>3 DEF HelperSpeaks
<1>10. CASE HelperWrites
  BY <1>10, HelperWritesOn
<1>11. CASE Activate
  <2>1. /\ ~agent.open /\ ~deleted /\ log.there /\ agent' = Opened /\ title' = "free"
        /\ UNCHANGED <<made, log, helper, errand, deleted, blind, spoiled>>
    BY <1>11 DEF Activate, Openable, historyVars
  <2>2. IsManager(made, agent') /\ agent'.open /\ agent'.materialized /\ ~Busy(agent')
    BY <2>1, OpenedIs DEF Always
  <2>3. LogTypes'
    BY <1>1, <2>1, <2>2 DEF LogTypes
  <2> QED
    BY <2>1, <2>2, <2>3 DEF Always, FileIsTheirs, Rewriting, Busy
<1>12. CASE ChangeFolder
  <2>1. /\ agent'.open /\ agent'.materialized /\ IsManager(made, agent')
        /\ agent'.step = "idle" \/ (agent'.step = "rewrite" /\ log'.there)
        /\ log' = log \/ (log'.there /\ ~agent.materialized /\ ~deleted)
        /\ log' \in Logs(made) /\ agent.open
    BY <1>12, FolderChanges
  <2>2. UNCHANGED <<made, helper, errand, title, deleted, blind, spoiled>>
    BY <1>12 DEF ChangeFolder, historyVars
  <2>3. LogTypes'
    BY <1>1, <2>1, <2>2 DEF LogTypes
  <2>4. ~log'.there => (log' = log /\ log = NoLog /\ ~Rewriting')
    BY <2>1 DEF Always, FileIsTheirs, Rewriting
  <2>5. FileIsTheirs'
    <3>1. deleted => log' = log
      BY <2>1
    <3>2. deleted /\ ~spoiled => ~log.there
      BY DEF Always, FileIsTheirs
    <3>3. ~log.there /\ ~deleted => ~agent.materialized
      BY DEF Always, FileIsTheirs
    <3>4. ~log'.there => deleted
      BY <1>12, <2>1, <3>3 DEF ChangeFolder, Materialized
    <3> QED
      BY <2>1, <2>2, <2>4, <3>1, <3>2, <3>4 DEF Always, FileIsTheirs, Rewriting
  <2> QED
    BY <2>3, <2>5 DEF Always
<1>13. CASE Empty \/ Refill
  <2>1. /\ Rewriting /\ agent'.open /\ agent'.materialized /\ IsManager(made, agent')
        /\ \/ agent'.step = "refill" /\ log'.header = None
           \/ agent'.step = "idle"
        /\ log'.there /\ log' \in Logs(made)
        /\ (spoiled => spoiled') /\ spoiled' \in BOOLEAN
    BY <1>13, RewriteChanges
  <2>2. UNCHANGED <<made, helper, errand, title, deleted, blind>>
    BY <1>13 DEF Empty, Refill
  <2>3. LogTypes'
    BY <1>1, <2>1, <2>2 DEF LogTypes
  <2>4. deleted => spoiled'
    BY <2>1 DEF Always, FileIsTheirs
  <2>5. FileIsTheirs'
    BY <2>1, <2>2, <2>4 DEF Always, FileIsTheirs, Rewriting
  <2> QED
    BY <2>3, <2>5 DEF Always
<1>14. CASE Delete
  <2>1. /\ log.there /\ ~deleted /\ log' = NoLog /\ deleted' = TRUE
        /\ spoiled' = (spoiled \/ agent.step \in {"rewrite", "refill"})
        /\ UNCHANGED <<made, agent, helper, errand, title, blind>>
    BY <1>14 DEF Delete, managerVars
  <2>2. log' \in Logs(made) /\ ~log'.there
    BY <1>1, <2>1, ParentsAre DEF Logs, NoLog, Lines
  <2>3. LogTypes'
    BY <1>1, <2>1, <2>2 DEF LogTypes
  <2>4. agent.open => agent.materialized
    BY <2>1 DEF Always, FileIsTheirs
  <2>5. log'.header = None
    BY <2>1 DEF NoLog
  <2>6. FileIsTheirs'
    BY <2>1, <2>2, <2>4, <2>5 DEF Always, FileIsTheirs, Rewriting
  <2> QED
    BY <2>3, <2>6 DEF Always
<1>15. CASE Crash
  <2>1. /\ agent' = Closed /\ helper' = Closed /\ errand' = None /\ title' = "free"
        /\ UNCHANGED <<made, deleted, blind>>
        /\ log' \in Logs(made) /\ log'.there = log.there /\ (~log.there => log' = log)
        /\ spoiled' = (spoiled \/ Busy(agent) \/ Busy(helper))
    BY <1>15, CrashChanges
  <2>2. /\ IsManager(made, agent') /\ ~agent'.open /\ ~Busy(agent') /\ ~agent'.materialized
        /\ IsManager(made, helper') /\ ~helper'.open /\ ~Busy(helper')
    BY <1>1, <2>1, ClosedIs
  <2>3. LogTypes'
    BY <1>1, <2>1, <2>2 DEF LogTypes
  <2>4. spoiled => spoiled'
    BY <2>1
  <2>5. FileIsTheirs'
    BY <2>1, <2>2, <2>4 DEF Always, FileIsTheirs, Rewriting, Busy
  <2> QED
    BY <2>3, <2>5 DEF Always
<1>16. CASE UNCHANGED logVars
  <2>1. UNCHANGED <<made, log, agent, helper, errand, title, deleted, blind, spoiled>>
    BY <1>16 DEF logVars, managerVars, historyVars
  <2>2. LogTypes'
    BY <1>1, <2>1 DEF LogTypes
  <2> QED
    BY <2>1, <2>2 DEF Always, FileIsTheirs, Rewriting
<1> QED
  BY <1>2, <1>3, <1>4, <1>5, <1>6, <1>7, <1>8, <1>9, <1>10, <1>11, <1>12, <1>13, <1>14, <1>15,
     <1>16 DEF LogNext

-----------------------------------------------------------------------------
(***************************************************************************)
(* A write that was cut short, that met another or that lost its file is   *)
(* never made good, so what can be trusted after a step could be before.   *)
(***************************************************************************)
LEMMA SoundBefore ==
  ASSUME Always, [LogNext]_logVars, Sound'
  PROVE  Sound
<1> SUFFICES ASSUME ~Sound PROVE FALSE
  OBVIOUS
<1>1. /\ ~spoiled' /\ ~deleted' /\ (~Busy(agent') \/ ~Busy(helper'))
      /\ spoiled \/ deleted \/ (Busy(agent) /\ Busy(helper))
      /\ Busy(agent) => agent.open
      /\ Busy(helper) => helper.open
  BY DEF Sound, Always, LogTypes, IsManager, Busy
<1>2. CASE Speak \/ RenameOpen \/ PersistTitle
  <2>1. spoiled' = spoiled /\ deleted' = deleted
    BY <1>2 DEF Speak, RenameOpen, PersistTitle, Begins, Unblamed
  <2>2. ~Busy(agent)
    BY <1>2 DEF Speak, RenameOpen, PersistTitle, Begins, Idle, Busy
  <2> QED
    BY <1>1, <2>1, <2>2
<1>3. CASE AskTitle \/ Errand \/ ChangeFolder \/ Activate
  <2>1. spoiled' = spoiled /\ deleted' = deleted
    BY <1>3 DEF AskTitle, Errand, ChangeFolder, Activate, historyVars
  <2>2. ~Busy(agent) \/ UNCHANGED <<agent, helper>>
    BY <1>1, <1>3 DEF AskTitle, Errand, ChangeFolder, Activate, Idle, Busy
  <2> QED
    BY <1>1, <2>1, <2>2
<1>4. CASE AgentWrites \/ HelperWrites
  <2>1. deleted' = deleted /\ (spoiled' = Meets(helper) \/ spoiled' = Meets(agent))
    BY <1>4 DEF AgentWrites, HelperWrites, WritesEntry, Returns
  <2> QED
    BY <1>1, <2>1 DEF Meets
<1>5. CASE HelperOpens \/ HelperSpeaks
  <2>1. spoiled' = spoiled /\ deleted' = deleted
    BY <1>5 DEF HelperOpens, HelperSpeaks, Begins, Unblamed
  <2>2. ~Busy(helper)
    BY <1>1, <1>5 DEF HelperOpens, HelperSpeaks, Begins, Idle, Busy
  <2> QED
    BY <1>1, <2>1, <2>2
<1>6. CASE Empty \/ Refill
  BY <1>1, <1>6 DEF Empty, Refill, Meets
<1>7. CASE Delete
  BY <1>1, <1>7 DEF Delete
<1>8. CASE Crash
  BY <1>1, <1>8 DEF Crash
<1>9. CASE UNCHANGED logVars
  BY <1>1, <1>9 DEF logVars, managerVars, historyVars
<1> QED
  BY <1>2, <1>3, <1>4, <1>5, <1>6, <1>7, <1>8, <1>9 DEF LogNext

LEMMA TrustedParts ==
  ASSUME Always
  PROVE  /\ AreMade(made) /\ Len(made) \in Nat /\ log \in Logs(made) /\ log.text \in Lines(made)
         /\ IsManager(made, agent) /\ IsManager(made, helper)
         /\ Text \in Lines(made)
<1>1. /\ AreMade(made) /\ log \in Logs(made)
      /\ IsManager(made, agent) /\ IsManager(made, helper)
  BY DEF Always, LogTypes
<1>2. log.text \in Lines(made) /\ agent.copy \in Lines(made)
  BY <1>1 DEF Logs, IsManager
<1> QED
  BY <1>1, <1>2, ParentsAre DEF Text

(***************************************************************************)
(* A step that leaves the record and what the managers know.               *)
(***************************************************************************)
LEMMA TrustedStays ==
  ASSUME Trusted, made' = made, Text' = Text, UNCHANGED <<kept, lastBranch, given, blind>>,
         Like(agent, agent'), Like(helper, helper'),
         errand' = errand \/ ~Appending(helper) \/ errand # "rename"
  PROVE  Trusted'
<1>1. Recorded(made, Text, kept, lastBranch, agent', helper')
  BY RecordedLike DEF Trusted
<1>2. HelperSays(made, errand', helper')
  BY DEF Trusted, HelperSays, Like, Appending
<1>3. Confirmed(Text, agent', helper') = Confirmed(Text, agent, helper)
  BY DEF Confirmed, InLine, Like
<1>4. ~blind => Named(made, Confirmed(Text, agent, helper), given, agent')
  BY NamedLike DEF Trusted
<1> QED
  BY <1>1, <1>2, <1>3, <1>4 DEF Trusted

LEMMA TrustedAgentBegins ==
  ASSUME Always, Trusted, Sound', NEW kind \in {"message", "info"},
         NEW name \in {None, "given", "automatic"}, Begins(agent, agent', kind, name),
         UNCHANGED <<helper, errand, given, blind>>,
         name = "automatic" /\ ~blind /\ ~Busy(helper) => given = None
  PROVE  Trusted'
<1> DEFINE e == NewEntry(agent, kind, name)
<1>1. /\ AreMade(made) /\ Len(made) \in Nat /\ Text \in Lines(made)
      /\ IsManager(made, agent) /\ IsManager(made, helper)
  BY TrustedParts
<1>2. agent.open /\ ~agent.materialized => ~log.there /\ ~deleted
  BY DEF Always, FileIsTheirs
<1>3. /\ agent.open /\ ~Busy(agent) /\ UNCHANGED <<kept, lastBranch>> /\ log'.text = log.text
      /\ agent'.open = agent.open /\ agent'.known = agent.known /\ agent'.leaf = agent.leaf
      /\ \/ /\ e \in Made /\ made' = Append(made, e) /\ AreMade(made')
            /\ AtEntry(agent') /\ agent'.new = Len(made) + 1
         \/ made' = made /\ agent' = agent
  BY <1>1, <1>2, BeginsChanges DEF Always
<1>4. Text = log.text /\ Text' = log'.text
  BY <1>3 DEF Text, Busy, AtEntry
<1>5. CASE made' = made /\ agent' = agent
  BY <1>3, <1>4, <1>5, TrustedStays DEF Like
<1>6. CASE /\ e \in Made /\ made' = Append(made, e) /\ AreMade(made')
           /\ AtEntry(agent') /\ agent'.new = Len(made) + 1
  <2>1. ~Busy(helper) /\ ~AtLine(agent) /\ ~AtLine(helper) /\ ~AtLine(agent') /\ ~Appending(helper)
    BY <1>3, <1>6 DEF Sound, Busy, AtEntry, AtLine, Appending
  <2>2. e.parent = agent.leaf /\ e.name = name
    BY DEF NewEntry
  <2> HIDE DEF e
  <2>3. Recorded(made', Text, kept, lastBranch, agent', helper)
    BY <1>1, <1>3, <1>6, <2>1, <2>2, RecordedBegin DEF Trusted
  <2>4. Confirmed(Text, agent, helper) \in SUBSET (1..Len(made))
    BY <1>1, ConfirmedAre
  <2>5. Confirmed(Text, agent', helper) = Confirmed(Text, agent, helper)
    BY <2>1 DEF Confirmed, InLine
  <2>6. ~blind => Named(made', Confirmed(Text, agent, helper), given, agent')
    <3>1. SUFFICES ASSUME ~blind
                   PROVE  Named(made', Confirmed(Text, agent, helper), given, agent')
      OBVIOUS
    <3>2. Named(made, Confirmed(Text, agent, helper), given, agent)
      BY <3>1 DEF Trusted
    <3>3. e.name = "automatic" => given = None
      BY <2>1, <2>2, <3>1
    <3> QED
      BY <1>1, <1>3, <1>6, <2>4, <3>2, <3>3, NamedBegin
  <2>7. HelperSays(made', errand, helper)
    BY <2>1 DEF HelperSays
  <2> QED
    BY <1>3, <1>4, <2>3, <2>5, <2>6, <2>7 DEF Trusted
<1> QED
  BY <1>3, <1>5, <1>6

LEMMA TrustedHelperBegins ==
  ASSUME Always, Trusted, Sound', NEW kind \in {"message", "info"}, NEW name \in {None, "given"},
         Begins(helper, helper', kind, name), UNCHANGED <<agent, given, blind>>,
         kind = "info" => errand = "rename",
         errand' = IF Busy(helper') THEN errand ELSE None
  PROVE  Trusted'
<1> DEFINE e == NewEntry(helper, kind, name)
<1>1. /\ AreMade(made) /\ Len(made) \in Nat /\ Text \in Lines(made)
      /\ IsManager(made, agent) /\ IsManager(made, helper)
  BY TrustedParts
<1>2. helper.open => helper.materialized
  BY DEF Always, FileIsTheirs
<1>3. /\ helper.open /\ ~Busy(helper) /\ UNCHANGED <<kept, lastBranch>> /\ log' = log
      /\ helper'.open = helper.open /\ helper'.known = helper.known /\ helper'.leaf = helper.leaf
      /\ \/ /\ e \in Made /\ made' = Append(made, e) /\ AreMade(made')
            /\ AtEntry(helper') /\ helper'.new = Len(made) + 1
         \/ made' = made /\ helper' = helper
  <2>1. helper.open /\ ~helper.materialized => ~log.there /\ ~deleted
    BY <1>2
  <2> QED
    BY <1>1, <1>2, <2>1, BeginsChanges DEF Always
<1>4. Text' = Text
  BY <1>3 DEF Text
<1>5. CASE made' = made /\ helper' = helper
  <2>1. ~Appending(helper)
    BY <1>3 DEF Appending, AtEntry, AtLine, Busy
  <2> QED
    BY <1>3, <1>4, <1>5, <2>1, TrustedStays DEF Like
<1>6. CASE /\ e \in Made /\ made' = Append(made, e) /\ AreMade(made')
           /\ AtEntry(helper') /\ helper'.new = Len(made) + 1
  <2>1. /\ ~Busy(agent) /\ ~AtLine(agent) /\ ~AtLine(helper) /\ ~AtLine(helper')
        /\ ~Appending(agent) /\ Busy(helper')
    BY <1>3, <1>6 DEF Sound, Busy, AtEntry, AtLine, Appending
  <2>2. e.parent = helper.leaf /\ e.name = name /\ e.kind = kind
    BY DEF NewEntry
  <2> HIDE DEF e
  <2>3. Recorded(made', Text, kept, lastBranch, agent, helper')
    <3>1. Recorded(made, Text, kept, lastBranch, helper, agent)
      BY RecordedTurned DEF Trusted
    <3>2. Recorded(made', Text, kept, lastBranch, helper', agent)
      BY <1>1, <1>3, <1>6, <2>1, <2>2, <3>1, RecordedBegin
    <3> QED
      BY <3>2, RecordedTurned
  <2>4. Confirmed(Text, agent, helper) \in SUBSET (1..Len(made))
    BY <1>1, ConfirmedAre
  <2>5. Confirmed(Text, agent, helper') = Confirmed(Text, agent, helper)
    BY <2>1 DEF Confirmed, InLine
  <2>6. ~blind => Named(made', Confirmed(Text, agent, helper), given, agent)
    BY <1>1, <1>6, <2>1, <2>4, NamedBegin DEF Trusted
  <2>7. HelperSays(made', errand', helper')
    <3>1. made'[helper'.new] = e
      BY <1>1, <1>6, Grown
    <3> QED
      BY <2>1, <2>2, <3>1, LogAssumption DEF HelperSays
  <2> QED
    BY <1>3, <1>4, <2>3, <2>5, <2>6, <2>7 DEF Trusted
<1> QED
  BY <1>3, <1>5, <1>6


LEMMA TrustedAgentWrites ==
  ASSUME Always, Trusted, Sound, Sound', AgentWrites
  PROVE  Trusted'
<1>1. /\ AreMade(made) /\ Len(made) \in Nat /\ Text \in Lines(made)
      /\ IsManager(made, agent) /\ IsManager(made, helper)
  BY TrustedParts
<1>2. Busy(agent) => log.there
  BY <1>1 DEF IsManager, Always, FileIsTheirs, Sound
<1>3. /\ Recorded(made, Text, kept, lastBranch, agent, helper)
      /\ Confirmed(Text, agent, helper) \in SUBSET (1..Len(made))
      /\ ~blind => Named(made, Confirmed(Text, agent, helper), given, agent)
  <2>1. Confirmed(Text, agent, helper) \in SUBSET (1..Len(made))
    BY <1>1, ConfirmedAre
  <2> QED
    BY <2>1 DEF Trusted
<1>4. ~spoiled'
  BY DEF Sound
<1>5. CASE WritesEntry(agent, agent', helper) /\ UNCHANGED helper
  <2>1. /\ AtEntry(agent) /\ AtLine(agent')
        /\ agent'.open = agent.open /\ agent'.known = agent.known /\ agent'.leaf = agent.leaf
        /\ agent'.new = agent.new /\ spoiled' = Meets(helper)
        /\ UNCHANGED <<made, errand, kept, lastBranch, given, blind, helper>>
        /\ log.there => log'.text = log.text \o <<agent.new>>
    BY <1>1, <1>5, EntryChanges DEF Always
  <2>2. ~Busy(helper) /\ ~Appending(helper) /\ Appending(agent) /\ Appending(agent')
    BY <1>4, <2>1 DEF Meets, Busy, Appending, AtEntry, AtLine
  <2>3. Text' = Text \o <<agent.new>>
    BY <1>2, <2>1 DEF Text, Busy, AtEntry, AtLine
  <2>4. /\ Recorded(made, Text', kept, lastBranch, agent', helper)
        /\ Confirmed(Text', agent', helper) = Confirmed(Text, agent, helper)
    BY <1>1, <1>3, <2>1, <2>2, <2>3, RecordedEntry
  <2>5. ~blind => Named(made, Confirmed(Text, agent, helper), given, agent')
    BY <1>3, <2>1, <2>2 DEF Named
  <2>6. HelperSays(made, errand, helper)
    BY DEF Trusted
  <2> QED
    BY <2>1, <2>4, <2>5, <2>6 DEF Trusted
<1>6. CASE /\ Returns(agent, helper)
           /\ agent' = [agent EXCEPT !.known = @ \cup {agent.new}, !.leaf = agent.new,
                                     !.step = "idle", !.new = 0]
           /\ UNCHANGED <<helper, errand>>
  <2>1. /\ AtLine(agent) /\ agent.open
        /\ kept' = kept \cup {agent.new}
        /\ lastBranch' = BranchOf(made, agent.known \cup {agent.new}, agent.new)
        /\ given' = IF made[agent.new].kind = "info" /\ made[agent.new].name # "automatic"
                    THEN made[agent.new].name ELSE given
        /\ blind' = (blind \/ (errand = "rename" /\ agent.open))
        /\ spoiled' = Meets(helper) /\ made' = made
        /\ log.there => log'.text = log.text \o <<0>>
    BY <1>1, <1>6, ReturnChanges DEF Always
  <2>2. agent'.open = agent.open /\ agent'.known = agent.known \cup {agent.new} /\ agent'.step = "idle"
    BY <1>1, <1>6 DEF IsManager
  <2>3. /\ ~Busy(helper) /\ ~Appending(helper) /\ Appending(agent) /\ ~Appending(agent')
        /\ HasAppended(agent, agent')
    BY <1>4, <2>1, <2>2 DEF Meets, Busy, Appending, AtEntry, AtLine, HasAppended
  <2>4. Text' = Text \o <<0>>
    BY <1>2, <2>1, <2>2 DEF Text, Busy, AtLine
  <2>5. /\ Recorded(made, Text', kept', lastBranch', agent', helper)
        /\ Confirmed(Text', agent', helper) = Confirmed(Text, agent, helper) \cup {agent.new}
        /\ agent.new = Len(made) /\ agent.new \in 1..Len(made)
    <3>1. /\ Recorded(made, Text \o <<0>>, kept \cup {agent.new},
                      BranchOf(made, agent.known \cup {agent.new}, agent.new), agent', helper)
          /\ Confirmed(Text \o <<0>>, agent', helper) = Confirmed(Text, agent, helper) \cup {agent.new}
          /\ agent.new = Len(made) /\ agent.new \in 1..Len(made)
      BY <1>1, <1>3, <2>1, <2>3, RecordedEnd
    <3> QED
      BY <2>1, <2>4, <3>1
  <2>6. ASSUME ~blind'
        PROVE  Named(made, Confirmed(Text, agent, helper) \cup {agent.new}, given', agent')
    <3>1. Named(made, Confirmed(Text, agent, helper), given, agent)
      BY <1>3, <2>1, <2>6
    <3>2. made[agent.new].name = "automatic" => given = None
      BY <2>3, <3>1 DEF Named
    <3>3. agent'.open => /\ agent.open /\ agent.known \subseteq agent'.known
                         /\ made[agent.new].kind = "info" => agent.new \in agent'.known
      BY <2>1, <2>2
    <3> QED
      BY <1>1, <1>3, <2>1, <2>3, <2>5, <3>1, <3>2, <3>3, NamedEnd
  <2>7. HelperSays(made, errand, helper)
    BY <2>3 DEF HelperSays
  <2> QED
    BY <1>6, <2>1, <2>5, <2>6, <2>7 DEF Trusted
<1> QED
  BY <1>5, <1>6 DEF AgentWrites

LEMMA TrustedHelperWrites ==
  ASSUME Always, Trusted, Sound, Sound', HelperWrites
  PROVE  Trusted'
<1>1. /\ AreMade(made) /\ Len(made) \in Nat /\ Text \in Lines(made)
      /\ IsManager(made, agent) /\ IsManager(made, helper)
  BY TrustedParts
<1>2. Busy(helper) => log.there
  BY <1>1 DEF IsManager, Always, FileIsTheirs, Sound
<1>3. /\ Recorded(made, Text, kept, lastBranch, helper, agent)
      /\ Confirmed(Text, agent, helper) = Confirmed(Text, helper, agent)
      /\ Confirmed(Text, agent, helper) \in SUBSET (1..Len(made))
      /\ ~blind => Named(made, Confirmed(Text, agent, helper), given, agent)
      /\ HelperSays(made, errand, helper)
  <2>1. /\ Confirmed(Text, agent, helper) \in SUBSET (1..Len(made))
        /\ Confirmed(Text, agent, helper) = Confirmed(Text, helper, agent)
    BY <1>1, ConfirmedAre
  <2> QED
    BY <2>1, RecordedTurned DEF Trusted
<1>4. ~spoiled'
  BY DEF Sound
<1>5. CASE WritesEntry(helper, helper', agent) /\ UNCHANGED agent
  <2>1. /\ AtEntry(helper) /\ AtLine(helper')
        /\ helper'.open = helper.open /\ helper'.known = helper.known /\ helper'.leaf = helper.leaf
        /\ helper'.new = helper.new /\ spoiled' = Meets(agent)
        /\ UNCHANGED <<made, errand, kept, lastBranch, given, blind, agent>>
        /\ log.there => log'.text = log.text \o <<helper.new>>
    BY <1>1, <1>5, EntryChanges DEF Always
  <2>2. ~Busy(agent) /\ Appending(helper) /\ Appending(helper') /\ Busy(helper)
    BY <1>4, <2>1 DEF Meets, Busy, Appending, AtEntry, AtLine
  <2>3. Text' = Text \o <<helper.new>>
    BY <1>2, <2>1, <2>2 DEF Text, Busy
  <2>4. /\ Recorded(made, Text', kept, lastBranch, helper', agent)
        /\ Confirmed(Text', helper', agent) = Confirmed(Text, helper, agent)
    BY <1>1, <1>3, <2>1, <2>2, <2>3, RecordedEntry
  <2>5. /\ Recorded(made, Text', kept, lastBranch, agent, helper')
        /\ Confirmed(Text', agent, helper') = Confirmed(Text, agent, helper)
    BY <1>3, <2>4, RecordedTurned DEF Confirmed
  <2>6. HelperSays(made, errand, helper')
    BY <1>3, <2>1, <2>2 DEF HelperSays
  <2> QED
    BY <1>3, <2>1, <2>5, <2>6 DEF Trusted
<1>6. CASE /\ Returns(helper, agent) /\ helper' = Closed /\ errand' = None /\ UNCHANGED agent
  <2>1. /\ AtLine(helper)
        /\ kept' = kept \cup {helper.new}
        /\ lastBranch' = BranchOf(made, helper.known \cup {helper.new}, helper.new)
        /\ given' = IF made[helper.new].kind = "info" /\ made[helper.new].name # "automatic"
                    THEN made[helper.new].name ELSE given
        /\ blind' = (blind \/ (errand = "rename" /\ agent.open))
        /\ spoiled' = Meets(agent) /\ made' = made
        /\ log.there => log'.text = log.text \o <<0>>
    BY <1>1, <1>6, ReturnChanges DEF Always
  <2>2. ~Closed.open /\ ~Busy(Closed)
    BY <1>1, ClosedIs
  <2>3. /\ ~Busy(agent) /\ ~Appending(agent) /\ Appending(helper) /\ ~Appending(helper')
        /\ Busy(helper) /\ HasAppended(helper, helper')
    BY <1>4, <1>6, <2>1, <2>2 DEF Meets, Busy, Appending, AtEntry, AtLine, HasAppended
  <2>4. Text' = Text \o <<0>>
    BY <1>2, <1>6, <2>1, <2>3 DEF Text, Busy
  <2>5. /\ Recorded(made, Text', kept', lastBranch', helper', agent)
        /\ Confirmed(Text', helper', agent) = Confirmed(Text, helper, agent) \cup {helper.new}
        /\ helper.new = Len(made) /\ helper.new \in 1..Len(made)
    <3>1. /\ Recorded(made, Text \o <<0>>, kept \cup {helper.new},
                      BranchOf(made, helper.known \cup {helper.new}, helper.new), helper', agent)
          /\ Confirmed(Text \o <<0>>, helper', agent) = Confirmed(Text, helper, agent) \cup {helper.new}
          /\ helper.new = Len(made) /\ helper.new \in 1..Len(made)
      BY <1>1, <1>3, <2>1, <2>3, RecordedEnd
    <3> QED
      BY <2>1, <2>4, <3>1
  <2>6. /\ Recorded(made, Text', kept', lastBranch', agent, helper')
        /\ Confirmed(Text', agent, helper') = Confirmed(Text, agent, helper) \cup {helper.new}
    BY <1>3, <2>5, RecordedTurned DEF Confirmed
  <2>7. ASSUME ~blind'
        PROVE  Named(made, Confirmed(Text, agent, helper) \cup {helper.new}, given', agent)
    <3>1. Named(made, Confirmed(Text, agent, helper), given, agent)
      BY <1>3, <2>1, <2>7
    <3>2. made[helper.new].name # "automatic"
      BY <1>3, <2>3 DEF HelperSays
    <3>3. agent.open => made[helper.new].kind # "info"
      BY <1>3, <2>1, <2>3, <2>7 DEF HelperSays
    <3> QED
      <4>1. /\ ~Appending(agent) /\ helper.new \in 1..Len(made) /\ helper.new = Len(made)
            /\ made[helper.new].name = "automatic" => given = None
            /\ agent.open => (made[helper.new].kind = "info" => helper.new \in agent.known)
        BY <2>3, <2>5, <3>2, <3>3
      <4>2. Named(made, Confirmed(Text, agent, helper) \cup {helper.new},
                  IF made[helper.new].kind = "info" /\ made[helper.new].name # "automatic"
                  THEN made[helper.new].name ELSE given, agent)
        BY <1>1, <1>3, <3>1, <4>1, NamedEnd
      <4> QED
        BY <2>1, <4>2
  <2>8. HelperSays(made, errand', helper')
    BY <2>3 DEF HelperSays
  <2> QED
    BY <1>6, <2>1, <2>6, <2>7, <2>8 DEF Trusted
<1> QED
  BY <1>5, <1>6 DEF HelperWrites

(***************************************************************************)
(* What can be trusted still can after a step, as long as no write is      *)
(* spoiled.                                                                *)
(***************************************************************************)
LEMMA TrustedStep ==
  ASSUME Always, Sound => Trusted, [LogNext]_logVars, Sound'
  PROVE  Trusted'
<1>1. Sound /\ Trusted
  BY SoundBefore
<1>2. /\ AreMade(made) /\ Len(made) \in Nat /\ Text \in Lines(made) /\ log \in Logs(made)
      /\ IsManager(made, agent) /\ IsManager(made, helper)
  BY TrustedParts
<1>3. /\ Recorded(made, Text, kept, lastBranch, agent, helper)
      /\ HelperSays(made, errand, helper)
      /\ ~blind => Named(made, Confirmed(Text, agent, helper), given, agent)
  BY <1>1 DEF Trusted
<1>4. Confirmed(Text, agent, helper) \in SUBSET Ids(Text)
  BY <1>2, ConfirmedAre
<1>5. CASE Speak
  <2>1. Begins(agent, agent', "message", None) /\ UNCHANGED <<helper, errand, given, blind>>
    BY <1>5 DEF Speak, Unblamed
  <2>2. None # "automatic"
    BY LogAssumption
  <2> QED
    BY <1>1, <2>1, <2>2, TrustedAgentBegins
<1>6. CASE RenameOpen
  <2>1. PICK name \in Names : Begins(agent, agent', "info", name)
    BY <1>6 DEF RenameOpen
  <2>2. name \in {None, "given"} /\ UNCHANGED <<helper, errand, given, blind>>
    BY <1>6 DEF Names, RenameOpen, Unblamed
  <2>3. name # "automatic"
    BY <2>2, LogAssumption
  <2> QED
    BY <1>1, <2>1, <2>2, <2>3, TrustedAgentBegins
<1>7. CASE AskTitle \/ Errand
  <2>1. /\ UNCHANGED <<made, log, agent, helper, kept, lastBranch, given, blind>>
        /\ errand' = errand \/ errand = None
    BY <1>7 DEF AskTitle, Errand, historyVars
  <2>2. Text' = Text /\ (errand' = errand \/ errand # "rename")
    BY <2>1, LogAssumption DEF Text
  <2> QED
    BY <1>1, <2>1, <2>2, TrustedStays DEF Like
<1>8. CASE PersistTitle
  <2>1. CASE StillUnnamed
    <3>1. Begins(agent, agent', "info", "automatic") /\ UNCHANGED <<helper, errand, given, blind>>
      BY <1>8, <2>1 DEF PersistTitle, Unblamed
    <3>2. ASSUME ~blind, ~Busy(helper), given # None PROVE FALSE
      <4>1. ~Busy(agent) /\ agent.open
        BY <1>8 DEF PersistTitle, Idle, Busy
      <4>2. Confirmed(Text, agent, helper) = Ids(Text)
        BY <3>2, <4>1 DEF Confirmed, InLine, AtLine, Busy
      <4>3. NameOf(made, Ids(Text)) = given /\ Infos(made, Ids(Text)) \subseteq agent.known
        BY <1>3, <3>2, <4>1, <4>2 DEF Named
      <4>4. agent.known \subseteq Ids(Text)
        BY <1>3, <4>1 DEF Recorded, KnowsItsWay
      <4>5. Infos(made, Ids(Text)) = Infos(made, agent.known)
        BY <4>3, <4>4 DEF Infos
      <4>6. NameOf(made, agent.known) = given
        BY <4>3, <4>5 DEF NameOf
      <4>7. NameIn(agent.known) = NameOf(made, agent.known)
        BY DEF NameIn, NameOf, Infos
      <4> QED
        BY <2>1, <3>2, <4>6, <4>7 DEF StillUnnamed
    <3> QED
      BY <1>1, <3>1, <3>2, TrustedAgentBegins
  <2>2. CASE ~StillUnnamed
    <3>1. UNCHANGED <<made, log, agent, helper, errand, kept, lastBranch, given, blind>>
      BY <1>8, <2>2 DEF PersistTitle, Unblamed
    <3>2. Text' = Text
      BY <3>1 DEF Text
    <3> QED
      BY <1>1, <3>1, <3>2, TrustedStays DEF Like
  <2> QED
    BY <2>1, <2>2
<1>9. CASE AgentWrites
  BY <1>1, <1>9, TrustedAgentWrites
<1>10. CASE HelperOpens
  <2>1. UNCHANGED <<made, log, agent, kept, lastBranch, given, blind>> /\ ~helper.open
    BY <1>10 DEF HelperOpens, Unblamed
  <2>2. Text' = Text /\ ~Busy(helper) /\ ~Appending(helper)
    BY <1>2, <2>1 DEF Text, IsManager, Busy, Appending, AtEntry, AtLine
  <2>3. CASE Openable
    <3>1. helper' = Opened /\ errand' = errand /\ log.header # None
      BY <1>10, <2>3 DEF HelperOpens, Openable
    <3>2. agent.step # "refill"
      BY <1>1, <3>1 DEF Always, FileIsTheirs, Sound
    <3>3. helper'.open /\ ~Busy(helper') /\ helper'.known = Ids(Text)
      BY <3>1, <3>2, OpenedIs DEF Always, Text
    <3>4. Recorded(made, Text, kept, lastBranch, agent, helper')
      <4>1. Recorded(made, Text, kept, lastBranch, helper', agent)
        BY <1>3, <2>2, <3>3, RecordedTurned, RecordedOpen
      <4> QED
        BY <4>1, RecordedTurned
    <3>5. ~AtLine(helper) /\ ~AtLine(helper') /\ ~Appending(helper')
      BY <2>2, <3>3 DEF Busy, Appending, AtEntry, AtLine
    <3>6. Confirmed(Text, agent, helper') = Confirmed(Text, agent, helper)
      BY <3>5 DEF Confirmed, InLine
    <3>7. HelperSays(made, errand, helper')
      BY <3>5 DEF HelperSays
    <3> QED
      BY <1>3, <2>1, <2>2, <3>1, <3>4, <3>6, <3>7 DEF Trusted
  <2>4. CASE ~Openable
    <3>1. UNCHANGED helper
      BY <1>10, <2>4 DEF HelperOpens
    <3> QED
      BY <1>1, <2>1, <2>2, <3>1, TrustedStays DEF Like
  <2> QED
    BY <2>3, <2>4
<1>11. CASE HelperSpeaks
  <2>1. /\ errand' = IF Busy(helper') THEN errand ELSE None
        /\ UNCHANGED <<agent, given, blind>>
    BY <1>11 DEF HelperSpeaks, Unblamed
  <2>2. CASE errand = "rename" /\ \E name \in Names : Begins(helper, helper', "info", name)
    <3>1. PICK name \in {None, "given"} : Begins(helper, helper', "info", name)
      BY <2>2 DEF Names
    <3> QED
      BY <1>1, <2>1, <2>2, <3>1, TrustedHelperBegins
  <2>3. CASE errand = "report" /\ Begins(helper, helper', "message", None)
    BY <1>1, <2>1, <2>3, TrustedHelperBegins
  <2> QED
    BY <1>11, <2>2, <2>3 DEF HelperSpeaks
<1>12. CASE HelperWrites
  BY <1>1, <1>12, TrustedHelperWrites
<1>13. CASE Activate
  <2>1. /\ ~agent.open /\ agent' = Opened
        /\ UNCHANGED <<made, log, helper, errand, kept, lastBranch, given, blind>>
    BY <1>13 DEF Activate, historyVars
  <2>2. ~Busy(agent)
    BY <1>2, <2>1 DEF IsManager
  <2>3. agent'.open /\ ~Busy(agent') /\ agent'.known = Ids(Text) /\ Text' = Text
    BY <2>1, <2>2, OpenedIs DEF Always, Text, Busy
  <2>4. Recorded(made, Text, kept, lastBranch, agent', helper)
    BY <1>3, <2>2, <2>3, RecordedOpen
  <2>5. ~AtLine(agent) /\ ~AtLine(agent') /\ ~Appending(agent')
    BY <2>2, <2>3 DEF Busy, Appending, AtEntry, AtLine
  <2>6. Confirmed(Text, agent', helper) = Confirmed(Text, agent, helper)
    BY <2>5 DEF Confirmed, InLine
  <2>7. Infos(made, Confirmed(Text, agent, helper)) \subseteq agent'.known
    BY <1>4, <2>3 DEF Infos
  <2>8. ~blind => Named(made, Confirmed(Text, agent, helper), given, agent')
    BY <1>3, <2>5, <2>7, NamedMoves
  <2> QED
    BY <1>3, <2>1, <2>3, <2>4, <2>6, <2>8 DEF Trusted
<1>14. CASE ChangeFolder
  <2>1. /\ ~Busy(agent)
        /\ agent'.open = agent.open /\ agent'.known = agent.known /\ agent'.leaf = agent.leaf
        /\ agent'.new = agent.new /\ agent'.step \in {"idle", "rewrite"} /\ log'.text = log.text
    BY <1>14, FolderChanges
  <2>2. UNCHANGED <<made, helper, errand, kept, lastBranch, given, blind>>
    BY <1>14 DEF ChangeFolder, historyVars
  <2>3. Text' = Text /\ Like(agent, agent') /\ Like(helper, helper')
    BY <2>1, <2>2 DEF Text, Like, Busy, AtEntry, AtLine
  <2> QED
    BY <1>1, <2>2, <2>3, TrustedStays
<1>15. CASE Empty \/ Refill
  <2>1. /\ Rewriting /\ agent'.open = agent.open
        /\ agent'.known = agent.known /\ agent'.leaf = agent.leaf
        /\ agent'.new = agent.new /\ agent'.step \in {"idle", "refill"}
        /\ ~spoiled' => Text' = Text
    BY <1>15, RewriteChanges
  <2>2. UNCHANGED <<made, helper, errand, kept, lastBranch, given, blind>>
    BY <1>15 DEF Empty, Refill
  <2>3. Text' = Text /\ Like(agent, agent') /\ Like(helper, helper')
    BY <2>1, <2>2 DEF Sound, Like, Rewriting, AtEntry, AtLine
  <2> QED
    BY <1>1, <2>2, <2>3, TrustedStays
<1>16. CASE Delete
  BY <1>16 DEF Delete, Sound
<1>17. CASE Crash
  <2>1. /\ agent' = Closed /\ helper' = Closed /\ log' = log
        /\ UNCHANGED <<made, kept, lastBranch, given, blind>>
        /\ ~Busy(agent) /\ ~Busy(helper)
    BY <1>17, CrashChanges DEF Sound
  <2>2. ~Closed.open /\ ~Busy(Closed)
    BY <1>2, ClosedIs
  <2>3. Text' = Text
    BY <2>1, <2>2 DEF Text, Busy
  <2>4. Recorded(made, Text, kept, lastBranch, Closed, Closed)
    <3>1. Recorded(made, Text, kept, lastBranch, Closed, helper)
      BY <1>3, <2>1, <2>2, RecordedOpen
    <3>2. Recorded(made, Text, kept, lastBranch, helper, Closed)
      BY <3>1, RecordedTurned
    <3> QED
      BY <2>1, <2>2, <3>2, RecordedOpen
  <2>5. ~AtLine(agent) /\ ~AtLine(helper) /\ ~AtLine(Closed) /\ ~Appending(Closed)
    BY <2>1, <2>2 DEF Busy, Appending, AtEntry, AtLine
  <2>6. Confirmed(Text, Closed, Closed) = Confirmed(Text, agent, helper)
    BY <2>5 DEF Confirmed, InLine
  <2>7. ~blind => Named(made, Confirmed(Text, agent, helper), given, Closed)
    BY <1>3, <2>2, <2>5, NamedMoves
  <2>8. HelperSays(made, errand', Closed)
    BY <2>5 DEF HelperSays
  <2> QED
    BY <2>1, <2>3, <2>4, <2>6, <2>7, <2>8 DEF Trusted
<1>18. CASE UNCHANGED logVars
  <2>1. UNCHANGED <<made, log, agent, helper, errand, kept, lastBranch, given, blind>>
    BY <1>18 DEF logVars, managerVars, historyVars
  <2>2. Text' = Text
    BY <2>1 DEF Text
  <2> QED
    BY <1>1, <2>1, <2>2, TrustedStays DEF Like
<1> QED
  BY <1>5, <1>6, <1>7, <1>8, <1>9, <1>10, <1>11, <1>12, <1>13, <1>14, <1>15, <1>16, <1>17,
     <1>18 DEF LogNext

LEMMA LogAlways == LogSpec => []LogIInv
<1>1. LogIInv /\ [LogNext]_logVars => LogIInv'
  BY AlwaysStep, TrustedStep DEF LogIInv, Always
<1> QED
  BY <1>1, LogStart, PTL DEF LogSpec

(***************************************************************************)
(* Whatever the order in which an agent, a helper, a deletion and crashes  *)
(* come to a session file, for any number of entries: unless two writes    *)
(* met or one was cut short, a confirmed entry stays, whoever opens the    *)
(* file is on the branch of the last writer, the user's name is the one    *)
(* that is read, and a deleted file does not come back.                    *)
(***************************************************************************)
THEOREM ConfirmedIsKept == LogSpec => []LogInvariant
<1>1. LogIInv => LogInvariant
  <2> SUFFICES ASSUME LogIInv PROVE LogInvariant
    OBVIOUS
  <2>1. Always
    BY DEF LogIInv, Always
  <2>2. /\ AreMade(made) /\ Len(made) \in Nat /\ log \in Logs(made) /\ log.text \in Lines(made)
        /\ IsManager(made, agent) /\ IsManager(made, helper) /\ Text \in Lines(made)
    BY <2>1, TrustedParts
  <2>3. LogTypeOK
    <3>1. \A i \in DOMAIN made :
            /\ made[i].parent \in 0..(i - 1)
            /\ made[i].kind \in {"message", "info"} /\ made[i].name \in {None, "given", "automatic"}
      <4>1. DOMAIN made = 1..Len(made)
        BY <2>2 DEF AreMade
      <4>2. \A i \in 1..Len(made) : made[i] \in Made /\ made[i].parent \in 0..(i - 1)
        BY <2>2, ParentsAre
      <4> QED
        BY <4>1, <4>2 DEF Made
    <3>2. /\ log.there \in BOOLEAN /\ log.header \in Folders \cup {None}
          /\ log.text \in Seq(-1..Len(made))
      BY <2>2 DEF Logs, Lines
    <3>3. ASSUME NEW m, IsManager(made, m) PROVE m \in Managers
      <4>1. MaxMade \in Nat /\ Len(made) <= MaxMade
        BY <2>2, LogAssumption DEF AreMade
      <4>2. /\ SUBSET (1..Len(made)) \subseteq SUBSET (1..MaxMade) /\ 0..Len(made) \subseteq 0..MaxMade
            /\ (-1)..Len(made) \subseteq (-1)..MaxMade
        BY <2>2, <4>1
      <4>3. Lines(made) \subseteq Seq(-1..MaxMade)
        <5>1. (-1)..Len(made) \subseteq (-1)..MaxMade
          BY <4>2
        <5>2. ASSUME NEW lines \in Seq((-1)..Len(made)) PROVE lines \in Seq((-1)..MaxMade)
          BY <5>1, SeqMonotonic
        <5> QED
          BY <5>2 DEF Lines
      <4> QED
        BY <3>3, <4>2, <4>3 DEF IsManager, Managers
    <3>4. agent.leaf \in agent.known \cup {0}
      BY <2>2 DEF IsManager
    <3>5. errand \in {None, "rename", "report"} /\ title \in {"free", "asked", "done"}
      BY <2>1 DEF Always, LogTypes
    <3> QED
      BY <2>2, <3>1, <3>2, <3>3, <3>4, <3>5 DEF LogTypeOK
  <2>4. ASSUME Still, ~deleted
        PROVE  /\ Trusted /\ Text = log.text
               /\ ~AtLine(agent) /\ ~AtLine(helper)
    BY <2>4 DEF LogIInv, Still, Sound, Text, Busy, AtLine
  <2>5. ConfirmedStays
    BY <2>4 DEF ConfirmedStays, Trusted, Recorded
  <2>6. ReopenedIsTheBranch
    <3>1. \A known, leaf : Branch(known, leaf) = BranchOf(made, known, leaf)
      BY DEF Branch, BranchOf
    <3> QED
      BY <2>4, <3>1 DEF ReopenedIsTheBranch, Trusted, Recorded
  <2>7. ManualRenameWins
    <3> SUFFICES ASSUME Still, ~deleted, ~blind, given # None
                 PROVE  NameIn(Ids(log.text)) = given
      BY DEF ManualRenameWins
    <3>1. Confirmed(Text, agent, helper) = Ids(log.text)
      BY <2>4 DEF Confirmed, InLine
    <3>2. NameOf(made, Ids(log.text)) = given
      BY <2>4, <3>1 DEF Trusted, Named
    <3> QED
      BY <3>2 DEF NameIn, NameOf, Infos
  <2>8. DeletedStaysDeleted
    BY <2>1 DEF DeletedStaysDeleted, Always, FileIsTheirs
  <2> QED
    BY <2>3, <2>5, <2>6, <2>7, <2>8 DEF LogInvariant
<1> QED
  BY <1>1, LogAlways, PTL
=============================================================================
