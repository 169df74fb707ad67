----------------------------- MODULE StoresProofs -----------------------------
(***************************************************************************)
(* Proofs about what the program keeps outside of the sessions, for every  *)
(* number of calls, threads, commands, subagents and prompts: the model    *)
(* configuration, the stored credentials, the settings and the subagents   *)
(* of a session, one section for each.                                     *)
(***************************************************************************)
EXTENDS Stores, SubagentManager, SelectionTheorems, FunctionTheorems, FiniteSetTheorems

-----------------------------------------------------------------------------
(***************************************************************************)
(* ModelConfig.  The types of what a thread carries.                       *)
(***************************************************************************)
Marks == {Free, Disabled} \cup {Word(w) : w \in Wordings}
KeyValues == [Files -> Keys \cup {None}]
ThreadType ==
  [step : {"idle", "load", "env", "empty", "fill", "replace", "lock", "write", "ask", "store"},
   file : Files, key : Keys \cup {None}, map : Map, effort : Efforts \cup {None},
   tries : Seq(Wordings), learn : Marks, values : KeyValues]

ConfigTypes ==
  /\ keys \in KeyValues /\ chosen \in [Files -> Keys]
  /\ efforts \in Map /\ known \in Map /\ learned \in Map
  /\ env \in [whole : BOOLEAN, values : KeyValues]
  /\ envTemp \in [whole : BOOLEAN, values : KeyValues]
  /\ threads \in [Threads -> ThreadType]
  /\ accepts \in Acceptances /\ events \in 0..MaxEvents
  /\ \A t \in Threads :
       /\ threads[t].step \in {"ask", "load", "store"} => threads[t].effort \in Efforts
       /\ At(t, "ask") => threads[t].tries # <<>>

InMutex(t) == threads[t].step \in {"empty", "fill", "replace"}
InLock(t) == threads[t].step \in {"write", "store"}

(***************************************************************************)
(* One thread at a time is under the mutex of the environment file, and    *)
(* one under the lock of the configuration; what they are about to write   *)
(* is what is there, with their own added.                                 *)
(***************************************************************************)
OneAtATime ==
  /\ \A t, u \in Threads : InMutex(t) /\ InMutex(u) => t = u
  /\ \A t, u \in Threads : InLock(t) /\ InLock(u) => t = u
  /\ \A t \in Threads :
       InMutex(t) => /\ env.values[threads[t].file] = None
                     /\ threads[t].values
                          = [env.values EXCEPT ![threads[t].file] = threads[t].key]
  /\ \A t \in Threads :
       At(t, "replace") => envTemp = [whole |-> TRUE, values |-> threads[t].values]
  /\ \A t \in Threads : At(t, "store") => threads[t].map = efforts

(***************************************************************************)
(* Keys are the user's: in the files, in the hands of a thread, and in the *)
(* environment before a reference to it is written.                        *)
(***************************************************************************)
KeysAreTheUsers ==
  /\ env.whole
  /\ \A f \in Files : chosen[f] = IF keys[f] = None THEN env.values[f] ELSE keys[f]
  /\ \A t \in Threads :
       /\ threads[t].step \in {"env", "empty", "fill", "replace", "lock", "write"} =>
            threads[t].key = chosen[threads[t].file]
       /\ threads[t].step \in {"lock", "write"} =>
            env.values[threads[t].file] = chosen[threads[t].file]

(***************************************************************************)
(* What has been tried of an effort and is no longer to be tried was       *)
(* refused; a mark that disables an effort stands for a refusal of         *)
(* everything there was to try, wherever it has got to.                    *)
(***************************************************************************)
Refused(e) ==
  /\ accepts # Wordings
  /\ e \in Alternates => \A i \in DOMAIN Standard[e] : Standard[e][i] \notin accepts

DisabledWasRefused ==
  /\ \A e \in Efforts : Disabled \in {efforts[e], known[e], learned[e]} => Refused(e)
  /\ \A t \in Threads, e \in Efforts :
       /\ threads[t].step \in {"env", "empty", "fill", "replace", "lock", "write", "store"}
       /\ threads[t].map[e] = Disabled
       => Refused(e)
  /\ \A t \in Threads :
       /\ threads[t].effort \in Efforts /\ threads[t].learn = Disabled => Refused(threads[t].effort)
       /\ At(t, "ask") /\ threads[t].effort \in Alternates =>
            \A i \in DOMAIN Standard[threads[t].effort] :
              \/ Standard[threads[t].effort][i] \notin accepts
              \/ \E j \in DOMAIN threads[t].tries :
                   threads[t].tries[j] = Standard[threads[t].effort][i]

ConfigIInv ==
  /\ ConfigTypes
  /\ OneAtATime
  /\ KeysAreTheUsers
  /\ DisabledWasRefused

(***************************************************************************)
(* A thread's turn changes its own record and no other.                    *)
(***************************************************************************)
LEMMA TurnsOnly ==
  ASSUME threads \in [Threads -> ThreadType], NEW t \in Threads, NEW thread, Turns(t, thread)
  PROVE  /\ threads'[t] = thread
         /\ \A u \in Threads : u # t => threads'[u] = threads[u]
         /\ thread \in ThreadType => threads' \in [Threads -> ThreadType]
BY DEF Turns

(***************************************************************************)
(* A thread that rests has the types of one.                               *)
(***************************************************************************)
LEMMA RestingType == Resting \in ThreadType
<1>1. <<>> \in Seq(Wordings)
  BY EmptySeq
<1>2. Unset \in Map
  BY DEF Unset, Map
<1> QED
  BY <1>1, <1>2, ConfigAssumption DEF Resting, ThreadType, Marks, KeyValues

(***************************************************************************)
(* The wordings to try of an effort: a sequence of wordings that has, of   *)
(* an effort with alternates, all the standard ones.                       *)
(***************************************************************************)
LEMMA AttemptsTry ==
  ASSUME NEW map \in Map, NEW e \in Efforts, Attempts(map, e) # <<>>
  PROVE  /\ Attempts(map, e) \in Seq(Wordings)
         /\ e \in Alternates =>
              \A i \in DOMAIN Standard[e] :
                \E j \in DOMAIN Attempts(map, e) : Attempts(map, e)[j] = Standard[e][i]
<1> DEFINE s == Standard[e]
           w == map[e].word
           k == Kept(s, Wordings \ {w})
<1>1. s \in Seq(Wordings)
  BY ConfigAssumption
<1>2. CASE map[e] = Free
  <2>1. Attempts(map, e) = s
    BY <1>2 DEF Attempts, Free, Disabled
  <2> QED
    BY <1>1, <2>1
<1>3. CASE map[e] \notin {Free, Disabled}
  <2>1. w \in Wordings
    BY <1>3 DEF Map, Word
  <2>2. k \in Seq(Wordings)
    BY <1>1, KeptType
  <2>3. Attempts(map, e) = IF e \in Alternates THEN <<w>> \o k ELSE <<w>>
    BY <1>3 DEF Attempts
  <2> HIDE DEF w, k
  <2>4. <<w>> \o k \in Seq(Wordings)
    BY <2>1, <2>2, ConcatProperties
  <2>5. ASSUME NEW i \in DOMAIN s, e \in Alternates
        PROVE  \E j \in DOMAIN Attempts(map, e) : Attempts(map, e)[j] = s[i]
    <3>1. CASE s[i] = w
      BY <2>1, <2>2, <2>3, <2>5, <3>1
    <3>2. CASE s[i] # w
      <4>1. PICK j \in 1..Len(k) : k[j] = s[i]
        <5>1. i \in 1..Len(s) /\ s[i] \in Wordings \ {w}
          BY <1>1, <2>5, <3>2
        <5>2. \A n \in 1..Len(s) :
                s[n] \in Wordings \ {w} => \E j \in 1..Len(k) : k[j] = s[n]
          <6> HIDE DEF s
          <6> QED
            BY <1>1, KeptMembers DEF k
        <5> QED
          BY <5>1, <5>2
      <4>2. j + 1 \in DOMAIN (<<w>> \o k) /\ (<<w>> \o k)[j + 1] = k[j]
        BY <2>1, <2>2
      <4> QED
        BY <2>3, <2>5, <4>1, <4>2
    <3> QED
      BY <3>1, <3>2
  <2> QED
    BY <2>1, <2>3, <2>4, <2>5
<1> QED
  BY <1>2, <1>3 DEF Attempts

(***************************************************************************)
(* The initial states have the types, and nothing is under way in them.    *)
(***************************************************************************)
LEMMA ConfigInitInv == ConfigInit => ConfigIInv
<1> SUFFICES ASSUME ConfigInit
             PROVE  ConfigIInv
  OBVIOUS
<1>1. \A t \in Threads : threads[t] = Resting
  BY DEF ConfigInit
<1>2. ConfigTypes
  BY <1>1, RestingType, ConfigAssumption
     DEF ConfigInit, ConfigTypes, KeyValues, Resting, Map, Unset, At
<1>3. OneAtATime
  BY <1>1 DEF OneAtATime, InMutex, InLock, At, Resting
<1>4. KeysAreTheUsers
  BY <1>1 DEF ConfigInit, KeysAreTheUsers, Resting
<1>5. DisabledWasRefused
  BY <1>1, ConfigAssumption
     DEF ConfigInit, DisabledWasRefused, Resting, Unset, At, Free, Disabled, Word
<1> QED
  BY <1>2, <1>3, <1>4, <1>5 DEF ConfigIInv

(***************************************************************************)
(* Every step keeps the types.                                             *)
(***************************************************************************)
LEMMA ConfigTypesStep ==
  ASSUME ConfigTypes, [ConfigNext]_configVars
  PROVE  ConfigTypes'
<1> USE DEF ConfigTypes, At
<1>1. ASSUME NEW t \in Threads, NEW f \in Files, Load(t, f) PROVE ConfigTypes'
  <2> DEFINE thread == [threads[t] EXCEPT !.step = "env", !.file = f, !.key = keys[f],
                                          !.map = efforts]
  <2>1. thread \in ThreadType /\ thread.step = "env"
    <3>1. keys[f] \in Keys \cup {None} /\ threads[t] \in ThreadType /\ efforts \in Map
      BY DEF KeyValues
    <3> QED
      BY <3>1 DEF ThreadType
  <2> HIDE DEF thread
  <2>2. Turns(t, thread)
    BY <1>1 DEF Load, thread
  <2> QED
    BY <1>1, <2>1, <2>2, TurnsOnly DEF Load
<1>2. ASSUME NEW t \in Threads, EnvReads(t) PROVE ConfigTypes'
  <2> DEFINE filled == [threads[t] EXCEPT !.step = "empty",
                          !.values = [env.values EXCEPT ![threads[t].file] = threads[t].key]]
             locks == [threads[t] EXCEPT !.step = "lock"]
  <2>1. /\ filled \in ThreadType /\ filled.step = "empty"
        /\ locks \in ThreadType /\ locks.step = "lock"
    BY ZenonT(60) DEF ThreadType, KeyValues
  <2> HIDE DEF filled, locks
  <2>2. Turns(t, filled) \/ Turns(t, locks) \/ Turns(t, Resting)
    BY <1>2 DEF EnvReads, Rests, filled, locks
  <2> QED
    BY <1>2, <2>1, <2>2, TurnsOnly, RestingType DEF EnvReads, Resting
<1>3. ASSUME NEW t \in Threads, EnvWrites(t) PROVE ConfigTypes'
  <2>1. \A step \in {"fill", "replace", "lock"} :
          LET thread == [threads[t] EXCEPT !.step = step]
          IN thread \in ThreadType /\ thread.step = step
    BY ZenonT(60) DEF ThreadType
  <2>2. PICK step \in {"fill", "replace", "lock"} :
          Turns(t, [threads[t] EXCEPT !.step = step])
    BY <1>3 DEF EnvWrites
  <2>3. /\ threads' \in [Threads -> ThreadType]
        /\ threads'[t].step = step
        /\ \A u \in Threads : u # t => threads'[u] = threads[u]
    BY <2>1, <2>2, TurnsOnly
  <2>4. env.values \in KeyValues /\ threads[t].values \in KeyValues
    BY DEF ThreadType
  <2>5. /\ env' = env \/ env' = envTemp
        /\ \/ envTemp' = envTemp
           \/ envTemp' = [whole |-> FALSE, values |-> env.values]
           \/ envTemp' = [whole |-> TRUE, values |-> threads[t].values]
    BY <1>3 DEF EnvWrites, ToTemporary
  <2>6. /\ env' \in [whole : BOOLEAN, values : KeyValues]
        /\ envTemp' \in [whole : BOOLEAN, values : KeyValues]
    <3>1. \A whole \in BOOLEAN, v \in KeyValues :
            [whole |-> whole, values |-> v] \in [whole : BOOLEAN, values : KeyValues]
      OBVIOUS
    <3>2. /\ [whole |-> FALSE, values |-> env.values] \in [whole : BOOLEAN, values : KeyValues]
          /\ [whole |-> TRUE, values |-> threads[t].values]
               \in [whole : BOOLEAN, values : KeyValues]
      BY <2>4, <3>1
    <3> QED
      BY <2>5, <3>2, Zenon
  <2> QED
    BY <1>3, <2>3, <2>6 DEF EnvWrites
<1>4. ASSUME NEW t \in Threads, WritesBack(t) PROVE ConfigTypes'
  <2> DEFINE loads == [threads[t] EXCEPT !.step = "load", !.key = None]
             locks == [threads[t] EXCEPT !.step = "write"]
  <2>1. /\ loads \in ThreadType /\ loads.effort = threads[t].effort /\ loads.step = "load"
        /\ locks \in ThreadType /\ locks.step = "write"
    BY DEF ThreadType
  <2> HIDE DEF loads, locks
  <2>2. \/ Turns(t, locks) \/ Turns(t, Resting)
        \/ Turns(t, loads) /\ threads[t].effort # None
    BY <1>4, Zenon DEF WritesBack, loads, locks
  <2>3. threads[t].effort \in Efforts \cup {None} /\ threads[t].map \in Map
    BY DEF ThreadType
  <2>4. /\ threads' \in [Threads -> ThreadType]
        /\ \A u \in Threads :
             /\ threads'[u].step \in {"ask", "load", "store"} => threads'[u].effort \in Efforts
             /\ threads'[u].step = "ask" => threads'[u].tries # <<>>
    BY <2>1, <2>2, <2>3, TurnsOnly, RestingType DEF Resting
  <2>5. keys' \in KeyValues /\ efforts' \in Map
    BY <1>4, <2>3 DEF WritesBack, KeyValues
  <2> QED
    BY <1>4, <2>4, <2>5 DEF WritesBack
<1>5. ASSUME NEW t \in Threads, NEW e \in Efforts, Ask(t, e) PROVE ConfigTypes'
  <2> DEFINE tries == Attempts(Effective, e)
             thread == [Resting EXCEPT !.step = "ask", !.effort = e, !.tries = tries]
  <2>1. Effective \in Map
    BY DEF Effective, Map
  <2>2. tries \in Seq(Wordings) /\ tries # <<>>
    BY <1>5, <2>1, AttemptsTry DEF Ask
  <2>3. Turns(t, thread)
    BY <1>5 DEF Ask
  <2> HIDE DEF tries
  <2>4. thread \in ThreadType /\ thread.effort = e /\ thread.tries = tries
    BY <2>2, RestingType DEF ThreadType, Resting
  <2> HIDE DEF thread
  <2> QED
    BY <1>5, <2>2, <2>3, <2>4, TurnsOnly DEF Ask
<1>6. ASSUME NEW t \in Threads, NEW what \in Marks, Learns(t, what), At(t, "ask")
      PROVE  /\ threads' \in [Threads -> ThreadType]
             /\ learned' \in Map
             /\ \A u \in Threads :
                  /\ threads'[u].step \in {"ask", "load", "store"} => threads'[u].effort \in Efforts
                  /\ threads'[u].step = "ask" => threads'[u].tries # <<>>
  <2> DEFINE thread == [threads[t] EXCEPT !.step = "load", !.tries = <<>>, !.learn = what]
  <2>1. threads[t].effort \in Efforts
    BY <1>6
  <2>2. thread \in ThreadType /\ thread.effort \in Efforts /\ thread.step = "load"
    <3>1. <<>> \in Seq(Wordings)
      BY EmptySeq
    <3> QED
      BY <2>1, <3>1, ZenonT(60) DEF ThreadType
  <2> HIDE DEF thread
  <2>3. Turns(t, thread)
    BY <1>6 DEF Learns, thread
  <2>4. learned' \in Map
    BY <1>6, <2>1 DEF Learns, Map, Marks
  <2> QED
    BY <2>2, <2>3, <2>4, TurnsOnly
<1>7. ASSUME NEW t \in Threads, At(t, "ask")
      PROVE  /\ Head(threads[t].tries) \in Wordings
             /\ Tail(threads[t].tries) \in Seq(Wordings)
             /\ MoreToTry(threads[t].tries) => Tail(threads[t].tries) # <<>>
  <2>1. threads[t].tries \in Seq(Wordings) /\ threads[t].tries # <<>>
    BY <1>7 DEF ThreadType
  <2> DEFINE tries == threads[t].tries
  <2> HIDE DEF tries
  <2>2. tries \in Seq(Wordings) /\ tries # <<>>
    BY <2>1 DEF tries
  <2>3. Head(tries) \in Wordings /\ Tail(tries) \in Seq(Wordings) /\ Len(Tail(tries)) = Len(tries) - 1
    BY <2>2, HeadTailProperties
  <2>4. MoreToTry(tries) => Tail(tries) # <<>>
    <3>1. Len(tries) \in Nat /\ Len(<<>>) = 0
      BY <2>2, LenProperties
    <3>2. Len(tries) > 1 => Len(Tail(tries)) # 0
      BY <2>3, <3>1
    <3> QED
      BY <3>1, <3>2, Zenon DEF MoreToTry
  <2> QED
    BY <2>3, <2>4 DEF tries
<1>8. ASSUME NEW t \in Threads, Accepted(t) PROVE ConfigTypes'
  <2>1. Word(Head(threads[t].tries)) \in Marks /\ At(t, "ask")
    BY <1>7, <1>8 DEF Accepted, Marks
  <2>2. Learns(t, Word(Head(threads[t].tries)))
    BY <1>8 DEF Accepted
  <2> QED
    BY <1>6, <1>8, <2>1, <2>2 DEF Accepted
<1>9. ASSUME NEW t \in Threads, Failed(t) PROVE ConfigTypes'
  <2>1. At(t, "ask") /\ events' \in 0..MaxEvents
    BY <1>9, ConfigAssumption DEF Failed, Event
  <2> DEFINE thread == [threads[t] EXCEPT !.tries = Tail(@)]
  <2>2. CASE Learns(t, Disabled)
    <3>1. Disabled \in Marks
      BY DEF Marks
    <3> QED
      BY <1>6, <1>9, <2>1, <2>2, <3>1 DEF Failed
  <2>3. CASE Turns(t, thread) /\ MoreToTry(threads[t].tries) /\ UNCHANGED learned
    <3>1. /\ thread \in ThreadType /\ thread.effort \in Efforts /\ thread.tries # <<>>
      BY <1>7, <2>1, <2>3, ZenonT(60) DEF ThreadType
    <3> HIDE DEF thread
    <3> QED
      BY <1>9, <2>1, <2>3, <3>1, TurnsOnly DEF Failed
  <2>4. CASE Rests(t) /\ UNCHANGED learned
    BY <1>9, <2>1, <2>4, TurnsOnly, RestingType DEF Failed, Rests, Resting
  <2> QED
    BY <1>9, <2>2, <2>3, <2>4, Zenon DEF Failed
<1>10. ASSUME NEW t \in Threads, Stores(t) PROVE ConfigTypes'
  <2> DEFINE thread == [threads[t] EXCEPT !.step = "store", !.map = efforts]
  <2>1. CASE Turns(t, thread) /\ At(t, "load") /\ UNCHANGED efforts
    <3>1. thread \in ThreadType /\ thread.effort \in Efforts /\ thread.step = "store"
      BY <2>1 DEF ThreadType
    <3> HIDE DEF thread
    <3> QED
      BY <1>10, <2>1, <3>1, TurnsOnly DEF Stores
  <2>2. CASE /\ Rests(t) /\ At(t, "store")
             /\ efforts' = [threads[t].map EXCEPT ![threads[t].effort] = threads[t].learn]
    <3>1. efforts' \in Map
      BY <2>2 DEF ThreadType, Map, Marks
    <3> QED
      BY <1>10, <2>2, <3>1, TurnsOnly, RestingType DEF Stores, Rests, Resting
  <2> QED
    BY <1>10, <2>1, <2>2 DEF Stores, AsOnFile
<1>11. ASSUME NEW f \in Files, Edit(f) PROVE ConfigTypes'
  BY <1>11, ConfigAssumption DEF Edit, Event, KeyValues
<1>12. CASE Restart
  BY <1>12, RestingType, ConfigAssumption DEF Restart, Event, Resting, Unset, Map
<1>13. CASE UNCHANGED configVars
  BY <1>13 DEF configVars
<1> QED
  BY <1>1, <1>2, <1>3, <1>4, <1>5, <1>8, <1>9, <1>10, <1>11, <1>12, <1>13
     DEF ConfigNext, ConfigStep

(***************************************************************************)
(* What a turn does to the invariant's parts about one thread: nothing to  *)
(* those of the others.                                                    *)
(***************************************************************************)
LEMMA OneAtATimeStep ==
  ASSUME ConfigTypes, OneAtATime, [ConfigNext]_configVars
  PROVE  OneAtATime'
<1> USE DEF OneAtATime, InMutex, InLock, At
<1>0. /\ threads \in [Threads -> ThreadType]
      /\ env.values \in KeyValues
      /\ \A t \in Threads : threads[t].file \in Files
  BY DEF ConfigTypes, ThreadType
<1>5. ASSUME NEW t \in Threads, ~InMutex(t)', ~InLock(t)',
             \A u \in Threads : u # t => threads'[u] = threads[u],
             UNCHANGED <<efforts, env, envTemp>>
      PROVE  OneAtATime'
  BY <1>5
<1>1. ASSUME NEW t \in Threads, NEW f \in Files, Load(t, f) PROVE OneAtATime'
  <2>1. threads'[t].step = "env" /\ \A u \in Threads : u # t => threads'[u] = threads[u]
    BY <1>0, <1>1 DEF Load, Turns, ThreadType
  <2> QED
    BY <1>1, <1>5, <2>1 DEF Load
<1>2. ASSUME NEW t \in Threads, EnvReads(t) PROVE OneAtATime'
  <2>1. CASE Rests(t)
    <3>1. threads'[t].step = "idle" /\ \A u \in Threads : u # t => threads'[u] = threads[u]
      BY <1>0, <2>1 DEF Rests, Turns, Resting
    <3> QED
      BY <1>2, <1>5, <3>1 DEF EnvReads
  <2>2. CASE Turns(t, [threads[t] EXCEPT !.step = "lock"])
    <3>1. threads'[t].step = "lock" /\ \A u \in Threads : u # t => threads'[u] = threads[u]
      BY <1>0, <2>2 DEF Turns, ThreadType
    <3> QED
      BY <1>2, <1>5, <3>1 DEF EnvReads
  <2>3. CASE /\ env.values[threads[t].file] = None
             /\ Turns(t, [threads[t] EXCEPT !.step = "empty",
                            !.values = [env.values EXCEPT ![threads[t].file] = threads[t].key]])
    <3>1. /\ threads'[t].step = "empty" /\ threads'[t].file = threads[t].file
          /\ threads'[t].key = threads[t].key
          /\ threads'[t].values = [env.values EXCEPT ![threads[t].file] = threads[t].key]
          /\ \A u \in Threads : u # t => threads'[u] = threads[u]
      BY <1>0, <2>3 DEF Turns, ThreadType
    <3>2. \A u \in Threads : ~InMutex(u)
      BY <1>2 DEF EnvReads, MutexFree, NobodyAt
    <3> QED
      BY <1>2, <2>3, <3>1, <3>2 DEF EnvReads
  <2> QED
    BY <1>2, <2>1, <2>2, <2>3 DEF EnvReads
<1>3. ASSUME NEW t \in Threads, EnvWrites(t) PROVE OneAtATime'
  <2>1. \A step \in {"fill", "replace", "lock"} :
          Turns(t, [threads[t] EXCEPT !.step = step]) =>
            /\ threads'[t].step = step /\ threads'[t].file = threads[t].file
            /\ threads'[t].key = threads[t].key /\ threads'[t].values = threads[t].values
            /\ threads'[t].map = threads[t].map
            /\ \A u \in Threads : u # t => threads'[u] = threads[u]
    BY <1>0 DEF Turns, ThreadType
  <2>2. CASE At(t, "empty")
    BY <1>3, <2>1, <2>2 DEF EnvWrites, ToTemporary
  <2>3. CASE At(t, "fill")
    BY <1>3, <2>1, <2>3, SMTT(30) DEF EnvWrites, ToTemporary
  <2>4. CASE At(t, "replace")
    BY <1>3, <2>1, <2>4 DEF EnvWrites
  <2> QED
    BY <1>3, <2>2, <2>3, <2>4 DEF EnvWrites
<1>4. ASSUME NEW t \in Threads, WritesBack(t) PROVE OneAtATime'
  <2>1. CASE At(t, "lock")
    <3>1. \A u \in Threads : ~InLock(u)
      BY <1>4, <2>1 DEF WritesBack, ConfigLockFree, NobodyAt
    <3>2. threads'[t].step = "write" /\ \A u \in Threads : u # t => threads'[u] = threads[u]
      BY <1>0, <1>4, <2>1 DEF WritesBack, Turns, ThreadType
    <3> QED
      BY <1>4, <2>1, <3>1, <3>2 DEF WritesBack
  <2>2. CASE At(t, "write")
    <3>1. \/ Turns(t, Resting) \/ Turns(t, [threads[t] EXCEPT !.step = "load", !.key = None])
      BY <1>4, <2>2 DEF WritesBack
    <3>2. /\ threads'[t].step \in {"idle", "load"}
          /\ \A u \in Threads : u # t => threads'[u] = threads[u]
      <4>1. CASE Turns(t, Resting)
        BY <1>0, <4>1 DEF Turns, Resting
      <4>2. CASE Turns(t, [threads[t] EXCEPT !.step = "load", !.key = None])
        BY <1>0, <4>2 DEF Turns, ThreadType
      <4> QED
        BY <3>1, <4>1, <4>2
    <3> QED
      BY <1>4, <2>2, <3>2 DEF WritesBack
  <2> QED
    BY <1>4, <2>1, <2>2 DEF WritesBack
<1>6. ASSUME NEW t \in Threads, NEW e \in Efforts, Ask(t, e) PROVE OneAtATime'
  <2>1. threads'[t].step = "ask" /\ \A u \in Threads : u # t => threads'[u] = threads[u]
    BY <1>0, <1>6 DEF Ask, Turns, Resting
  <2> QED
    BY <1>5, <1>6, <2>1 DEF Ask
<1>7. ASSUME NEW t \in Threads, Accepted(t) \/ Failed(t) PROVE OneAtATime'
  <2>1. /\ threads'[t].step \in {"idle", "ask", "load"}
        /\ \A u \in Threads : u # t => threads'[u] = threads[u]
    <3>1. \/ \E what : Turns(t, [threads[t] EXCEPT !.step = "load", !.tries = <<>>, !.learn = what])
          \/ Turns(t, Resting)
          \/ At(t, "ask") /\ Turns(t, [threads[t] EXCEPT !.tries = Tail(@)])
      BY <1>7, Zenon DEF Accepted, Failed, Learns, Rests
    <3>2. CASE \E what : Turns(t, [threads[t] EXCEPT !.step = "load", !.tries = <<>>, !.learn = what])
      BY <1>0, <3>2 DEF Turns, ThreadType
    <3>3. CASE Turns(t, Resting)
      BY <1>0, <3>3 DEF Turns, Resting
    <3>4. CASE At(t, "ask") /\ Turns(t, [threads[t] EXCEPT !.tries = Tail(@)])
      BY <1>0, <3>4 DEF Turns, ThreadType
    <3> QED
      BY <3>1, <3>2, <3>3, <3>4
  <2> QED
    BY <1>5, <1>7, <2>1 DEF Accepted, Failed
<1>8. ASSUME NEW t \in Threads, Stores(t) PROVE OneAtATime'
  <2>1. CASE At(t, "load")
    <3>1. /\ Turns(t, [threads[t] EXCEPT !.step = "store", !.map = efforts])
          /\ \A u \in Threads : ~InLock(u)
      BY <1>8, <2>1 DEF Stores, AsOnFile, ConfigLockFree, NobodyAt
    <3>2. /\ threads'[t].step = "store" /\ threads'[t].map = efforts
          /\ \A u \in Threads : u # t => threads'[u] = threads[u]
      BY <1>0, <3>1 DEF Turns, ThreadType
    <3> QED
      BY <1>8, <2>1, <3>1, <3>2 DEF Stores
  <2>2. CASE At(t, "store")
    <3>1. /\ threads'[t].step = "idle"
          /\ \A u \in Threads : u # t => threads'[u] = threads[u]
      BY <1>0, <1>8, <2>2 DEF Turns, Stores, Rests, Resting
    <3> QED
      BY <1>8, <2>2, <3>1 DEF Stores
  <2> QED
    BY <1>8, <2>1, <2>2 DEF Stores
<1>9. ASSUME NEW f \in Files, Edit(f) PROVE OneAtATime'
  BY <1>9 DEF Edit
<1>10. CASE Restart
  BY <1>10 DEF Restart, Resting
<1>11. CASE UNCHANGED configVars
  BY <1>11 DEF configVars
<1> QED
  BY <1>1, <1>2, <1>3, <1>4, <1>6, <1>7, <1>8, <1>9, <1>10, <1>11 DEF ConfigNext, ConfigStep

(***************************************************************************)
(* Keys stay the user's: an edit touches no file that a thread has in its  *)
(* hands, and the environment file is replaced by itself with one more.    *)
(***************************************************************************)
LEMMA KeysAreTheUsersStep ==
  ASSUME ConfigTypes, OneAtATime, KeysAreTheUsers, [ConfigNext]_configVars
  PROVE  KeysAreTheUsers'
<1> DEFINE Holding == {"env", "empty", "fill", "replace", "lock", "write"}
<1> USE DEF KeysAreTheUsers, At
<1>0. /\ threads \in [Threads -> ThreadType]
      /\ keys \in KeyValues /\ chosen \in [Files -> Keys] /\ env.values \in KeyValues
      /\ \A t \in Threads : threads[t].file \in Files
      /\ None \notin Keys
  BY ConfigAssumption DEF ConfigTypes, ThreadType
<1>1. ASSUME NEW t \in Threads, threads'[t].step \notin Holding,
             \A u \in Threads : u # t => threads'[u] = threads[u],
             UNCHANGED <<keys, chosen, env>>
      PROVE  KeysAreTheUsers'
  BY <1>1
<1>2. ASSUME NEW t \in Threads, NEW f \in Files, Load(t, f) PROVE KeysAreTheUsers'
  <2>1. /\ threads'[t].step = "env" /\ threads'[t].file = f /\ threads'[t].key = keys[f]
        /\ \A u \in Threads : u # t => threads'[u] = threads[u]
    BY <1>0, <1>2 DEF Load, Turns, ThreadType
  <2> QED
    BY <1>2, <2>1 DEF Load
<1>3. ASSUME NEW t \in Threads, EnvReads(t) PROVE KeysAreTheUsers'
  <2>1. CASE Rests(t)
    <3>1. threads'[t].step = "idle" /\ \A u \in Threads : u # t => threads'[u] = threads[u]
      BY <1>0, <2>1 DEF Rests, Turns, Resting
    <3> QED
      BY <1>1, <1>3, <3>1 DEF EnvReads
  <2>2. CASE /\ IsThere(env.values[threads[t].file], threads[t].key)
             /\ Turns(t, [threads[t] EXCEPT !.step = "lock"])
    <3>1. /\ threads'[t].step = "lock" /\ threads'[t].file = threads[t].file
          /\ threads'[t].key = threads[t].key
          /\ \A u \in Threads : u # t => threads'[u] = threads[u]
      BY <1>0, <2>2 DEF Turns, ThreadType
    <3> QED
      BY <1>3, <2>2, <3>1 DEF EnvReads, IsThere
  <2>3. CASE Turns(t, [threads[t] EXCEPT !.step = "empty",
                        !.values = [env.values EXCEPT ![threads[t].file] = threads[t].key]])
    <3>1. /\ threads'[t].step = "empty" /\ threads'[t].file = threads[t].file
          /\ threads'[t].key = threads[t].key
          /\ \A u \in Threads : u # t => threads'[u] = threads[u]
      BY <1>0, <2>3 DEF Turns, ThreadType
    <3> QED
      BY <1>3, <3>1 DEF EnvReads
  <2> QED
    BY <1>3, <2>1, <2>2, <2>3 DEF EnvReads
<1>4. ASSUME NEW t \in Threads, EnvWrites(t) PROVE KeysAreTheUsers'
  <2>1. \A step \in {"fill", "replace", "lock"} :
          Turns(t, [threads[t] EXCEPT !.step = step]) =>
            /\ threads'[t].step = step /\ threads'[t].file = threads[t].file
            /\ threads'[t].key = threads[t].key
            /\ \A u \in Threads : u # t => threads'[u] = threads[u]
    BY <1>0 DEF Turns, ThreadType
  <2>2. CASE At(t, "empty") \/ At(t, "fill")
    BY <1>4, <2>1, <2>2 DEF EnvWrites, ToTemporary
  <2>3. CASE At(t, "replace")
    <3>1. /\ Turns(t, [threads[t] EXCEPT !.step = "lock"])
          /\ env' = [whole |-> TRUE,
                     values |-> [env.values EXCEPT ![threads[t].file] = threads[t].key]]
          /\ env.values[threads[t].file] = None
          /\ UNCHANGED <<keys, chosen>>
      BY <1>4, <2>3 DEF EnvWrites, OneAtATime, InMutex
    <3>2. /\ env'.whole /\ env'.values[threads[t].file] = threads[t].key
          /\ \A f \in Files : f # threads[t].file => env'.values[f] = env.values[f]
      BY <1>0, <3>1 DEF KeyValues
    <3>3. ASSUME NEW u \in Threads, u # t, threads[u].step \in {"lock", "write"}
          PROVE  threads[u].file # threads[t].file
      BY <1>0, <3>1, <3>3
    <3>4. threads[t].key = chosen[threads[t].file]
      BY <2>3
    <3>6. \A f \in Files : chosen[f] = IF keys[f] = None THEN env'.values[f] ELSE keys[f]
      BY <1>0, <3>1, <3>2
    <3>5. \A u \in Threads :
            /\ threads'[u].step \in Holding => threads'[u].key = chosen[threads'[u].file]
            /\ threads'[u].step \in {"lock", "write"} =>
                 env'.values[threads'[u].file] = chosen[threads'[u].file]
      BY <1>0, <2>1, <3>1, <3>2, <3>3, <3>4
    <3> QED
      BY <3>1, <3>2, <3>5, <3>6
  <2> QED
    BY <1>4, <2>2, <2>3 DEF EnvWrites
<1>5. ASSUME NEW t \in Threads, WritesBack(t) PROVE KeysAreTheUsers'
  <2>1. CASE At(t, "lock")
    <3>1. /\ threads'[t].step = "write" /\ threads'[t].file = threads[t].file
          /\ threads'[t].key = threads[t].key
          /\ \A u \in Threads : u # t => threads'[u] = threads[u]
      BY <1>0, <1>5, <2>1 DEF WritesBack, Turns, ThreadType
    <3> QED
      BY <1>5, <2>1, <3>1 DEF WritesBack
  <2>2. CASE At(t, "write")
    <3>1. \/ Turns(t, Resting) \/ Turns(t, [threads[t] EXCEPT !.step = "load", !.key = None])
      BY <1>5, <2>2 DEF WritesBack
    <3>2. /\ threads'[t].step \notin Holding
          /\ \A u \in Threads : u # t => threads'[u] = threads[u]
      <4>1. CASE Turns(t, Resting)
        BY <1>0, <4>1 DEF Turns, Resting
      <4>2. CASE Turns(t, [threads[t] EXCEPT !.step = "load", !.key = None])
        BY <1>0, <4>2 DEF Turns, ThreadType
      <4> QED
        BY <3>1, <4>1, <4>2
    <3>3. /\ keys' = [keys EXCEPT ![threads[t].file] = None]
          /\ UNCHANGED <<env, chosen>>
      BY <1>5, <2>2 DEF WritesBack
    <3>4. \A f \in Files : chosen[f] = IF keys'[f] = None THEN env.values[f] ELSE keys'[f]
      BY <1>0, <2>2, <3>3 DEF KeyValues
    <3> QED
      BY <3>2, <3>3, <3>4
  <2> QED
    BY <1>5, <2>1, <2>2 DEF WritesBack
<1>6. ASSUME NEW t \in Threads, NEW e \in Efforts, Ask(t, e) PROVE KeysAreTheUsers'
  <2>1. threads'[t].step = "ask" /\ \A u \in Threads : u # t => threads'[u] = threads[u]
    BY <1>0, <1>6 DEF Ask, Turns, Resting
  <2> QED
    BY <1>1, <1>6, <2>1 DEF Ask
<1>7. ASSUME NEW t \in Threads, Accepted(t) \/ Failed(t) \/ Stores(t) PROVE KeysAreTheUsers'
  <2>1. \/ \E what : Turns(t, [threads[t] EXCEPT !.step = "load", !.tries = <<>>, !.learn = what])
        \/ Turns(t, Resting)
        \/ At(t, "ask") /\ Turns(t, [threads[t] EXCEPT !.tries = Tail(@)])
        \/ Turns(t, [threads[t] EXCEPT !.step = "store", !.map = efforts])
    BY <1>7, Zenon DEF Accepted, Failed, Learns, Rests, Stores, AsOnFile
  <2>2. CASE \E what : Turns(t, [threads[t] EXCEPT !.step = "load", !.tries = <<>>, !.learn = what])
    BY <1>0, <1>1, <1>7, <2>2 DEF Turns, ThreadType, Accepted, Failed, Stores
  <2>3. CASE Turns(t, Resting)
    BY <1>0, <1>1, <1>7, <2>3 DEF Turns, Resting, Accepted, Failed, Stores
  <2>4. CASE At(t, "ask") /\ Turns(t, [threads[t] EXCEPT !.tries = Tail(@)])
    BY <1>0, <1>1, <1>7, <2>4 DEF Turns, ThreadType, Accepted, Failed, Stores
  <2>5. CASE Turns(t, [threads[t] EXCEPT !.step = "store", !.map = efforts])
    BY <1>0, <1>1, <1>7, <2>5 DEF Turns, ThreadType, Accepted, Failed, Stores
  <2> QED
    BY <2>1, <2>2, <2>3, <2>4, <2>5
<1>8. ASSUME NEW f \in Files, Edit(f) PROVE KeysAreTheUsers'
  <2>1. PICK key \in Keys : keys' = [keys EXCEPT ![f] = key] /\ chosen' = [chosen EXCEPT ![f] = key]
    BY <1>8 DEF Edit
  <2>2. /\ UNCHANGED <<env, threads>>
        /\ \A t \in Threads : threads[t].step \in Holding => threads[t].file # f
    BY <1>8 DEF Edit
  <2> QED
    BY <1>0, <2>1, <2>2 DEF KeyValues
<1>9. CASE Restart
  BY <1>9 DEF Restart, Resting
<1>10. CASE UNCHANGED configVars
  BY <1>10 DEF configVars
<1> QED
  BY <1>2, <1>3, <1>4, <1>5, <1>6, <1>7, <1>8, <1>9, <1>10 DEF ConfigNext, ConfigStep

(***************************************************************************)
(* A mark that disables an effort comes from a refusal of its last         *)
(* wording, with the earlier ones refused before; from there on it is      *)
(* copied.                                                                 *)
(***************************************************************************)
ToldOf(t) == threads[t].effort \in Efforts /\ threads[t].learn = Disabled => Refused(threads[t].effort)
Copied(t) ==
  threads[t].step \in {"env", "empty", "fill", "replace", "lock", "write", "store"} =>
    \A e \in Efforts : threads[t].map[e] = Disabled => Refused(e)
Asking(t) ==
  At(t, "ask") /\ threads[t].effort \in Alternates =>
    \A i \in DOMAIN Standard[threads[t].effort] :
      \/ Standard[threads[t].effort][i] \notin accepts
      \/ \E j \in DOMAIN threads[t].tries :
           threads[t].tries[j] = Standard[threads[t].effort][i]

LEMMA DisabledWasRefusedStep ==
  ASSUME ConfigTypes, OneAtATime, DisabledWasRefused, [ConfigNext]_configVars
  PROVE  DisabledWasRefused'
<1> USE DEF At
<1>0. /\ threads \in [Threads -> ThreadType]
      /\ \A t \in Threads : threads[t] \in ThreadType
      /\ \A e \in Efforts : Disabled \in {efforts[e], known[e], learned[e]} => Refused(e)
      /\ \A t \in Threads : ToldOf(t) /\ Copied(t) /\ Asking(t)
  BY DEF ConfigTypes, DisabledWasRefused, ToldOf, Copied, Asking
<1>1. accepts' = accepts /\ \A e : Refused(e)' <=> Refused(e)
  <2>1. accepts' = accepts
    BY DEF configVars, ConfigNext, ConfigStep, Load, EnvReads, EnvWrites, WritesBack, Ask,
           Accepted, Failed, Stores, Edit, Restart
  <2> QED
    BY <2>1 DEF Refused
<1>2. ASSUME NEW t \in Threads, \A u \in Threads : u # t => threads'[u] = threads[u],
             ToldOf(t)', Copied(t)', Asking(t)',
             \A e \in Efforts : Disabled \in {efforts'[e], known'[e], learned'[e]} => Refused(e)
      PROVE  DisabledWasRefused'
  <2>1. \A u \in Threads : ToldOf(u)' /\ Copied(u)' /\ Asking(u)'
    BY <1>0, <1>1, <1>2 DEF ToldOf, Copied, Asking
  <2> QED
    BY <1>1, <1>2, <2>1 DEF DisabledWasRefused, ToldOf, Copied, Asking
<1>3. ASSUME NEW t \in Threads, \A u \in Threads : u # t => threads'[u] = threads[u],
             threads'[t] = Resting,
             \A e \in Efforts : Disabled \in {efforts'[e], known'[e], learned'[e]} => Refused(e)
      PROVE  DisabledWasRefused'
  <2>1. ToldOf(t)' /\ Copied(t)' /\ Asking(t)'
    BY <1>3 DEF ToldOf, Copied, Asking, Resting, Free, Disabled
  <2> QED
    BY <1>2, <1>3, <2>1
<1>4. ASSUME NEW t \in Threads, NEW f \in Files, Load(t, f) PROVE DisabledWasRefused'
  <2>1. /\ threads'[t].step = "env" /\ threads'[t].map = efforts
        /\ threads'[t].effort = threads[t].effort /\ threads'[t].learn = threads[t].learn
        /\ \A u \in Threads : u # t => threads'[u] = threads[u]
    BY <1>0, <1>4 DEF Load, Turns, ThreadType
  <2>2. ToldOf(t)' /\ Copied(t)' /\ Asking(t)'
    BY <1>0, <1>1, <2>1 DEF ToldOf, Copied, Asking
  <2> QED
    BY <1>0, <1>2, <1>4, <2>1, <2>2 DEF Load
<1>5. ASSUME NEW t \in Threads, NEW step \in {"empty", "fill", "replace", "lock", "write", "load"},
             threads[t].step \in {"env", "empty", "fill", "replace", "lock", "write"},
             threads'[t].step = step, threads'[t].map = threads[t].map,
             threads'[t].effort = threads[t].effort, threads'[t].learn = threads[t].learn,
             \A u \in Threads : u # t => threads'[u] = threads[u],
             UNCHANGED <<known, learned>>,
             \A e \in Efforts : efforts'[e] = Disabled => Refused(e)
      PROVE  DisabledWasRefused'
  <2>1. ToldOf(t)' /\ Copied(t)' /\ Asking(t)'
    BY <1>0, <1>1, <1>5 DEF ToldOf, Copied, Asking
  <2> QED
    BY <1>0, <1>2, <1>5, <2>1
<1>6. ASSUME NEW t \in Threads, EnvReads(t) PROVE DisabledWasRefused'
  <2>1. CASE Rests(t)
    BY <1>0, <1>3, <1>6, <2>1 DEF EnvReads, Rests, Turns
  <2>2. CASE Turns(t, [threads[t] EXCEPT !.step = "lock"])
    <3>1. /\ threads'[t].step = "lock" /\ threads'[t].map = threads[t].map
          /\ threads'[t].effort = threads[t].effort /\ threads'[t].learn = threads[t].learn
          /\ \A u \in Threads : u # t => threads'[u] = threads[u]
      BY <1>0, <2>2 DEF Turns, ThreadType
    <3> QED
      BY <1>0, <1>5, <1>6, <3>1 DEF EnvReads
  <2>3. CASE Turns(t, [threads[t] EXCEPT !.step = "empty",
                        !.values = [env.values EXCEPT ![threads[t].file] = threads[t].key]])
    <3>1. /\ threads'[t].step = "empty" /\ threads'[t].map = threads[t].map
          /\ threads'[t].effort = threads[t].effort /\ threads'[t].learn = threads[t].learn
          /\ \A u \in Threads : u # t => threads'[u] = threads[u]
      BY <1>0, <2>3 DEF Turns, ThreadType
    <3> QED
      BY <1>0, <1>5, <1>6, <3>1 DEF EnvReads
  <2> QED
    BY <1>6, <2>1, <2>2, <2>3 DEF EnvReads
<1>7. ASSUME NEW t \in Threads, EnvWrites(t) PROVE DisabledWasRefused'
  <2>1. PICK step \in {"fill", "replace", "lock"} : Turns(t, [threads[t] EXCEPT !.step = step])
    BY <1>7 DEF EnvWrites
  <2>2. /\ threads'[t].step = step /\ threads'[t].map = threads[t].map
        /\ threads'[t].effort = threads[t].effort /\ threads'[t].learn = threads[t].learn
        /\ \A u \in Threads : u # t => threads'[u] = threads[u]
    BY <1>0, <2>1 DEF Turns, ThreadType
  <2> QED
    BY <1>0, <1>5, <1>7, <2>2 DEF EnvWrites
<1>8. ASSUME NEW t \in Threads, WritesBack(t) PROVE DisabledWasRefused'
  <2>1. \A e \in Efforts : efforts'[e] = Disabled => Refused(e)
    BY <1>0, <1>8 DEF WritesBack, Copied
  <2>2. CASE Turns(t, Resting)
    BY <1>0, <1>3, <1>8, <2>1, <2>2 DEF WritesBack, Turns
  <2>3. CASE Turns(t, [threads[t] EXCEPT !.step = "write"])
    <3>1. /\ threads'[t].step = "write" /\ threads'[t].map = threads[t].map
          /\ threads'[t].effort = threads[t].effort /\ threads'[t].learn = threads[t].learn
          /\ \A u \in Threads : u # t => threads'[u] = threads[u]
      BY <1>0, <2>3 DEF Turns, ThreadType
    <3> QED
      BY <1>0, <1>5, <1>8, <2>1, <3>1 DEF WritesBack
  <2>4. CASE Turns(t, [threads[t] EXCEPT !.step = "load", !.key = None])
    <3>1. /\ threads'[t].step = "load" /\ threads'[t].map = threads[t].map
          /\ threads'[t].effort = threads[t].effort /\ threads'[t].learn = threads[t].learn
          /\ \A u \in Threads : u # t => threads'[u] = threads[u]
      BY <1>0, <2>4 DEF Turns, ThreadType
    <3> QED
      BY <1>0, <1>5, <1>8, <2>1, <3>1 DEF WritesBack
  <2> QED
    BY <1>8, <2>2, <2>3, <2>4, Zenon DEF WritesBack
<1>9. ASSUME NEW t \in Threads, NEW e \in Efforts, Ask(t, e) PROVE DisabledWasRefused'
  <2> DEFINE tries == Attempts(Effective, e)
  <2>1. Turns(t, [Resting EXCEPT !.step = "ask", !.effort = e, !.tries = tries])
    BY <1>9 DEF Ask
  <2>2. e \in Alternates => \A i \in DOMAIN Standard[e] :
                              \E j \in DOMAIN tries : tries[j] = Standard[e][i]
    <3>1. Effective \in Map
      BY DEF Effective, Map, ConfigTypes
    <3> QED
      BY <1>9, <3>1, AttemptsTry DEF Ask
  <2> HIDE DEF tries
  <2>3. /\ threads'[t].step = "ask" /\ threads'[t].effort = e /\ threads'[t].tries = tries
        /\ threads'[t].learn = Free
        /\ \A u \in Threads : u # t => threads'[u] = threads[u]
    BY <1>0, <2>1 DEF Turns, Resting
  <2>4. ToldOf(t)' /\ Copied(t)' /\ Asking(t)'
    BY <2>2, <2>3 DEF ToldOf, Copied, Asking, Free, Disabled
  <2> QED
    BY <1>0, <1>2, <1>9, <2>3, <2>4 DEF Ask
<1>10. ASSUME NEW t \in Threads, NEW what \in Marks, Learns(t, what), At(t, "ask"),
              what = Disabled => Refused(threads[t].effort), UNCHANGED <<efforts, known>>
       PROVE  DisabledWasRefused'
  <2>1. /\ threads'[t].step = "load" /\ threads'[t].effort = threads[t].effort
        /\ threads'[t].learn = what
        /\ \A u \in Threads : u # t => threads'[u] = threads[u]
    BY <1>0, <1>10 DEF Learns, Turns, ThreadType
  <2>2. ToldOf(t)' /\ Copied(t)' /\ Asking(t)'
    BY <1>1, <1>10, <2>1 DEF ToldOf, Copied, Asking
  <2>3. \A e \in Efforts : learned'[e] = Disabled => Refused(e)
    BY <1>0, <1>10 DEF Learns, ConfigTypes, Map
  <2> QED
    BY <1>0, <1>2, <1>10, <2>1, <2>2, <2>3
<1>11. ASSUME NEW t \in Threads, Accepted(t) PROVE DisabledWasRefused'
  <2> DEFINE w == Head(threads[t].tries)
  <2>1. w \in Wordings
    <3>1. threads[t].tries \in Seq(Wordings) /\ threads[t].tries # <<>>
      BY <1>0, <1>11 DEF Accepted, ConfigTypes, ThreadType
    <3> QED
      BY <3>1, HeadTailProperties
  <2>2. Learns(t, Word(w)) /\ At(t, "ask") /\ UNCHANGED <<efforts, known>>
    BY <1>11 DEF Accepted
  <2> HIDE DEF w
  <2>3. Word(w) \in Marks /\ Word(w) # Disabled
    BY <2>1 DEF Marks, Word, Disabled
  <2> QED
    BY <1>10, <2>2, <2>3
<1>12. ASSUME NEW t \in Threads, Failed(t) PROVE DisabledWasRefused'
  <2> DEFINE tries == threads[t].tries
             e == threads[t].effort
  <2>1. tries \in Seq(Wordings) /\ tries # <<>> /\ e \in Efforts /\ Asking(t) /\ ToldOf(t)
    BY <1>0, <1>12 DEF Failed, ConfigTypes, ThreadType
  <2>2. /\ At(t, "ask") /\ UNCHANGED <<efforts, known>>
        /\ \/ Rests(t) /\ UNCHANGED learned
           \/ /\ Head(tries) \notin accepts /\ MoreToTry(tries) /\ UNCHANGED learned
              /\ Turns(t, [threads[t] EXCEPT !.tries = Tail(@)])
           \/ Head(tries) \notin accepts /\ ~MoreToTry(tries) /\ Learns(t, Disabled)
    BY <1>12, Zenon DEF Failed, SaysUnsupported
  <2>3. CASE Rests(t) /\ UNCHANGED learned
    BY <1>0, <1>3, <2>2, <2>3 DEF Rests, Turns
  <2>4. CASE /\ Head(tries) \notin accepts /\ MoreToTry(tries) /\ UNCHANGED learned
             /\ Turns(t, [threads[t] EXCEPT !.tries = Tail(@)])
    <3>1. /\ threads'[t].step = "ask" /\ threads'[t].effort = e
          /\ threads'[t].learn = threads[t].learn /\ threads'[t].tries = Tail(tries)
          /\ \A u \in Threads : u # t => threads'[u] = threads[u]
      BY <1>0, <2>2, <2>4 DEF Turns, ThreadType
    <3>2. ASSUME e \in Alternates, NEW i \in DOMAIN Standard[e], Standard[e][i] \in accepts
          PROVE  \E j \in DOMAIN Tail(tries) : Tail(tries)[j] = Standard[e][i]
      <4>1. PICK j \in DOMAIN tries : tries[j] = Standard[e][i]
        BY <2>1, <2>2, <3>2 DEF Asking
      <4> HIDE DEF tries
      <4>2. j # 1
        BY <2>1, <2>4, <3>2, <4>1
      <4>3. j - 1 \in DOMAIN Tail(tries) /\ Tail(tries)[j - 1] = tries[j]
        BY <2>1, <4>2
      <4> QED
        BY <4>1, <4>3
    <3>3. ToldOf(t)' /\ Copied(t)' /\ Asking(t)'
      BY <1>1, <2>1, <3>1, <3>2 DEF ToldOf, Copied, Asking
    <3> QED
      BY <1>0, <1>2, <2>2, <2>4, <3>1, <3>3
  <2>5. CASE Head(tries) \notin accepts /\ ~MoreToTry(tries) /\ Learns(t, Disabled)
    <3>1. Head(tries) \in Wordings /\ Len(tries) = 1
      <4> HIDE DEF tries
      <4>1. Head(tries) \in Wordings
        BY <2>1, HeadTailProperties
      <4>2. Len(tries) \in Nat /\ Len(tries) # 0
        BY <2>1, LenProperties, EmptySeq
      <4>3. ~(Len(tries) > 1)
        BY <2>5 DEF MoreToTry
      <4> DEFINE n == Len(tries)
      <4>4. n \in Nat /\ n # 0 /\ ~(n > 1)
        BY <4>2, <4>3
      <4> HIDE DEF n
      <4>5. n = 1
        BY <4>4
      <4> QED
        BY <4>1, <4>5, Zenon DEF n
    <3>2. Refused(e)
      <4>1. accepts # Wordings
        BY <2>5, <3>1
      <4>2. ASSUME e \in Alternates, NEW i \in DOMAIN Standard[e]
            PROVE  Standard[e][i] \notin accepts
        <5>1. \A j \in DOMAIN tries : tries[j] = Head(tries)
          <6> HIDE DEF tries
          <6>1. DOMAIN tries = 1..1
            BY <2>1, <3>1
          <6> QED
            BY <6>1
        <5> QED
          BY <2>1, <2>2, <2>5, <4>2, <5>1 DEF Asking
      <4> QED
        BY <4>1, <4>2 DEF Refused
    <3>3. Disabled \in Marks
      BY DEF Marks
    <3> QED
      BY <1>10, <2>2, <2>5, <3>2, <3>3
  <2> QED
    BY <2>2, <2>3, <2>4, <2>5
<1>13. ASSUME NEW t \in Threads, Stores(t) PROVE DisabledWasRefused'
  <2>1. CASE Turns(t, [threads[t] EXCEPT !.step = "store", !.map = efforts]) /\ UNCHANGED efforts
    <3>1. /\ threads'[t].step = "store" /\ threads'[t].map = efforts
          /\ threads'[t].effort = threads[t].effort /\ threads'[t].learn = threads[t].learn
          /\ \A u \in Threads : u # t => threads'[u] = threads[u]
      BY <1>0, <2>1 DEF Turns, ThreadType
    <3>2. ToldOf(t)' /\ Copied(t)' /\ Asking(t)'
      BY <1>0, <1>1, <3>1 DEF ToldOf, Copied, Asking
    <3> QED
      BY <1>0, <1>2, <1>13, <2>1, <3>1, <3>2 DEF Stores
  <2>2. CASE /\ At(t, "store") /\ Rests(t)
             /\ efforts' = [threads[t].map EXCEPT ![threads[t].effort] = threads[t].learn]
    <3>1. threads[t].map \in Map /\ threads[t].effort \in Efforts
      BY <1>0, <2>2 DEF ConfigTypes, ThreadType
    <3>2. \A e \in Efforts : efforts'[e] = Disabled => Refused(e)
      BY <1>0, <2>2, <3>1 DEF ToldOf, Copied, Map
    <3> QED
      BY <1>0, <1>3, <1>13, <2>2, <3>2 DEF Stores, Rests, Turns
  <2> QED
    BY <1>13, <2>1, <2>2 DEF Stores, AsOnFile
<1>14. ASSUME NEW f \in Files, Edit(f) PROVE DisabledWasRefused'
  BY <1>1, <1>14 DEF Edit, DisabledWasRefused
<1>15. CASE Restart
  <2>1. /\ \A t \in Threads : threads'[t] = Resting
        /\ known' = efforts /\ efforts' = efforts /\ learned' = Unset
    BY <1>15 DEF Restart
  <2>2. \A t \in Threads : ToldOf(t)' /\ Copied(t)' /\ Asking(t)'
    BY <2>1 DEF ToldOf, Copied, Asking, Resting, Free, Disabled
  <2>3. \A e \in Efforts : learned'[e] # Disabled
    BY <2>1 DEF Unset, Free, Disabled
  <2> QED
    BY <1>0, <1>1, <2>1, <2>2, <2>3 DEF DisabledWasRefused, ToldOf, Copied, Asking
<1>16. CASE UNCHANGED configVars
  BY <1>1, <1>16 DEF configVars, DisabledWasRefused
<1> QED
  BY <1>4, <1>6, <1>7, <1>8, <1>9, <1>11, <1>12, <1>13, <1>14, <1>15, <1>16
     DEF ConfigNext, ConfigStep

(***************************************************************************)
(* The parts together are inductive, and hold in every reachable state.    *)
(***************************************************************************)
LEMMA ConfigInductive == ConfigSpec => []ConfigIInv
<1>1. ConfigInit => ConfigIInv
  BY ConfigInitInv
<1>2. ConfigIInv /\ [ConfigNext]_configVars => ConfigIInv'
  BY ConfigTypesStep, OneAtATimeStep, KeysAreTheUsersStep, DisabledWasRefusedStep DEF ConfigIInv
<1> QED
  BY <1>1, <1>2, PTL DEF ConfigSpec

(***************************************************************************)
(* In every reachable state the key behind a reference is the one the user *)
(* put there, and an effort is disabled only if the provider refused it    *)
(* (model_registry/mod.rs, credentials.rs).                                *)
(***************************************************************************)
THEOREM ConfigIsTheUsers == ConfigSpec => []ConfigInvariant
<1>1. ConfigIInv => ConfigInvariant
  <2> SUFFICES ASSUME ConfigIInv
               PROVE  ConfigInvariant
    OBVIOUS
  <2>1. ConfigTypeOK
    BY DEF ConfigIInv, ConfigTypes, ConfigTypeOK, KeyValues, ThreadType
  <2>2. KeyIsTheUsers
    BY DEF ConfigIInv, KeysAreTheUsers, KeyIsTheUsers
  <2>3. OnlyRefusedIsDisabled
    BY DEF ConfigIInv, DisabledWasRefused, Refused, OnlyRefusedIsDisabled
  <2> QED
    BY <2>1, <2>2, <2>3 DEF ConfigInvariant
<1> QED
  BY <1>1, ConfigInductive, PTL

(***************************************************************************)
(* No step takes a value out of the private environment file, or changes   *)
(* one: each replaces the file by what is in it and one value more         *)
(* (write_private_env_atomically).                                         *)
(***************************************************************************)
THEOREM EnvironmentOnlyGrows == ConfigSpec => ValuesAreOnlyAdded
<1>1. ConfigIInv /\ [ConfigNext]_configVars =>
        [\A f \in Files : env.values[f] # None =>
           env'.whole /\ env'.values[f] = env.values[f]]_configVars
  <2> SUFFICES ASSUME ConfigIInv, ConfigNext
               PROVE  \A f \in Files : env.values[f] # None =>
                        env'.whole /\ env'.values[f] = env.values[f]
    BY DEF ConfigIInv
  <2>1. env.whole /\ env.values \in KeyValues
    BY DEF ConfigIInv, ConfigTypes, KeysAreTheUsers
  <2>2. ASSUME NEW t \in Threads, At(t, "replace"), env' = envTemp
        PROVE  \A f \in Files : env.values[f] # None =>
                 env'.whole /\ env'.values[f] = env.values[f]
    <3>1. /\ env' = [whole |-> TRUE,
                     values |-> [env.values EXCEPT ![threads[t].file] = threads[t].key]]
          /\ env.values[threads[t].file] = None
      BY <2>2 DEF ConfigIInv, OneAtATime, InMutex, At
    <3> QED
      BY <2>1, <3>1 DEF KeyValues
  <2>3. UNCHANGED env \/ \E t \in Threads : At(t, "replace") /\ env' = envTemp
    BY DEF ConfigNext, ConfigStep, Load, EnvReads, EnvWrites, ToTemporary, WritesBack, Ask,
           Accepted, Failed, Stores, Edit, Restart
  <2> QED
    BY <2>1, <2>2, <2>3
<1> QED
  BY <1>1, ConfigInductive, PTL DEF ConfigSpec, ValuesAreOnlyAdded

(***************************************************************************)
(* Storing what was learned of one effort changes no other one on file,    *)
(* whatever was stored meanwhile (persist_thinking_effort).                *)
(***************************************************************************)
THEOREM LearnedEffortsAreKept == ConfigSpec => LearningKeepsTheRest
<1> DEFINE Keeps == \A t \in Threads : At(t, "store") /\ threads'[t].step # "store" /\ efforts' # efforts =>
                      \A e \in Efforts \ {threads[t].effort} : efforts'[e] = efforts[e]
<1>1. ConfigIInv /\ [ConfigNext]_configVars => [Keeps]_configVars
  <2> SUFFICES ASSUME ConfigIInv, ConfigNext, NEW t \in Threads, At(t, "store"),
                      threads'[t].step # "store", efforts' # efforts,
                      NEW e \in Efforts \ {threads[t].effort}
               PROVE  efforts'[e] = efforts[e]
    OBVIOUS
  <2>1. PICK u \in Threads : InLock(u) /\ (WritesBack(u) \/ Stores(u))
    BY DEF ConfigNext, ConfigStep, Load, EnvReads, EnvWrites, ToTemporary, WritesBack, Ask,
           Accepted, Failed, Stores, Edit, Restart, InLock, At
  <2>2. u = t
    BY <2>1 DEF ConfigIInv, OneAtATime, InLock, At
  <2>3. /\ efforts' = [threads[t].map EXCEPT ![threads[t].effort] = threads[t].learn]
        /\ threads[t].map = efforts
    BY <2>1, <2>2 DEF ConfigIInv, OneAtATime, WritesBack, Stores, At
  <2> QED
    BY <2>3 DEF ConfigIInv, ConfigTypes, Map
<1> QED
  BY <1>1, ConfigInductive, PTL DEF ConfigSpec, LearningKeepsTheRest
-----------------------------------------------------------------------------
(***************************************************************************)
(* Credentials.  The types of what a call carries, and what it carries at  *)
(* which step: a credential that it has yet to write is its provider's in  *)
(* the map that it will write.                                             *)
(***************************************************************************)
CallType ==
  [job : {None, "request", "login", "logout"}, provider : Providers,
   step : {"idle", "refresh", "listen", "exchange", "read", "lock", "write", "release"},
   copy : Stored, token : Tokens \cup {None}, code : Calls \cup {None},
   behind : SUBSET Providers]

CallShape(item) ==
  /\ item.step = "idle" => item = Waiting
  /\ item.step = "refresh" => item.job = "request" /\ item.copy[item.provider] # None
  /\ item.step \in {"listen", "exchange"} => item.job = "login"
  /\ item.step \in {"refresh", "listen", "exchange"} => item.token = None
  /\ item.step = "read" => item.job = "login" /\ item.token # None
  /\ item.step \in {"lock", "write"} =>
       /\ item.copy[item.provider] = item.token
       /\ item.job = "logout" => item.token = None
       /\ item.job # "logout" => item.job \in {"request", "login"} /\ item.token # None

CredTypes ==
  /\ authFile \in {"missing", "whole", "torn"} /\ auth \in Stored /\ lock \in BOOLEAN
  /\ calls \in [Calls -> CallType] /\ \A c \in Calls : CallShape(calls[c])
  /\ served \in [live : SUBSET (1..issued), stale : SUBSET (1..issued)]
  /\ crashed \in BOOLEAN /\ issued \in 1..MaxIssued
  /\ pages \subseteq Calls /\ faults \in 0..MaxFaults /\ spent \subseteq Providers

\* One call at a time writes, and the lock is there for it.
OneWriter ==
  /\ \A c \in Calls : Writing(c) => lock
  /\ lock => crashed \/ \E c \in Calls : Writing(c)
  /\ \A c, d \in Calls : Writing(c) /\ Writing(d) => c = d
  /\ (\E c \in Calls : calls[c].step = "write") => authFile = "torn"

\* What a call is not behind on is in its copy as it is in the file, but for
\* its own provider's new credential.
CopiesAreUpToDate ==
  /\ authFile = "missing" => auth = Nobody
  /\ \A c \in Calls :
       /\ calls[c].step \in {"refresh", "lock", "write"} =>
            \A p \in Providers \ calls[c].behind :
              p # calls[c].provider => calls[c].copy[p] = auth[p]
       /\ calls[c].step = "refresh" =>
            calls[c].provider \in calls[c].behind
              \/ calls[c].copy[calls[c].provider] = auth[calls[c].provider]

(***************************************************************************)
(* Where a provider's tokens are: in the file, in a call's copy of it, or  *)
(* on their way there.  A refresh token is one provider's, and no token is *)
(* later than the last one issued.                                         *)
(***************************************************************************)
IsOf(grant, p) ==
  \/ grant = auth[p]
  \/ \E c \in Calls : \/ grant = calls[c].copy[p]
                      \/ calls[c].provider = p /\ grant = calls[c].token

TokensHaveOwners ==
  \A p \in Providers, grant \in Tokens :
    IsOf(grant, p) =>
      /\ grant.access <= issued /\ grant.refresh <= issued
      /\ \A q \in Providers, other \in Tokens :
           IsOf(other, q) /\ other.refresh = grant.refresh => p = q

(***************************************************************************)
(* A refresh token that only one call has works: nobody else can have sent *)
(* it.  A login's is such a token until it is written; a request's is one, *)
(* or the one on file, unless its call is behind.                          *)
(***************************************************************************)
InFile(n) == \E p \in Providers : auth[p] # None /\ auth[p].refresh = n
Has(n, c) ==
  \/ \E p \in Providers : calls[c].copy[p] # None /\ calls[c].copy[p].refresh = n
  \/ calls[c].token # None /\ calls[c].token.refresh = n

Private(c) ==
  /\ calls[c].token.refresh \in served.live
  /\ ~InFile(calls[c].token.refresh)
  /\ \A d \in Calls : d # c => ~Has(calls[c].token.refresh, d)

OnFile(c) ==
  /\ auth[calls[c].provider] # None
  /\ auth[calls[c].provider].refresh = calls[c].token.refresh

CarriedTokensWork ==
  \A c \in Calls :
    /\ calls[c].job = "login" /\ calls[c].step \in {"read", "lock", "write"} => Private(c)
    /\ calls[c].job = "request" /\ calls[c].step \in {"lock", "write"} =>
         Private(c) \/ OnFile(c) \/ calls[c].provider \in calls[c].behind

(***************************************************************************)
(* A dead token on file has a successor, in the hands of a request that is *)
(* about to write it, unless that got lost.                                *)
(***************************************************************************)
Replaced(p) ==
  \E c \in Calls : /\ calls[c].job = "request" /\ calls[c].provider = p
                   /\ calls[c].step \in {"lock", "write"}
                   /\ calls[c].token.refresh \in served.live

DeadTokensAreReplaced ==
  \A p \in Providers \ spent :
    auth[p] = None \/ auth[p].refresh \in served.live \/ Replaced(p)

CredIInv ==
  /\ CredTypes
  /\ OneWriter
  /\ OnlyItsOwnCodeIsExchanged
  /\ CopiesAreUpToDate
  /\ TokensHaveOwners
  /\ CarriedTokensWork
  /\ DeadTokensAreReplaced

(***************************************************************************)
(* In the beginning nobody calls, and every stored token works.            *)
(***************************************************************************)
LEMMA WaitingType == Waiting \in CallType /\ CallShape(Waiting)
  BY CredAssumption DEF Waiting, CallType, CallShape, Nobody, Stored

LEMMA CredInitInv == CredInit => CredIInv
<1> SUFFICES ASSUME CredInit
             PROVE  CredIInv
  OBVIOUS
<1> DEFINE N == Cardinality(Providers)
<1>1. PICK kept \in SUBSET Providers, number \in [Providers -> 1..N] :
        /\ \A p, q \in Providers : number[p] = number[q] => p = q
        /\ auth = [p \in Providers |->
                     IF p \in kept THEN [access |-> number[p], refresh |-> number[p]] ELSE None]
        /\ \E stale \in SUBSET {number[p] : p \in kept} :
             served = [live |-> {number[p] : p \in kept}, stale |-> stale]
        /\ authFile \in IF kept = {} THEN {"missing", "whole"} ELSE {"whole"}
  BY DEF CredInit
<1>2. N \in Nat
  BY CredAssumption, FS_CardinalityType
<1> HIDE DEF N
<1>3. N >= 1 /\ N <= MaxIssued /\ issued = N
  <2>1. number[LoginProvider] \in 1..N
    BY <1>1, CredAssumption
  <2> QED
    BY <1>2, <2>1, CredAssumption DEF CredInit, N
<1>4. \A c \in Calls : calls[c] = Waiting
  BY DEF CredInit
<1>5. \A p \in Providers : number[p] \in 1..N /\ number[p] \in 1..MaxIssued
  BY <1>1, <1>2, <1>3, CredAssumption
<1>6. \A p \in Providers : auth[p] # None => p \in kept /\ auth[p].refresh = number[p]
  BY <1>1
<1>7. CredTypes
  <2>1. auth \in Stored
    BY <1>1, <1>5 DEF Stored, Tokens
  <2>2. served \in [live : SUBSET (1..issued), stale : SUBSET (1..issued)]
    BY <1>1, <1>3, <1>5
  <2>3. calls \in [Calls -> CallType]
    BY <1>4, WaitingType DEF CredInit
  <2>4. issued \in 1..MaxIssued /\ 0 \in 0..MaxFaults
    BY <1>2, <1>3, CredAssumption
  <2> QED
    BY <1>1, <1>4, <2>1, <2>2, <2>3, <2>4, WaitingType DEF CredInit, CredTypes
<1>8. OneWriter /\ OnlyItsOwnCodeIsExchanged /\ CarriedTokensWork
  BY <1>4 DEF CredInit, OneWriter, OnlyItsOwnCodeIsExchanged, CarriedTokensWork, Waiting, Writing
<1>9. CopiesAreUpToDate
  <2>1. authFile = "missing" => auth = Nobody
    BY <1>1 DEF Nobody
  <2> QED
    BY <1>4, <2>1 DEF CopiesAreUpToDate, Waiting
<1>10. TokensHaveOwners
  <2>1. ASSUME NEW p \in Providers, NEW grant \in Tokens, IsOf(grant, p)
        PROVE  grant.access = number[p] /\ grant.refresh = number[p]
    BY <1>1, <1>4, <2>1, CredAssumption DEF IsOf, Waiting, Nobody
  <2> QED
    BY <1>1, <1>2, <1>3, <1>5, <2>1 DEF TokensHaveOwners
<1>11. DeadTokensAreReplaced
  BY <1>1, <1>6 DEF DeadTokensAreReplaced
<1> QED
  BY <1>7, <1>8, <1>9, <1>10, <1>11 DEF CredIInv

(***************************************************************************)
(* The types are kept.  A call that becomes another call of its type, and  *)
(* of the shape its step asks for, keeps those of the calls.               *)
(***************************************************************************)
LEMMA BecomesType ==
  ASSUME CredTypes, NEW c \in Calls, NEW item \in CallType, CallShape(item), Becomes(c, item)
  PROVE  /\ calls' \in [Calls -> CallType] /\ (\A d \in Calls : CallShape(calls'[d]))
         /\ calls'[c] = item
         /\ \A d \in Calls : d # c => calls'[d] = calls[d]
  BY DEF CredTypes, Becomes

LEMMA EndsType ==
  ASSUME CredTypes, NEW c \in Calls, Ends(c)
  PROVE  /\ calls' \in [Calls -> CallType] /\ (\A d \in Calls : CallShape(calls'[d]))
         /\ calls'[c] = Waiting
         /\ \A d \in Calls : d # c => calls'[d] = calls[d]
  BY BecomesType, WaitingType DEF Ends

LEMMA CredTypesStep == CredTypes /\ TokensHaveOwners /\ [CredNext]_credVars => CredTypes'
<1> SUFFICES ASSUME CredTypes, TokensHaveOwners, [CredNext]_credVars
             PROVE  CredTypes'
  OBVIOUS
<1> DEFINE CallsOK == calls \in [Calls -> CallType] /\ \A d \in Calls : CallShape(calls[d])
<1>1. CallsOK
  BY DEF CredTypes
<1>2. /\ auth \in Stored /\ issued \in 1..MaxIssued /\ MaxIssued \in Nat /\ MaxFaults \in Nat
      /\ served.live \subseteq 1..issued /\ served.stale \subseteq 1..issued
      /\ faults \in 0..MaxFaults /\ spent \subseteq Providers /\ pages \subseteq Calls
  BY CredAssumption DEF CredTypes
<1>3. Fault => faults' \in 0..MaxFaults
  BY <1>2 DEF Fault
<1>4. ASSUME NEW old, NEW rotates \in BOOLEAN, Issues(old, issued + 1, rotates)
      PROVE  /\ issued' = issued + 1 /\ issued' \in 1..MaxIssued
             /\ served' \in [live : SUBSET (1..issued'), stale : SUBSET (1..issued')]
  BY <1>2, <1>4 DEF Issues, CredTypes
<1>5. ASSUME NEW c \in Calls PROVE calls[c] \in CallType /\ CallShape(calls[c])
  BY <1>5 DEF CredTypes
<1>6. ASSUME NEW c \in Calls, NEW p \in Providers, Request(c, p) PROVE CredTypes'
  <2> DEFINE new == [Waiting EXCEPT !.job = "request", !.provider = p, !.step = "refresh",
                                    !.copy = auth]
  <2>1. new \in CallType /\ CallShape(new)
    BY <1>2, <1>6, WaitingType DEF Request, CallType, CallShape, Waiting
  <2>2. CallsOK'
    BY <1>6, <2>1, BecomesType DEF Request
  <2> QED
    BY <1>6, <2>2 DEF Request, CredTypes
<1>7. ASSUME NEW c \in Calls, Refresh(c) PROVE CredTypes'
  <2> DEFINE item == calls[c]
             old == item.copy[item.provider]
  <2>1. PICK rotates \in BOOLEAN :
          /\ old.refresh \in served.live /\ Issues(old.refresh, issued + 1, rotates)
          /\ Becomes(c, [item EXCEPT !.step = "lock", !.token = Refreshed(old, issued + 1, rotates),
                           !.copy = [@ EXCEPT ![item.provider]
                                                = Refreshed(old, issued + 1, rotates)]])
    BY <1>7 DEF Refresh
  <2> DEFINE grant == Refreshed(old, issued + 1, rotates)
  <2>2. item \in CallType /\ old \in Tokens /\ item.provider \in Providers
    BY <1>5, <1>7 DEF Refresh, CallType, CallShape, Stored
  <2>3. grant \in Tokens /\ grant # None
    BY <1>2, <1>4, <2>1, <2>2, CredAssumption, SMTT(30) DEF Tokens, Refreshed
  <2> HIDE DEF grant, old
  <2>4. [item EXCEPT !.step = "lock", !.token = grant, !.copy = [@ EXCEPT ![item.provider] = grant]]
          \in CallType
    BY <2>2, <2>3 DEF CallType, Stored
  <2>5. CallShape([item EXCEPT !.step = "lock", !.token = grant,
                               !.copy = [@ EXCEPT ![item.provider] = grant]])
    BY <1>5, <1>7, <2>2, <2>3 DEF Refresh, CallType, CallShape, Stored
  <2>6. CallsOK'
    BY <2>1, <2>4, <2>5, BecomesType DEF grant, old
  <2> QED
    BY <1>4, <1>7, <2>1, <2>6 DEF Refresh, CredTypes
<1>8. ASSUME NEW c \in Calls, RefreshFails(c) PROVE CredTypes'
  <2>1. CallsOK'
    BY <1>8, EndsType DEF RefreshFails
  <2>2. /\ issued' \in 1..MaxIssued /\ faults' \in 0..MaxFaults /\ spent' \subseteq Providers
        /\ served' \in [live : SUBSET (1..issued'), stale : SUBSET (1..issued')]
    BY <1>2, <1>3, <1>4, <1>5, <1>8 DEF RefreshFails, CredTypes, CallType
  <2> QED
    BY <1>8, <2>1, <2>2 DEF RefreshFails, CredTypes
<1>9. ASSUME NEW c \in Calls, Login(c) PROVE CredTypes'
  <2> DEFINE new == [Waiting EXCEPT !.job = "login", !.step = "listen"]
  <2>1. new \in CallType /\ CallShape(new)
    BY WaitingType DEF CallType, CallShape, Waiting
  <2>2. CallsOK'
    BY <1>1, <1>9, <2>1, BecomesType DEF Login
  <2> QED
    BY <1>9, <2>2 DEF Login, CredTypes
<1>10. ASSUME NEW page \in Calls, Callback(page) PROVE CredTypes'
  <2>1. CASE UNCHANGED calls
    BY <1>10, <2>1 DEF Callback, CredTypes
  <2>2. ASSUME NEW c \in Calls, calls[c].step = "listen",
               \/ Becomes(c, [calls[c] EXCEPT !.step = "exchange", !.code = page])
               \/ Ends(c)
        PROVE  CredTypes'
    <3> DEFINE new == [calls[c] EXCEPT !.step = "exchange", !.code = page]
    <3>1. new \in CallType /\ CallShape(new)
      BY <1>5, <2>2 DEF CallType, CallShape
    <3>2. CallsOK'
      BY <2>2, <3>1, BecomesType, EndsType
    <3> QED
      BY <1>10, <3>2 DEF Callback, CredTypes
  <2> QED
    BY <1>10, <2>1, <2>2 DEF Callback
<1>11. ASSUME NEW c \in Calls, Exchange(c) PROVE CredTypes'
  <2> DEFINE grant == [access |-> issued + 1, refresh |-> issued + 1]
             new == [calls[c] EXCEPT !.step = "read", !.token = grant]
  <2>1. issued + 1 \in 1..MaxIssued
    BY <1>2, <1>11 DEF Exchange
  <2>2. grant \in Tokens /\ grant # None
    BY <2>1, CredAssumption DEF Tokens
  <2>3. new \in CallType /\ CallShape(new)
    BY <1>5, <1>11, <2>2 DEF Exchange, CallType, CallShape
  <2>4. CallsOK'
    BY <1>11, <2>3, BecomesType, EndsType DEF Exchange
  <2>5. issued' \in 1..MaxIssued /\ served' \in [live : SUBSET (1..issued'), stale : SUBSET (1..issued')]
    BY <1>2, <1>11, <2>1 DEF Exchange, CredTypes
  <2> QED
    BY <1>11, <2>4, <2>5 DEF Exchange, CredTypes
<1>12. ASSUME NEW c \in Calls, StoreReads(c) PROVE CredTypes'
  <2> DEFINE copy == WithLogin(calls[c].provider, calls[c].token)
             new == [calls[c] EXCEPT !.step = "lock", !.behind = {}, !.copy = copy]
  <2>1. /\ calls[c].token \in Tokens /\ calls[c].provider \in Providers
        /\ calls[c].token # None /\ calls[c].job = "login"
    BY <1>5, <1>12 DEF StoreReads, CallType, CallShape
  <2>2. copy \in Stored /\ copy[calls[c].provider] = calls[c].token
    BY <1>2, <2>1 DEF WithLogin, Held, Stored
  <2> HIDE DEF copy
  <2>3. new \in CallType /\ CallShape(new)
    BY <1>5, <2>1, <2>2 DEF CallType, CallShape
  <2>4. CallsOK'
    BY <1>12, <2>3, BecomesType, EndsType DEF StoreReads, copy
  <2> QED
    BY <1>12, <2>4 DEF StoreReads, CredTypes
<1>13. ASSUME NEW c \in Calls, Logout(c) PROVE CredTypes'
  <2> DEFINE new == [Waiting EXCEPT !.job = "logout", !.step = "lock",
                                    !.copy = [auth EXCEPT ![LoginProvider] = None]]
  <2>1. new \in CallType /\ CallShape(new)
    BY <1>2, WaitingType, CredAssumption DEF CallType, CallShape, Waiting, Stored
  <2>2. CallsOK'
    BY <1>13, <2>1, BecomesType DEF Logout
  <2> QED
    BY <1>3, <1>13, <2>2 DEF Logout, CredTypes
<1>14. ASSUME NEW c \in Calls, Locks(c) PROVE CredTypes'
  <2> DEFINE new == [calls[c] EXCEPT !.step = "write"]
  <2>1. new \in CallType /\ CallShape(new)
    BY <1>5, <1>14 DEF Locks, CallType, CallShape
  <2>2. CallsOK'
    BY <1>14, <2>1, BecomesType, EndsType DEF Locks
  <2>3. spent' \subseteq Providers
    BY <1>2, <1>5, <1>14 DEF Locks, Loses, CallType
  <2> QED
    BY <1>14, <2>2, <2>3 DEF Locks, CredTypes
<1>15. ASSUME NEW c \in Calls, Writes(c) PROVE CredTypes'
  <2>1. ASSUME NEW d \in Calls PROVE calls'[d] \in CallType /\ CallShape(calls'[d])
    <3> DEFINE changed == Changed(c)
    <3>1. calls[d] \in CallType /\ CallShape(calls[d]) /\ changed \subseteq Providers
      BY <1>5 DEF Changed
    <3>2. calls'[d] = IF d = c THEN [calls[c] EXCEPT !.step = "release"]
                      ELSE IF calls[d].step \in {"refresh", "lock"}
                             THEN [calls[d] EXCEPT !.behind = @ \cup changed] ELSE calls[d]
      BY <1>15 DEF Writes
    <3> HIDE DEF changed
    <3>3. CASE d = c
      BY <3>1, <3>2, <3>3 DEF CallType, CallShape
    <3>4. CASE d # c /\ calls[d].step \in {"refresh", "lock"}
      BY <3>1, <3>2, <3>4 DEF CallType, CallShape
    <3> QED
      BY <3>1, <3>2, <3>3, <3>4
  <2>2. CallsOK'
    BY <1>15, <2>1 DEF Writes
  <2>3. spent' \subseteq Providers
    BY <1>2, <1>15 DEF Writes, Changed
  <2>4. auth' \in Stored
    BY <1>5, <1>15 DEF Writes, CallType
  <2> QED
    BY <1>15, <2>2, <2>3, <2>4 DEF Writes, CredTypes
<1>16. ASSUME NEW c \in Calls, WriteFails(c) PROVE CredTypes'
  <2>1. AfterFailedWrite(c) \in CallType /\ CallShape(AfterFailedWrite(c))
    BY <1>5, <1>16 DEF AfterFailedWrite, CallType, CallShape
  <2>2. CallsOK'
    BY <1>16, <2>1, BecomesType DEF WriteFails
  <2>3. spent' \subseteq Providers
    BY <1>2, <1>5, <1>16 DEF WriteFails, Loses, CallType
  <2> QED
    BY <1>3, <1>16, <2>2, <2>3 DEF WriteFails, CredTypes
<1>17. ASSUME NEW c \in Calls, Releases(c) PROVE CredTypes'
  <2>1. CallsOK'
    BY <1>17, EndsType DEF Releases
  <2> QED
    BY <1>17, <2>1 DEF Releases, CredTypes
<1>18. CASE Expire
  <2>1. PICK p \in Providers : /\ auth[p] # None
                               /\ served' = [served EXCEPT !.stale = @ \cup {auth[p].access}]
    BY <1>18 DEF Expire
  <2>2. auth[p].access \in 1..issued
    BY <1>2, <2>1 DEF TokensHaveOwners, IsOf, Stored, Tokens
  <2>3. served' \in [live : SUBSET (1..issued), stale : SUBSET (1..issued)]
    BY <2>1, <2>2 DEF CredTypes
  <2> QED
    BY <1>18, <2>3 DEF Expire, CredTypes
<1>19. CASE Stray
  <2>1. CallsOK'
    BY <1>19, EndsType DEF Stray
  <2> QED
    BY <1>3, <1>19, <2>1 DEF Stray, CredTypes
<1>20. CASE CredCrash
  <2>1. CallsOK'
    BY <1>20, WaitingType DEF CredCrash
  <2>2. spent' \subseteq Providers
    BY <1>2, <1>5, <1>20 DEF CredCrash, CallType
  <2> QED
    BY <1>3, <1>20, <2>1, <2>2 DEF CredCrash, CredTypes
<1>21. CASE UNCHANGED credVars
  BY <1>21 DEF credVars, CredTypes
<1> QED
  BY <1>6, <1>7, <1>8, <1>9, <1>10, <1>11, <1>12, <1>13, <1>14, <1>15, <1>16, <1>17, <1>18,
     <1>19, <1>20, <1>21 DEF CredNext, CredStep

(***************************************************************************)
(* What the actions do to the calls, field by field: the one whose action  *)
(* it is changes, and the others keep theirs.                              *)
(***************************************************************************)
Alone(c) == \A d \in Calls : d # c => calls'[d] = calls[d]
Idle(c) ==
  /\ calls'[c].step = "idle" /\ calls'[c].job = None /\ calls'[c].token = None
  /\ \A p \in Providers : calls'[c].copy[p] = None
Moves(c, from, to) == calls[c].step = from /\ calls'[c].step = to
Keeps(c) ==
  /\ calls'[c].job = calls[c].job /\ calls'[c].provider = calls[c].provider
  /\ calls'[c].copy = calls[c].copy /\ calls'[c].token = calls[c].token
  /\ calls'[c].behind = calls[c].behind /\ calls'[c].code = calls[c].code

LEMMA EndsChanges ==
  ASSUME CredTypes, NEW c \in Calls, Ends(c)
  PROVE  Alone(c) /\ Idle(c)
<1>1. calls'[c] = Waiting /\ Alone(c)
  BY EndsType DEF Alone
<1> QED
  BY <1>1 DEF Idle, Waiting, Nobody

LEMMA RequestChanges ==
  ASSUME CredTypes, NEW c \in Calls, NEW p \in Providers, Request(c, p)
  PROVE  /\ Alone(c) /\ Moves(c, "idle", "refresh")
         /\ calls'[c].job = "request" /\ calls'[c].provider = p /\ calls'[c].copy = auth
         /\ calls'[c].token = None /\ calls'[c].behind = {}
<1>1. calls' = [calls EXCEPT ![c] = [Waiting EXCEPT !.job = "request", !.provider = p,
                                                    !.step = "refresh", !.copy = auth]]
  BY DEF Request, Becomes
<1>2. calls'[c] = [Waiting EXCEPT !.job = "request", !.provider = p, !.step = "refresh",
                                  !.copy = auth] /\ Alone(c)
  BY <1>1 DEF CredTypes, Alone
<1> QED
  BY <1>2 DEF Waiting, Moves, Request

LEMMA RefreshChanges ==
  ASSUME CredTypes, NEW c \in Calls, Refresh(c)
  PROVE  \E old, new \in Tokens, rotates \in BOOLEAN :
           /\ Alone(c) /\ Moves(c, "refresh", "lock")
           /\ calls'[c].job = "request" /\ calls[c].job = "request"
           /\ calls'[c].provider = calls[c].provider
           /\ old = calls[c].copy[calls[c].provider] /\ calls[c].token = None
           /\ calls'[c].token = new
           /\ calls'[c].copy = [calls[c].copy EXCEPT ![calls[c].provider] = new]
           /\ calls'[c].behind = calls[c].behind
           /\ old.refresh \in served.live /\ Issues(old.refresh, issued + 1, rotates)
           /\ new = [access |-> issued + 1,
                     refresh |-> IF rotates THEN issued + 1 ELSE old.refresh]
<1> DEFINE item == calls[c]
           old == item.copy[item.provider]
<1>1. item \in CallType /\ CallShape(item) /\ item.step = "refresh"
  BY DEF CredTypes, Refresh
<1>2. PICK rotates \in BOOLEAN :
        /\ old.refresh \in served.live /\ Issues(old.refresh, issued + 1, rotates)
        /\ Becomes(c, [item EXCEPT !.step = "lock", !.token = Refreshed(old, issued + 1, rotates),
                         !.copy = [@ EXCEPT ![item.provider]
                                              = Refreshed(old, issued + 1, rotates)]])
  BY DEF Refresh
<1> DEFINE new == Refreshed(old, issued + 1, rotates)
<1>3. old \in Tokens /\ item.provider \in Providers /\ item.job = "request" /\ item.token = None
  BY <1>1 DEF CallType, CallShape, Stored
<1>4. issued + 1 \in 1..MaxIssued
  BY <1>2, CredAssumption DEF Issues, CredTypes
<1>5. new \in Tokens
        /\ new = [access |-> issued + 1, refresh |-> IF rotates THEN issued + 1 ELSE old.refresh]
  BY <1>2, <1>3, <1>4 DEF Tokens, Refreshed
<1> HIDE DEF new, old
<1>6. calls'[c] = [item EXCEPT !.step = "lock", !.token = new,
                               !.copy = [@ EXCEPT ![item.provider] = new]] /\ Alone(c)
  BY <1>2 DEF CredTypes, Becomes, Alone, new
<1>7. /\ Moves(c, "refresh", "lock") /\ calls'[c].job = "request"
      /\ calls'[c].provider = item.provider /\ calls'[c].token = new
      /\ calls'[c].copy = [item.copy EXCEPT ![item.provider] = new]
      /\ calls'[c].behind = item.behind
  BY <1>1, <1>3, <1>6 DEF CallType, Moves
<1>8. old = item.copy[item.provider]
  BY DEF old
<1> QED
  BY <1>2, <1>3, <1>5, <1>6, <1>7, <1>8

LEMMA LoginChanges ==
  ASSUME CredTypes, NEW c \in Calls, Login(c)
  PROVE  \/ UNCHANGED calls
         \/ /\ Alone(c) /\ Moves(c, "idle", "listen") /\ calls'[c].token = None
            /\ \A p \in Providers : calls'[c].copy[p] = None
<1>1. CASE UNCHANGED calls
  BY <1>1
<1>2. CASE Becomes(c, [Waiting EXCEPT !.job = "login", !.step = "listen"])
  <2>1. calls'[c] = [Waiting EXCEPT !.job = "login", !.step = "listen"] /\ Alone(c)
    BY <1>2 DEF CredTypes, Becomes, Alone
  <2> QED
    BY <2>1 DEF Waiting, Nobody, Moves, Login
<1> QED
  BY <1>1, <1>2 DEF Login

LEMMA CallbackChanges ==
  ASSUME CredTypes, NEW page \in Calls, Callback(page)
  PROVE  \/ UNCHANGED calls
         \/ \E c \in Calls : Alone(c) /\ calls[c].step = "listen" /\ Idle(c)
         \/ /\ Alone(page) /\ Moves(page, "listen", "exchange") /\ calls'[page].code = page
            /\ calls'[page].token = calls[page].token /\ calls'[page].copy = calls[page].copy
            /\ calls'[page].provider = calls[page].provider
<1>1. ASSUME NEW c \in Calls, calls[c].step = "listen", Ends(c)
      PROVE  \E d \in Calls : Alone(d) /\ calls[d].step = "listen" /\ Idle(d)
  BY <1>1, EndsChanges
<1>2. CASE /\ calls[page].step = "listen"
           /\ Becomes(page, [calls[page] EXCEPT !.step = "exchange", !.code = page])
  <2>1. calls'[page] = [calls[page] EXCEPT !.step = "exchange", !.code = page] /\ Alone(page)
    BY <1>2 DEF CredTypes, Becomes, Alone
  <2> QED
    BY <1>2, <2>1 DEF Moves, CredTypes, CallType
<1> QED
  BY <1>1, <1>2 DEF Callback, StateMatches

LEMMA ExchangeChanges ==
  ASSUME CredTypes, NEW c \in Calls, Exchange(c)
  PROVE  \/ Alone(c) /\ calls[c].step = "exchange" /\ Idle(c) /\ UNCHANGED <<issued, served>>
         \/ /\ Alone(c) /\ Moves(c, "exchange", "read") /\ calls'[c].job = "login"
            /\ calls'[c].token = [access |-> issued + 1, refresh |-> issued + 1]
            /\ calls'[c].copy = calls[c].copy /\ calls'[c].provider = calls[c].provider
            /\ issued < MaxIssued /\ issued' = issued + 1
            /\ served'.live = served.live \cup {issued + 1}
<1> DEFINE grant == [access |-> issued + 1, refresh |-> issued + 1]
<1>1. CASE Ends(c) /\ UNCHANGED <<issued, served>>
  BY <1>1, EndsChanges DEF Exchange
<1>2. CASE /\ issued' = issued + 1 /\ served' = [served EXCEPT !.live = @ \cup {issued + 1}]
           /\ Becomes(c, [calls[c] EXCEPT !.step = "read", !.token = grant])
  <2>1. calls'[c] = [calls[c] EXCEPT !.step = "read", !.token = grant] /\ Alone(c)
    BY <1>2 DEF CredTypes, Becomes, Alone
  <2>2. calls[c] \in CallType /\ CallShape(calls[c])
    BY DEF CredTypes
  <2> QED
    BY <1>2, <2>1, <2>2 DEF Moves, CredTypes, CallType, CallShape, Exchange
<1> QED
  BY <1>1, <1>2 DEF Exchange

LEMMA StoreReadsChanges ==
  ASSUME CredTypes, NEW c \in Calls, StoreReads(c)
  PROVE  \/ Alone(c) /\ calls[c].step = "read" /\ Idle(c)
         \/ /\ Alone(c) /\ Moves(c, "read", "lock") /\ calls'[c].behind = {}
            /\ calls[c].job = "login" /\ calls'[c].job = "login"
            /\ calls'[c].token = calls[c].token /\ calls'[c].provider = calls[c].provider
            /\ calls'[c].copy = [Held EXCEPT ![calls[c].provider] = calls[c].token]
            /\ authFile # "torn"
<1> DEFINE copy == WithLogin(calls[c].provider, calls[c].token)
<1>1. CASE Ends(c)
  BY <1>1, EndsChanges DEF StoreReads
<1>2. CASE /\ Becomes(c, [calls[c] EXCEPT !.step = "lock", !.behind = {}, !.copy = copy])
           /\ authFile # "torn"
  <2>1. copy = [Held EXCEPT ![calls[c].provider] = calls[c].token]
    BY DEF WithLogin
  <2> HIDE DEF copy
  <2>2. calls'[c] = [calls[c] EXCEPT !.step = "lock", !.behind = {}, !.copy = copy] /\ Alone(c)
    BY <1>2 DEF CredTypes, Becomes, Alone
  <2>3. calls[c] \in CallType /\ CallShape(calls[c])
    BY DEF CredTypes
  <2>4. /\ Moves(c, "read", "lock") /\ calls'[c].behind = {} /\ calls'[c].copy = copy
        /\ calls[c].job = "login" /\ calls'[c].job = "login"
        /\ calls'[c].token = calls[c].token /\ calls'[c].provider = calls[c].provider
    BY <2>2, <2>3 DEF Moves, CallType, CallShape, StoreReads
  <2> QED
    BY <1>2, <2>1, <2>2, <2>4
<1> QED
  BY <1>1, <1>2 DEF StoreReads

LEMMA LogoutChanges ==
  ASSUME CredTypes, NEW c \in Calls, Logout(c)
  PROVE  /\ Alone(c) /\ Moves(c, "idle", "lock") /\ calls'[c].behind = {}
         /\ calls'[c].job = "logout" /\ calls'[c].provider = LoginProvider
         /\ calls'[c].token = None /\ calls'[c].copy = [auth EXCEPT ![LoginProvider] = None]
<1>1. calls'[c] = [Waiting EXCEPT !.job = "logout", !.step = "lock",
                                  !.copy = [auth EXCEPT ![LoginProvider] = None]] /\ Alone(c)
  BY DEF Logout, CredTypes, Becomes, Alone
<1> QED
  BY <1>1 DEF Waiting, Moves, Logout

LEMMA LocksChanges ==
  ASSUME CredTypes, NEW c \in Calls, Locks(c)
  PROVE  \/ /\ Alone(c) /\ calls[c].step = "lock" /\ Idle(c) /\ Loses(c)
            /\ UNCHANGED <<lock, authFile>>
         \/ /\ Alone(c) /\ Moves(c, "lock", "write") /\ Keeps(c)
            /\ ~lock /\ lock' = TRUE /\ authFile' = "torn" /\ UNCHANGED spent
<1>1. CASE Ends(c) /\ Loses(c) /\ UNCHANGED <<lock, authFile>>
  BY <1>1, EndsChanges DEF Locks
<1>2. CASE /\ ~lock /\ lock' = TRUE /\ authFile' = "torn" /\ UNCHANGED spent
           /\ Becomes(c, [calls[c] EXCEPT !.step = "write"])
  <2>1. calls'[c] = [calls[c] EXCEPT !.step = "write"] /\ Alone(c)
    BY <1>2 DEF CredTypes, Becomes, Alone
  <2>2. calls[c] \in CallType
    BY DEF CredTypes
  <2>3. Moves(c, "lock", "write") /\ Keeps(c)
    BY <2>1, <2>2 DEF Moves, Keeps, CallType, Locks
  <2> QED
    BY <1>2, <2>1, <2>3
<1> QED
  BY <1>1, <1>2 DEF Locks, LockFree

LEMMA WritesChanges ==
  ASSUME CredTypes, NEW c \in Calls, Writes(c)
  PROVE  /\ Moves(c, "write", "release") /\ Keeps(c) /\ auth' = calls[c].copy
         /\ \A d \in Calls : d # c =>
              /\ calls'[d].step = calls[d].step /\ calls'[d].job = calls[d].job
              /\ calls'[d].provider = calls[d].provider /\ calls'[d].code = calls[d].code
              /\ calls'[d].copy = calls[d].copy /\ calls'[d].token = calls[d].token
              /\ calls'[d].behind = IF calls[d].step \in {"refresh", "lock"}
                                      THEN calls[d].behind \cup Changed(c) ELSE calls[d].behind
<1> DEFINE changed == Changed(c)
<1>1. \A d \in Calls : calls[d] \in CallType
  BY DEF CredTypes
<1>2. \A d \in Calls :
        calls'[d] = IF d = c THEN [calls[c] EXCEPT !.step = "release"]
                    ELSE IF calls[d].step \in {"refresh", "lock"}
                           THEN [calls[d] EXCEPT !.behind = @ \cup changed] ELSE calls[d]
  BY DEF Writes
<1> HIDE DEF changed
<1>3. Moves(c, "write", "release") /\ Keeps(c)
  BY <1>1, <1>2 DEF CallType, Moves, Keeps, Writes
<1>4. ASSUME NEW d \in Calls, d # c
      PROVE  /\ calls'[d].step = calls[d].step /\ calls'[d].job = calls[d].job
             /\ calls'[d].provider = calls[d].provider /\ calls'[d].code = calls[d].code
             /\ calls'[d].copy = calls[d].copy /\ calls'[d].token = calls[d].token
             /\ calls'[d].behind = IF calls[d].step \in {"refresh", "lock"}
                                     THEN calls[d].behind \cup changed ELSE calls[d].behind
  <2>1. CASE calls[d].step \in {"refresh", "lock"}
    BY <1>1, <1>2, <1>4, <2>1, ZenonT(60) DEF CallType
  <2>2. CASE calls[d].step \notin {"refresh", "lock"}
    BY <1>2, <1>4, <2>2
  <2> QED
    BY <2>1, <2>2
<1> QED
  BY <1>3, <1>4 DEF changed, Writes

LEMMA WriteFailsChanges ==
  ASSUME CredTypes, NEW c \in Calls, WriteFails(c)
  PROVE  Alone(c) /\ Moves(c, "write", "release") /\ Keeps(c)
<1>1. calls'[c] = [calls[c] EXCEPT !.step = "release"] /\ Alone(c)
  BY DEF CredTypes, Becomes, Alone, WriteFails, AfterFailedWrite
<1> QED
  BY <1>1 DEF Moves, Keeps, WriteFails, CredTypes, CallType

(***************************************************************************)
(* The lock is one writer's: who creates it finds no other.                *)
(***************************************************************************)
LEMMA OneWriterStep == CredTypes /\ OneWriter /\ [CredNext]_credVars => OneWriter'
<1> SUFFICES ASSUME CredTypes, OneWriter, [CredNext]_credVars
             PROVE  OneWriter'
  OBVIOUS
<1>1. ASSUME NEW c \in Calls, Alone(c), calls[c].step \notin {"write", "release"},
             calls'[c].step \notin {"write", "release"}, UNCHANGED <<lock, authFile, crashed>>
      PROVE  OneWriter'
  BY <1>1 DEF OneWriter, Writing, Alone
<1>2. ASSUME UNCHANGED <<calls, lock, authFile, crashed>> PROVE OneWriter'
  BY <1>2 DEF OneWriter, Writing
<1>3. ASSUME NEW c \in Calls, NEW p \in Providers, Request(c, p) PROVE OneWriter'
  BY <1>1, <1>3, RequestChanges DEF Request, Moves
<1>4. ASSUME NEW c \in Calls, Refresh(c) PROVE OneWriter'
  BY <1>1, <1>4, RefreshChanges DEF Refresh, Moves
<1>5. ASSUME NEW c \in Calls, RefreshFails(c) PROVE OneWriter'
  BY <1>1, <1>5, EndsChanges DEF RefreshFails, Idle
<1>6. ASSUME NEW c \in Calls, Login(c) PROVE OneWriter'
  BY <1>1, <1>2, <1>6, LoginChanges DEF Login, Moves
<1>7. ASSUME NEW c \in Calls, Callback(c) PROVE OneWriter'
  BY <1>1, <1>2, <1>7, CallbackChanges DEF Callback, Moves, Idle
<1>8. ASSUME NEW c \in Calls, Exchange(c) PROVE OneWriter'
  BY <1>1, <1>8, ExchangeChanges DEF Exchange, Moves, Idle
<1>9. ASSUME NEW c \in Calls, StoreReads(c) PROVE OneWriter'
  BY <1>1, <1>9, StoreReadsChanges DEF StoreReads, Moves, Idle
<1>10. ASSUME NEW c \in Calls, Logout(c) PROVE OneWriter'
  BY <1>1, <1>10, LogoutChanges DEF Logout, Moves
<1>11. ASSUME NEW c \in Calls, Locks(c) PROVE OneWriter'
  <2>1. CASE Alone(c) /\ calls[c].step = "lock" /\ Idle(c) /\ UNCHANGED <<lock, authFile>>
    BY <1>1, <1>11, <2>1 DEF Locks, Idle
  <2>2. CASE /\ Alone(c) /\ Moves(c, "lock", "write")
             /\ ~lock /\ lock' = TRUE /\ authFile' = "torn"
    BY <2>2 DEF OneWriter, Writing, Alone, Moves
  <2> QED
    BY <1>11, <2>1, <2>2, LocksChanges
<1>12. ASSUME NEW c \in Calls, Writes(c) PROVE OneWriter'
  <2>1. /\ Moves(c, "write", "release") /\ \A d \in Calls : d # c => calls'[d].step = calls[d].step
    BY <1>12, WritesChanges
  <2>2. \A d \in Calls : calls'[d].step # "write"
    BY <2>1 DEF OneWriter, Writing, Moves
  <2> QED
    BY <1>12, <2>1, <2>2 DEF OneWriter, Writing, Moves, Writes
<1>13. ASSUME NEW c \in Calls, WriteFails(c) PROVE OneWriter'
  BY <1>13, WriteFailsChanges DEF WriteFails, OneWriter, Writing, Moves, Alone
<1>14. ASSUME NEW c \in Calls, Releases(c) PROVE OneWriter'
  <2>1. Alone(c) /\ Idle(c)
    BY <1>14, EndsChanges DEF Releases
  <2> QED
    BY <1>14, <2>1 DEF Releases, OneWriter, Writing, Alone, Idle
<1>15. CASE Expire
  BY <1>2, <1>15 DEF Expire
<1>16. CASE Stray
  BY <1>1, <1>16, EndsChanges DEF Stray, Idle
<1>17. CASE CredCrash
  BY <1>17 DEF CredCrash, OneWriter, Writing, Waiting
<1>18. CASE UNCHANGED credVars
  BY <1>2, <1>18 DEF credVars
<1> QED
  BY <1>3, <1>4, <1>5, <1>6, <1>7, <1>8, <1>9, <1>10, <1>11, <1>12, <1>13, <1>14, <1>15, <1>16,
     <1>17, <1>18 DEF CredNext, CredStep

(***************************************************************************)
(* A login goes on only with the code of its own page.                     *)
(***************************************************************************)
LEMMA OwnCodeStep ==
  CredTypes /\ OnlyItsOwnCodeIsExchanged /\ [CredNext]_credVars => OnlyItsOwnCodeIsExchanged'
<1> SUFFICES ASSUME CredTypes, OnlyItsOwnCodeIsExchanged, [CredNext]_credVars
             PROVE  OnlyItsOwnCodeIsExchanged'
  OBVIOUS
<1>1. ASSUME NEW c \in Calls, Alone(c), calls'[c].step # "exchange"
      PROVE  OnlyItsOwnCodeIsExchanged'
  BY <1>1 DEF OnlyItsOwnCodeIsExchanged, Alone
<1>2. ASSUME UNCHANGED calls PROVE OnlyItsOwnCodeIsExchanged'
  BY <1>2 DEF OnlyItsOwnCodeIsExchanged
<1>3. ASSUME NEW c \in Calls, NEW p \in Providers, Request(c, p) PROVE OnlyItsOwnCodeIsExchanged'
  BY <1>1, <1>3, RequestChanges DEF Moves
<1>4. ASSUME NEW c \in Calls, Refresh(c) PROVE OnlyItsOwnCodeIsExchanged'
  BY <1>1, <1>4, RefreshChanges DEF Moves
<1>5. ASSUME NEW c \in Calls, RefreshFails(c) \/ Releases(c) PROVE OnlyItsOwnCodeIsExchanged'
  BY <1>1, <1>5, EndsChanges DEF RefreshFails, Releases, Idle
<1>6. ASSUME NEW c \in Calls, Login(c) PROVE OnlyItsOwnCodeIsExchanged'
  BY <1>1, <1>2, <1>6, LoginChanges DEF Moves
<1>7. ASSUME NEW c \in Calls, Callback(c) PROVE OnlyItsOwnCodeIsExchanged'
  <2>1. CASE Alone(c) /\ calls'[c].code = c
    BY <2>1 DEF OnlyItsOwnCodeIsExchanged, Alone
  <2> QED
    BY <1>1, <1>2, <1>7, <2>1, CallbackChanges DEF Idle
<1>8. ASSUME NEW c \in Calls, Exchange(c) PROVE OnlyItsOwnCodeIsExchanged'
  BY <1>1, <1>8, ExchangeChanges DEF Moves, Idle
<1>9. ASSUME NEW c \in Calls, StoreReads(c) PROVE OnlyItsOwnCodeIsExchanged'
  BY <1>1, <1>9, StoreReadsChanges DEF Moves, Idle
<1>10. ASSUME NEW c \in Calls, Logout(c) PROVE OnlyItsOwnCodeIsExchanged'
  BY <1>1, <1>10, LogoutChanges DEF Moves
<1>11. ASSUME NEW c \in Calls, Locks(c) PROVE OnlyItsOwnCodeIsExchanged'
  BY <1>1, <1>11, LocksChanges DEF Moves, Idle
<1>12. ASSUME NEW c \in Calls, Writes(c) PROVE OnlyItsOwnCodeIsExchanged'
  BY <1>12, WritesChanges, ZenonT(60) DEF Moves, OnlyItsOwnCodeIsExchanged
<1>13. ASSUME NEW c \in Calls, WriteFails(c) PROVE OnlyItsOwnCodeIsExchanged'
  BY <1>1, <1>13, WriteFailsChanges DEF Moves
<1>14. CASE Expire
  BY <1>2, <1>14 DEF Expire
<1>15. CASE Stray
  BY <1>1, <1>15, EndsChanges DEF Stray, Idle
<1>16. CASE CredCrash
  BY <1>16 DEF CredCrash, OnlyItsOwnCodeIsExchanged, Waiting
<1>17. CASE UNCHANGED credVars
  BY <1>2, <1>17 DEF credVars
<1> QED
  BY <1>3, <1>4, <1>5, <1>6, <1>7, <1>8, <1>9, <1>10, <1>11, <1>12, <1>13, <1>14, <1>15, <1>16,
     <1>17 DEF CredNext, CredStep

(***************************************************************************)
(* A call reads the file before it goes on with a copy, and falls behind   *)
(* on what another one changes.                                            *)
(***************************************************************************)
LEMMA CopiesAreUpToDateStep ==
  CredTypes /\ OneWriter /\ CopiesAreUpToDate /\ [CredNext]_credVars => CopiesAreUpToDate'
<1> SUFFICES ASSUME CredTypes, OneWriter, CopiesAreUpToDate, [CredNext]_credVars
             PROVE  CopiesAreUpToDate'
  OBVIOUS
<1> DEFINE UpToDate(c) ==
             /\ calls[c].step \in {"refresh", "lock", "write"} =>
                  \A p \in Providers \ calls[c].behind :
                    p # calls[c].provider => calls[c].copy[p] = auth[p]
             /\ calls[c].step = "refresh" =>
                  calls[c].provider \in calls[c].behind
                    \/ calls[c].copy[calls[c].provider] = auth[calls[c].provider]
<1>1. \A c \in Calls : UpToDate(c)
  BY DEF CopiesAreUpToDate
<1>2. ASSUME NEW c \in Calls, Alone(c), UpToDate(c)', UNCHANGED auth,
             authFile' \in {authFile, "torn"}
      PROVE  CopiesAreUpToDate'
  <2>1. \A d \in Calls : UpToDate(d)'
    BY <1>1, <1>2 DEF Alone
  <2> QED
    BY <1>2, <2>1 DEF CopiesAreUpToDate
<1>3. ASSUME NEW c \in Calls, Alone(c), UNCHANGED <<auth, authFile>>,
             calls'[c].step \notin {"refresh", "lock", "write"}
      PROVE  CopiesAreUpToDate'
  BY <1>2, <1>3
<1>4. ASSUME UNCHANGED <<calls, auth, authFile>> PROVE CopiesAreUpToDate'
  BY <1>4 DEF CopiesAreUpToDate
<1>5. \A c \in Calls : calls[c] \in CallType /\ CallShape(calls[c])
  BY DEF CredTypes
<1> HIDE DEF UpToDate
<1>6. ASSUME NEW c \in Calls, NEW p \in Providers, Request(c, p) PROVE CopiesAreUpToDate'
  <2>1. UpToDate(c)'
    BY <1>6, RequestChanges DEF UpToDate, Request
  <2> QED
    BY <1>2, <1>6, <2>1, RequestChanges DEF Request
<1>7. ASSUME NEW c \in Calls, Refresh(c) PROVE CopiesAreUpToDate'
  <2>1. PICK old, new \in Tokens, rotates \in BOOLEAN :
          /\ Alone(c) /\ Moves(c, "refresh", "lock")
          /\ calls'[c].provider = calls[c].provider
          /\ calls'[c].copy = [calls[c].copy EXCEPT ![calls[c].provider] = new]
          /\ calls'[c].behind = calls[c].behind
    BY <1>7, RefreshChanges
  <2>2. UpToDate(c)'
    <3>1. calls[c].copy \in [Providers -> Tokens \cup {None}]
      BY <1>5 DEF CallType, Stored
    <3> QED
      BY <1>1, <1>7, <2>1, <3>1 DEF UpToDate, Moves, Refresh
  <2> QED
    BY <1>2, <1>7, <2>1, <2>2 DEF Refresh
<1>8. ASSUME NEW c \in Calls, RefreshFails(c) \/ Releases(c) PROVE CopiesAreUpToDate'
  BY <1>3, <1>8, EndsChanges DEF RefreshFails, Releases, Idle
<1>9. ASSUME NEW c \in Calls, Login(c) PROVE CopiesAreUpToDate'
  BY <1>3, <1>4, <1>9, LoginChanges DEF Moves, Login
<1>10. ASSUME NEW c \in Calls, Callback(c) PROVE CopiesAreUpToDate'
  BY <1>3, <1>4, <1>10, CallbackChanges DEF Moves, Idle, Callback
<1>11. ASSUME NEW c \in Calls, Exchange(c) PROVE CopiesAreUpToDate'
  BY <1>3, <1>11, ExchangeChanges DEF Moves, Idle, Exchange
<1>12. ASSUME NEW c \in Calls, StoreReads(c) PROVE CopiesAreUpToDate'
  <2>1. CASE Alone(c) /\ Idle(c)
    BY <1>3, <1>12, <2>1 DEF StoreReads, Idle
  <2>2. CASE /\ Alone(c) /\ Moves(c, "read", "lock") /\ calls'[c].behind = {}
             /\ calls'[c].token = calls[c].token /\ calls'[c].provider = calls[c].provider
             /\ calls'[c].copy = [Held EXCEPT ![calls[c].provider] = calls[c].token]
    <3>1. \A p \in Providers : Held[p] = auth[p]
      BY DEF CopiesAreUpToDate, Held, Nobody
    <3>2. DOMAIN Held = Providers
      BY DEF Held
    <3>3. UpToDate(c)'
      BY <1>12, <2>2, <3>1, <3>2 DEF UpToDate, Moves, StoreReads
    <3> QED
      BY <1>2, <1>12, <2>2, <3>3 DEF StoreReads
  <2> QED
    BY <1>12, <2>1, <2>2, StoreReadsChanges
<1>13. ASSUME NEW c \in Calls, Logout(c) PROVE CopiesAreUpToDate'
  <2>1. UpToDate(c)'
    BY <1>13, LogoutChanges DEF UpToDate, Moves, Logout, CredTypes, Stored
  <2> QED
    BY <1>2, <1>13, <2>1, LogoutChanges DEF Logout
<1>14. ASSUME NEW c \in Calls, Locks(c) PROVE CopiesAreUpToDate'
  <2>1. CASE Alone(c) /\ Idle(c) /\ UNCHANGED <<lock, authFile>>
    BY <1>3, <1>14, <2>1 DEF Locks, Idle
  <2>2. CASE Alone(c) /\ Moves(c, "lock", "write") /\ Keeps(c) /\ authFile' = "torn"
    <3>1. UpToDate(c)'
      BY <1>1, <1>14, <2>2 DEF UpToDate, Moves, Keeps, Locks
    <3> QED
      BY <1>2, <1>14, <2>2, <3>1 DEF Locks
  <2> QED
    BY <1>14, <2>1, <2>2, LocksChanges
<1>15. ASSUME NEW c \in Calls, Writes(c) PROVE CopiesAreUpToDate'
  <2>1. ASSUME NEW d \in Calls PROVE UpToDate(d)'
    <3>1. CASE d = c
      BY <1>15, <3>1, WritesChanges DEF UpToDate, Moves
    <3>2. CASE d # c /\ calls[d].step \in {"refresh", "lock"}
      <4>1. \A p \in Providers \ Changed(c) : auth'[p] = auth[p]
        BY <1>15, WritesChanges DEF Changed
      <4>2. /\ calls'[d].step = calls[d].step /\ calls'[d].provider = calls[d].provider
            /\ calls'[d].copy = calls[d].copy
            /\ calls'[d].behind = calls[d].behind \cup Changed(c)
        BY <1>15, <3>2, WritesChanges
      <4> QED
        BY <1>1, <1>5, <4>1, <4>2 DEF UpToDate, CallType
    <3>3. CASE d # c /\ calls[d].step \notin {"refresh", "lock"}
      <4>1. calls[d].step # "write"
        BY <1>15, <3>3 DEF OneWriter, Writing, Writes
      <4> QED
        BY <1>15, <3>3, <4>1, WritesChanges DEF UpToDate
    <3> QED
      BY <3>1, <3>2, <3>3
  <2> QED
    BY <1>15, <2>1 DEF CopiesAreUpToDate, Writes, UpToDate
<1>16. ASSUME NEW c \in Calls, WriteFails(c) PROVE CopiesAreUpToDate'
  BY <1>3, <1>16, WriteFailsChanges DEF Moves, WriteFails
<1>17. CASE Expire
  BY <1>4, <1>17 DEF Expire
<1>18. CASE Stray
  BY <1>3, <1>18, EndsChanges DEF Stray, Idle
<1>19. CASE CredCrash
  BY <1>19 DEF CredCrash, CopiesAreUpToDate, Waiting
<1>20. CASE UNCHANGED credVars
  BY <1>4, <1>20 DEF credVars
<1> QED
  BY <1>6, <1>7, <1>8, <1>9, <1>10, <1>11, <1>12, <1>13, <1>14, <1>15, <1>16, <1>17, <1>18,
     <1>19, <1>20 DEF CredNext, CredStep

(***************************************************************************)
(* A token that comes to another place was the same provider's there it    *)
(* comes from, and a new one is nobody's yet.                              *)
(***************************************************************************)
LEMMA TokensHaveOwnersStep ==
  CredTypes /\ TokensHaveOwners /\ [CredNext]_credVars => TokensHaveOwners'
<1> SUFFICES ASSUME CredTypes, TokensHaveOwners, [CredNext]_credVars
             PROVE  TokensHaveOwners'
  OBVIOUS
<1>1. None \notin Tokens /\ issued \in Nat
  BY CredAssumption DEF CredTypes
<1>2. ASSUME \A p \in Providers, grant \in Tokens : IsOf(grant, p)' => IsOf(grant, p),
             issued' \in {issued, issued + 1}
      PROVE  TokensHaveOwners'
  <2>1. \A n \in 1..MaxIssued : n <= issued => n <= issued'
    BY <1>1, <1>2
  <2>2. \A grant \in Tokens : grant.access \in 1..MaxIssued /\ grant.refresh \in 1..MaxIssued
    BY DEF Tokens
  <2> QED
    BY <1>2, <2>1, <2>2 DEF TokensHaveOwners
<1>3. ASSUME NEW c \in Calls, Alone(c), UNCHANGED auth, issued' \in {issued, issued + 1},
             \A p \in Providers : calls'[c].copy[p] \in {None, auth[p], calls[c].copy[p]},
             \/ calls'[c].token = None
             \/ calls'[c].token = calls[c].token /\ calls'[c].provider = calls[c].provider
      PROVE  TokensHaveOwners'
  <2>1. ASSUME NEW p \in Providers, NEW grant \in Tokens, IsOf(grant, p)'
        PROVE  IsOf(grant, p)
    BY <1>1, <1>3, <2>1 DEF IsOf, Alone
  <2> QED
    BY <1>2, <1>3, <2>1
<1>4. ASSUME NEW c \in Calls, Alone(c), UNCHANGED auth, issued' \in {issued, issued + 1}, Idle(c)
      PROVE  TokensHaveOwners'
  BY <1>3, <1>4 DEF Idle
<1>5. ASSUME UNCHANGED <<calls, auth>>, issued' = issued PROVE TokensHaveOwners'
  BY <1>2, <1>5 DEF IsOf
<1>6. ASSUME NEW q \in Providers, NEW new \in Tokens,
             new.access = issued + 1, issued' = issued + 1,
             \/ new.refresh = issued + 1
             \/ \E old \in Tokens : IsOf(old, q) /\ new.refresh = old.refresh,
             \A p \in Providers, grant \in Tokens :
               IsOf(grant, p)' => IsOf(grant, p) \/ (p = q /\ grant = new)
      PROVE  TokensHaveOwners'
  <2>1. \A grant \in Tokens : grant.access \in Nat /\ grant.refresh \in Nat
    BY CredAssumption DEF Tokens
  <2>2. ASSUME NEW p \in Providers, NEW grant \in Tokens, IsOf(grant, p)'
        PROVE  grant.access <= issued' /\ grant.refresh <= issued'
    <3>1. CASE IsOf(grant, p)
      BY <1>1, <1>6, <2>1, <3>1 DEF TokensHaveOwners
    <3>2. CASE p = q /\ grant = new
      <4>1. \A old \in Tokens : IsOf(old, q) => old.refresh <= issued
        BY DEF TokensHaveOwners
      <4> QED
        BY <1>1, <1>6, <2>1, <3>2, <4>1
    <3> QED
      BY <1>6, <2>2, <3>1, <3>2
  <2>3. ASSUME NEW p \in Providers, NEW grant \in Tokens, IsOf(grant, p),
               grant.refresh = new.refresh
        PROVE  p = q
    <3>1. grant.refresh # issued + 1
      BY <1>1, <2>1, <2>3 DEF TokensHaveOwners
    <3> QED
      BY <1>6, <2>3, <3>1 DEF TokensHaveOwners
  <2>4. ASSUME NEW p \in Providers, NEW grant \in Tokens, IsOf(grant, p)',
               NEW r \in Providers, NEW other \in Tokens, IsOf(other, r)',
               other.refresh = grant.refresh
        PROVE  p = r
    <3>1. IsOf(grant, p) \/ (p = q /\ grant = new)
      BY <1>6, <2>4
    <3>2. IsOf(other, r) \/ (r = q /\ other = new)
      BY <1>6, <2>4
    <3>3. CASE IsOf(grant, p) /\ IsOf(other, r)
      BY <2>4, <3>3 DEF TokensHaveOwners
    <3> QED
      BY <2>3, <2>4, <3>1, <3>2, <3>3
  <2> QED
    BY <2>2, <2>4 DEF TokensHaveOwners
<1>7. \A c \in Calls : calls[c] \in CallType /\ CallShape(calls[c])
  BY DEF CredTypes
<1>8. ASSUME NEW c \in Calls, NEW p \in Providers, Request(c, p) PROVE TokensHaveOwners'
  BY <1>3, <1>8, RequestChanges DEF Request
<1>9. ASSUME NEW c \in Calls, Refresh(c) PROVE TokensHaveOwners'
  <2>1. PICK old, new \in Tokens, rotates \in BOOLEAN :
           /\ Alone(c) /\ Moves(c, "refresh", "lock")
           /\ calls'[c].job = "request" /\ calls[c].job = "request"
           /\ calls'[c].provider = calls[c].provider
           /\ old = calls[c].copy[calls[c].provider] /\ calls[c].token = None
           /\ calls'[c].token = new
           /\ calls'[c].copy = [calls[c].copy EXCEPT ![calls[c].provider] = new]
           /\ calls'[c].behind = calls[c].behind
           /\ old.refresh \in served.live /\ Issues(old.refresh, issued + 1, rotates)
           /\ new = [access |-> issued + 1,
                     refresh |-> IF rotates THEN issued + 1 ELSE old.refresh]
    BY <1>9, RefreshChanges
  <2>0. issued' = issued + 1
    BY <2>1 DEF Issues
  <2>2. calls[c].provider \in Providers /\ calls[c].copy \in [Providers -> Tokens \cup {None}]
    BY <1>7 DEF CallType, Stored
  <2>3. IsOf(old, calls[c].provider)
    BY <2>1 DEF IsOf
  <2>4. ASSUME NEW p \in Providers, NEW grant \in Tokens, IsOf(grant, p)'
        PROVE  IsOf(grant, p) \/ (p = calls[c].provider /\ grant = new)
    BY <1>9, <2>1, <2>2, <2>4, SMTT(60) DEF IsOf, Alone, Refresh
  <2> QED
    BY <1>6, <2>0, <2>1, <2>2, <2>3, <2>4, SMTT(60)
<1>10. ASSUME NEW c \in Calls, RefreshFails(c) \/ Releases(c) PROVE TokensHaveOwners'
  BY <1>4, <1>10, EndsChanges DEF RefreshFails, Releases, Issues
<1>11. ASSUME NEW c \in Calls, Login(c) PROVE TokensHaveOwners'
  BY <1>3, <1>5, <1>11, LoginChanges DEF Login
<1>12. ASSUME NEW c \in Calls, Callback(c) PROVE TokensHaveOwners'
  BY <1>3, <1>4, <1>5, <1>12, CallbackChanges DEF Callback
<1>13. ASSUME NEW c \in Calls, Exchange(c) PROVE TokensHaveOwners'
  <2>1. CASE Alone(c) /\ Idle(c) /\ UNCHANGED <<issued, served>>
    BY <1>4, <1>13, <2>1 DEF Exchange
  <2>2. CASE /\ Alone(c) /\ calls'[c].token = [access |-> issued + 1, refresh |-> issued + 1]
             /\ calls'[c].copy = calls[c].copy /\ calls'[c].provider = calls[c].provider
             /\ issued < MaxIssued /\ issued' = issued + 1
    <3> DEFINE new == [access |-> issued + 1, refresh |-> issued + 1]
    <3>1. new \in Tokens /\ new.access = issued + 1 /\ new.refresh = issued + 1
      BY <1>1, <2>2, CredAssumption DEF Tokens
    <3>2. calls'[c].token = new
      BY <2>2
    <3> HIDE DEF new
    <3>3. ASSUME NEW p \in Providers, NEW grant \in Tokens, IsOf(grant, p)'
          PROVE  IsOf(grant, p) \/ (p = calls[c].provider /\ grant = new)
      BY <1>13, <2>2, <3>2, <3>3 DEF IsOf, Alone, Exchange
    <3>4. calls[c].provider \in Providers
      BY <1>7 DEF CallType
    <3> QED
      BY <1>6, <2>2, <3>1, <3>3, <3>4
  <2> QED
    BY <1>13, <2>1, <2>2, ExchangeChanges
<1>14. ASSUME NEW c \in Calls, StoreReads(c) PROVE TokensHaveOwners'
  <2>1. CASE Alone(c) /\ Idle(c)
    BY <1>4, <1>14, <2>1 DEF StoreReads
  <2>2. CASE /\ Alone(c)
             /\ calls'[c].token = calls[c].token /\ calls'[c].provider = calls[c].provider
             /\ calls'[c].copy = [Held EXCEPT ![calls[c].provider] = calls[c].token]
    <3>1. \A p \in Providers : Held[p] \in {None, auth[p]}
      BY DEF Held
    <3>2. \A p \in Providers : \/ calls'[c].copy[p] \in {None, auth[p]}
                               \/ p = calls[c].provider /\ calls'[c].copy[p] = calls[c].token
      BY <2>2, <3>1 DEF Held
    <3>3. ASSUME NEW p \in Providers, NEW grant \in Tokens, IsOf(grant, p)'
          PROVE  IsOf(grant, p)
      <4>1. CASE grant = auth'[p]
        BY <1>14, <4>1 DEF IsOf, StoreReads
      <4>2. ASSUME NEW d \in Calls, d # c, \/ grant = calls'[d].copy[p]
                                           \/ calls'[d].provider = p /\ grant = calls'[d].token
            PROVE  IsOf(grant, p)
        BY <2>2, <4>2 DEF IsOf, Alone
      <4>3. CASE grant = calls'[c].copy[p]
        BY <1>1, <3>2, <4>3 DEF IsOf
      <4>4. CASE calls'[c].provider = p /\ grant = calls'[c].token
        BY <2>2, <4>4 DEF IsOf
      <4>5. \/ grant = auth'[p]
            \/ \E d \in Calls : \/ grant = calls'[d].copy[p]
                                \/ calls'[d].provider = p /\ grant = calls'[d].token
        BY <3>3 DEF IsOf
      <4> QED
        BY <4>1, <4>2, <4>3, <4>4, <4>5
    <3> QED
      BY <1>2, <1>14, <3>3 DEF StoreReads
  <2> QED
    BY <1>14, <2>1, <2>2, StoreReadsChanges
<1>15. ASSUME NEW c \in Calls, Logout(c) PROVE TokensHaveOwners'
  <2>1. \A p \in Providers : calls'[c].copy[p] \in {None, auth[p]}
    BY <1>15, LogoutChanges DEF CredTypes, Stored
  <2> QED
    BY <1>3, <1>15, <2>1, LogoutChanges DEF Logout
<1>16. ASSUME NEW c \in Calls, Locks(c) PROVE TokensHaveOwners'
  BY <1>3, <1>4, <1>16, LocksChanges DEF Locks, Keeps
<1>17. ASSUME NEW c \in Calls, Writes(c) PROVE TokensHaveOwners'
  <2>1. ASSUME NEW p \in Providers, NEW grant \in Tokens, IsOf(grant, p)'
        PROVE  IsOf(grant, p)
    <3>1. \A d \in Calls : /\ calls'[d].provider = calls[d].provider
                           /\ calls'[d].copy = calls[d].copy /\ calls'[d].token = calls[d].token
      BY <1>17, WritesChanges DEF Keeps
    <3>2. auth' = calls[c].copy
      BY <1>17, WritesChanges
    <3> QED
      BY <2>1, <3>1, <3>2 DEF IsOf
  <2> QED
    BY <1>2, <1>17, <2>1 DEF Writes
<1>18. ASSUME NEW c \in Calls, WriteFails(c) PROVE TokensHaveOwners'
  BY <1>3, <1>18, WriteFailsChanges DEF WriteFails, Keeps
<1>19. CASE Expire
  BY <1>5, <1>19 DEF Expire
<1>20. CASE Stray
  BY <1>4, <1>20, EndsChanges DEF Stray
<1>21. CASE CredCrash
  <2>1. ASSUME NEW p \in Providers, NEW grant \in Tokens, IsOf(grant, p)'
        PROVE  IsOf(grant, p)
    BY <1>1, <1>21, <2>1 DEF IsOf, CredCrash, Waiting, Nobody
  <2> QED
    BY <1>2, <1>21, <2>1 DEF CredCrash
<1>22. CASE UNCHANGED credVars
  BY <1>5, <1>22 DEF credVars
<1> QED
  BY <1>8, <1>9, <1>10, <1>11, <1>12, <1>13, <1>14, <1>15, <1>16, <1>17, <1>18, <1>19, <1>20,
     <1>21, <1>22 DEF CredNext, CredStep

(***************************************************************************)
(* A token that only one call has keeps working: a refresh sends what is   *)
(* in its own copy.                                                        *)
(***************************************************************************)
LEMMA IssuedTokens ==
  ASSUME CredTypes, TokensHaveOwners
  PROVE  /\ \A n : InFile(n) => n \in 1..issued
         /\ \A n : \A c \in Calls : Has(n, c) => n \in 1..issued
<1>1. \A c \in Calls : calls[c] \in CallType
  BY DEF CredTypes
<1>2. \A p \in Providers, grant \in Tokens : IsOf(grant, p) => grant.refresh \in 1..issued
  BY CredAssumption DEF TokensHaveOwners, Tokens, CredTypes
<1>3. ASSUME NEW n, InFile(n) PROVE n \in 1..issued
  BY <1>2, <1>3 DEF InFile, IsOf, CredTypes, Stored
<1>4. ASSUME NEW n, NEW c \in Calls, Has(n, c) PROVE n \in 1..issued
  BY <1>1, <1>2, <1>4 DEF Has, IsOf, CallType, Stored
<1> QED
  BY <1>3, <1>4

LEMMA CarriedTokensWorkStep ==
  CredTypes /\ OneWriter /\ CopiesAreUpToDate /\ TokensHaveOwners /\ CarriedTokensWork
    /\ [CredNext]_credVars => CarriedTokensWork'
<1> SUFFICES ASSUME CredTypes, OneWriter, CopiesAreUpToDate, TokensHaveOwners,
                    CarriedTokensWork, [CredNext]_credVars
             PROVE  CarriedTokensWork'
  OBVIOUS
<1> DEFINE Carried(c) ==
             /\ calls[c].job = "login" /\ calls[c].step \in {"read", "lock", "write"} => Private(c)
             /\ calls[c].job = "request" /\ calls[c].step \in {"lock", "write"} =>
                  Private(c) \/ OnFile(c) \/ calls[c].provider \in calls[c].behind
<1>0. \A c \in Calls : Carried(c)
  BY DEF CarriedTokensWork
<1>1. \A c \in Calls : calls[c] \in CallType /\ CallShape(calls[c])
  BY DEF CredTypes
<1>2. issued \in Nat /\ issued + 1 \notin 1..issued
  BY CredAssumption DEF CredTypes
<1>3. ASSUME NEW d \in Calls, calls[d].step \in {"read", "lock", "write"}, calls[d].job # "logout"
      PROVE  calls[d].token # None /\ Has(calls[d].token.refresh, d)
  BY <1>1, <1>3 DEF CallShape, Has
<1>4. ASSUME NEW c \in Calls, Alone(c), UNCHANGED auth, Carried(c)',
             \A n \in 1..issued : Has(n, c)' => Has(n, c) \/ InFile(n),
             \A n \in 1..issued : n \in served.live /\ ~Has(n, c) => n \in served'.live
      PROVE  CarriedTokensWork'
  <2>1. ASSUME NEW d \in Calls, d # c PROVE Carried(d)'
    <3>1. calls'[d] = calls[d]
      BY <1>4, <2>1 DEF Alone
    <3>2. OnFile(d) => OnFile(d)'
      BY <1>4, <3>1 DEF OnFile
    <3>3. ASSUME calls[d].step \in {"read", "lock", "write"}, calls[d].job # "logout", Private(d)
          PROVE  Private(d)'
      <4>0. PICK n : n = calls[d].token.refresh
        OBVIOUS
      <4>1. n \in 1..issued
        BY <1>3, <3>3, <4>0, IssuedTokens
      <4>2. n \in served.live /\ ~InFile(n) /\ \A e \in Calls : e # d => ~Has(n, e)
        BY <3>3, <4>0 DEF Private
      <4>3. n \in served'.live
        BY <1>4, <2>1, <4>1, <4>2
      <4>4. ~InFile(n)'
        BY <1>4, <4>2 DEF InFile
      <4>5. \A e \in Calls : e # d => ~Has(n, e)'
        BY <1>4, <4>1, <4>2 DEF Has, Alone
      <4>6. calls'[d].token.refresh = n
        BY <3>1, <4>0
      <4> QED
        BY <4>3, <4>4, <4>5, <4>6 DEF Private, InFile, Has
    <3> QED
      BY <1>0, <3>1, <3>2, <3>3
  <2>2. \A d \in Calls : Carried(d)'
    BY <1>4, <2>1
  <2> QED
    BY <2>2 DEF CarriedTokensWork
<1>5. ASSUME NEW c \in Calls, Alone(c), UNCHANGED auth, Idle(c),
             \A n \in 1..issued : n \in served.live /\ ~Has(n, c) => n \in served'.live
      PROVE  CarriedTokensWork'
  <2>1. Carried(c)' /\ \A n : ~Has(n, c)'
    BY <1>5 DEF Idle, Has
  <2> QED
    BY <1>4, <1>5, <2>1
<1>6. ASSUME UNCHANGED <<calls, auth, served.live>> PROVE CarriedTokensWork'
  BY <1>6 DEF CarriedTokensWork, Private, OnFile, InFile, Has
<1>7. ASSUME NEW c \in Calls, Alone(c), UNCHANGED <<auth, served.live>>, Keeps(c),
             calls[c].step = "lock" \/ calls'[c].step = "release"
      PROVE  CarriedTokensWork'
  <2>1. \A n : Has(n, c)' => Has(n, c)
    BY <1>7 DEF Has, Keeps
  <2>2. Private(c) => Private(c)'
    BY <1>7 DEF Private, InFile, Has, Keeps, Alone
  <2>3. OnFile(c) => OnFile(c)'
    BY <1>7 DEF OnFile, Keeps
  <2>4. Carried(c)'
    BY <1>0, <1>7, <2>2, <2>3 DEF Keeps
  <2> HIDE DEF Carried
  <2> QED
    BY <1>4, <1>7, <2>1, <2>4
<1> HIDE DEF Carried
<1>8. ASSUME NEW c \in Calls, NEW p \in Providers, Request(c, p) PROVE CarriedTokensWork'
  <2>1. Alone(c) /\ calls'[c].step = "refresh" /\ calls'[c].copy = auth /\ calls'[c].token = None
    BY <1>8, RequestChanges DEF Moves
  <2>2. Carried(c)' /\ \A n : Has(n, c)' => InFile(n)
    BY <2>1 DEF Carried, Has, InFile
  <2> QED
    BY <1>4, <1>8, <2>1, <2>2 DEF Request
<1>9. ASSUME NEW c \in Calls, Refresh(c) PROVE CarriedTokensWork'
  <2>1. PICK old, new \in Tokens, rotates \in BOOLEAN :
           /\ Alone(c) /\ Moves(c, "refresh", "lock")
           /\ calls'[c].job = "request" /\ calls[c].job = "request"
           /\ calls'[c].provider = calls[c].provider
           /\ old = calls[c].copy[calls[c].provider] /\ calls[c].token = None
           /\ calls'[c].token = new
           /\ calls'[c].copy = [calls[c].copy EXCEPT ![calls[c].provider] = new]
           /\ calls'[c].behind = calls[c].behind
           /\ old.refresh \in served.live /\ Issues(old.refresh, issued + 1, rotates)
           /\ new = [access |-> issued + 1,
                     refresh |-> IF rotates THEN issued + 1 ELSE old.refresh]
    BY <1>9, RefreshChanges
  <2>2. calls[c].provider \in Providers /\ calls[c].copy \in [Providers -> Tokens \cup {None}]
    BY <1>1 DEF CallType, Stored
  <2>3. Has(old.refresh, c)
    BY <2>1, <2>2, CredAssumption DEF Has
  <2>4. new.refresh = IF rotates THEN issued + 1 ELSE old.refresh
    BY <2>1
  <2>5. \A n \in 1..issued : Has(n, c)' => Has(n, c)
    <3>1. \A p \in Providers : calls'[c].copy[p] = new \/ calls'[c].copy[p] = calls[c].copy[p]
      BY <2>1, <2>2
    <3>2. ASSUME NEW n \in 1..issued, n = new.refresh PROVE Has(n, c)
      BY <1>2, <2>3, <2>4, <3>2
    <3> QED
      BY <2>1, <3>1, <3>2 DEF Has
  <2>6. \A n \in 1..issued : n \in served.live /\ ~Has(n, c) => n \in served'.live
    BY <2>1, <2>3 DEF Issues, CredTypes
  <2>7. Carried(c)'
    <3>1. CASE rotates
      <4>0. PICK n : n = issued + 1
        OBVIOUS
      <4>1. new.refresh = n /\ n \in served'.live
        BY <2>1, <2>4, <3>1, <4>0 DEF Issues, CredTypes
      <4>2. ~InFile(n)' /\ \A d \in Calls : d # c => ~Has(n, d)'
        <5>1. ~InFile(n) /\ \A d \in Calls : ~Has(n, d)
          BY <1>2, <4>0, IssuedTokens
        <5> QED
          BY <1>9, <2>1, <5>1, SMTT(60) DEF InFile, Has, Alone, Refresh
      <4>3. Private(c)'
        BY <2>1, <4>1, <4>2, SMTT(60) DEF Private, InFile, Has
      <4> QED
        BY <2>1, <4>3 DEF Carried
    <3>2. CASE ~rotates
      <4>1. CASE calls[c].provider \in calls[c].behind
        BY <2>1, <4>1 DEF Carried
      <4>2. CASE calls[c].provider \notin calls[c].behind
        <5>1. auth[calls[c].provider] = old
          BY <1>9, <2>1, <4>2 DEF CopiesAreUpToDate, Refresh
        <5>2. OnFile(c)'
          BY <1>9, <2>1, <2>4, <3>2, <5>1, CredAssumption DEF OnFile, Refresh
        <5> QED
          BY <2>1, <5>2 DEF Carried
      <4> QED
        BY <4>1, <4>2
    <3> QED
      BY <3>1, <3>2
  <2> QED
    BY <1>4, <1>9, <2>1, <2>5, <2>6, <2>7 DEF Refresh
<1>10. ASSUME NEW c \in Calls, RefreshFails(c) PROVE CarriedTokensWork'
  <2> DEFINE old == calls[c].copy[calls[c].provider].refresh
  <2>1. Has(old, c)
    <3>1. calls[c].copy[calls[c].provider] # None /\ calls[c].provider \in Providers
      BY <1>1, <1>10 DEF RefreshFails, CallShape, CallType
    <3> QED
      BY <3>1 DEF Has
  <2>2. UNCHANGED served \/ Issues(old, issued + 1, TRUE)
    BY <1>10 DEF RefreshFails
  <2> HIDE DEF old
  <2>3. \A n \in 1..issued : n \in served.live /\ ~Has(n, c) => n \in served'.live
    BY <2>1, <2>2 DEF Issues, CredTypes
  <2> QED
    BY <1>5, <1>10, <2>3, EndsChanges DEF RefreshFails
<1>11. ASSUME NEW c \in Calls, Login(c) PROVE CarriedTokensWork'
  <2>1. CASE UNCHANGED calls
    BY <1>6, <1>11, <2>1 DEF Login
  <2>2. CASE /\ Alone(c) /\ Moves(c, "idle", "listen") /\ calls'[c].token = None
             /\ \A p \in Providers : calls'[c].copy[p] = None
    <3>1. Carried(c)' /\ \A n : ~Has(n, c)'
      BY <2>2 DEF Carried, Has, Moves
    <3> QED
      BY <1>4, <1>11, <2>2, <3>1 DEF Login
  <2> QED
    BY <1>11, <2>1, <2>2, LoginChanges
<1>12. ASSUME NEW page \in Calls, Callback(page) PROVE CarriedTokensWork'
  <2>1. CASE UNCHANGED calls
    BY <1>6, <1>12, <2>1 DEF Callback
  <2>2. ASSUME NEW c \in Calls, Alone(c), Idle(c) PROVE CarriedTokensWork'
    BY <1>5, <1>12, <2>2 DEF Callback
  <2>3. CASE /\ Alone(page) /\ Moves(page, "listen", "exchange")
             /\ calls'[page].token = calls[page].token /\ calls'[page].copy = calls[page].copy
    <3>1. Carried(page)' /\ \A n : Has(n, page)' => Has(n, page)
      BY <2>3 DEF Carried, Has, Moves
    <3> QED
      BY <1>4, <1>12, <2>3, <3>1 DEF Callback
  <2> QED
    BY <1>12, <2>1, <2>2, <2>3, CallbackChanges
<1>13. ASSUME NEW c \in Calls, Exchange(c) PROVE CarriedTokensWork'
  <2>1. CASE Alone(c) /\ Idle(c) /\ UNCHANGED <<issued, served>>
    BY <1>5, <1>13, <2>1 DEF Exchange
  <2>2. CASE /\ Alone(c) /\ Moves(c, "exchange", "read") /\ calls'[c].job = "login"
             /\ calls'[c].token = [access |-> issued + 1, refresh |-> issued + 1]
             /\ calls'[c].copy = calls[c].copy /\ calls'[c].provider = calls[c].provider
             /\ issued < MaxIssued /\ issued' = issued + 1
             /\ served'.live = served.live \cup {issued + 1}
    <3>0. PICK n : n = issued + 1
      OBVIOUS
    <3>1. calls'[c].token.refresh = n /\ n \in served'.live /\ calls[c].token = None
      BY <1>1, <2>2, <3>0 DEF CallShape, Moves
    <3>2. \A m \in 1..issued : Has(m, c)' => Has(m, c)
      BY <1>2, <2>2, <3>0, <3>1 DEF Has
    <3>3. ~InFile(n)' /\ \A d \in Calls : d # c => ~Has(n, d)'
      <4>1. ~InFile(n) /\ \A d \in Calls : ~Has(n, d)
        BY <1>2, <3>0, IssuedTokens
      <4> QED
        BY <1>13, <2>2, <4>1 DEF InFile, Has, Alone, Exchange
    <3>4. Private(c)'
      BY <2>2, <3>1, <3>3 DEF Private, InFile, Has
    <3>5. Carried(c)'
      BY <2>2, <3>4 DEF Carried
    <3> QED
      BY <1>4, <1>13, <2>2, <3>2, <3>5 DEF Exchange
  <2> QED
    BY <1>13, <2>1, <2>2, ExchangeChanges
<1>14. ASSUME NEW c \in Calls, StoreReads(c) PROVE CarriedTokensWork'
  <2>1. CASE Alone(c) /\ Idle(c)
    BY <1>5, <1>14, <2>1 DEF StoreReads
  <2>2. CASE /\ Alone(c) /\ Moves(c, "read", "lock") /\ calls'[c].behind = {}
             /\ calls[c].job = "login" /\ calls'[c].job = "login"
             /\ calls'[c].token = calls[c].token /\ calls'[c].provider = calls[c].provider
             /\ calls'[c].copy = [Held EXCEPT ![calls[c].provider] = calls[c].token]
    <3>1. \A p \in Providers : calls'[c].copy[p] \in {None, auth[p], calls[c].token}
      BY <2>2 DEF Held
    <3>2. \A n : Has(n, c)' => Has(n, c) \/ InFile(n)
      BY <2>2, <3>1 DEF Has, InFile
    <3>3. Private(c)
      BY <1>0, <2>2 DEF Carried, Moves
    <3>4. Private(c)'
      BY <1>14, <2>2, <3>3 DEF Private, StoreReads, InFile, Has, Alone
    <3>5. Carried(c)'
      BY <2>2, <3>4 DEF Carried
    <3> QED
      BY <1>4, <1>14, <2>2, <3>2, <3>5 DEF StoreReads
  <2> QED
    BY <1>14, <2>1, <2>2, StoreReadsChanges
<1>15. ASSUME NEW c \in Calls, Logout(c) PROVE CarriedTokensWork'
  <2>1. /\ Alone(c) /\ calls'[c].job = "logout" /\ calls'[c].token = None
        /\ calls'[c].copy = [auth EXCEPT ![LoginProvider] = None]
    BY <1>15, LogoutChanges
  <2>2. \A p \in Providers : calls'[c].copy[p] \in {None, auth[p]}
    BY <2>1 DEF CredTypes, Stored
  <2>3. Carried(c)' /\ \A n : Has(n, c)' => InFile(n)
    BY <2>1, <2>2 DEF Carried, Has, InFile
  <2> QED
    BY <1>4, <1>15, <2>1, <2>3 DEF Logout
<1>16. ASSUME NEW c \in Calls, Locks(c) PROVE CarriedTokensWork'
  BY <1>5, <1>7, <1>16, LocksChanges DEF Locks
<1>17. ASSUME NEW c \in Calls, Writes(c) PROVE CarriedTokensWork'
  <2>1. \A d \in Calls : /\ calls'[d].provider = calls[d].provider /\ calls'[d].job = calls[d].job
                         /\ calls'[d].copy = calls[d].copy /\ calls'[d].token = calls[d].token
    BY <1>17, WritesChanges DEF Keeps
  <2>2. auth' = calls[c].copy /\ served' = served
    BY <1>17 DEF Writes
  <2>3. \A n : \A d \in Calls : Has(n, d)' <=> Has(n, d)
    BY <2>1 DEF Has
  <2>4. \A n : InFile(n)' => Has(n, c)
    BY <2>2 DEF InFile, Has
  <2>5. ASSUME NEW d \in Calls, d # c, Private(d) PROVE Private(d)'
    <3>0. PICK n : n = calls[d].token.refresh
      OBVIOUS
    <3>1. n \in served.live /\ ~InFile(n) /\ \A e \in Calls : e # d => ~Has(n, e)
      BY <2>5, <3>0 DEF Private
    <3>2. calls'[d].token.refresh = n
      BY <2>1, <3>0
    <3>3. n \in served'.live /\ ~InFile(n)' /\ \A e \in Calls : e # d => ~Has(n, e)'
      BY <2>2, <2>3, <2>4, <2>5, <3>1
    <3> QED
      BY <3>2, <3>3 DEF Private, InFile, Has
  <2>6. ASSUME NEW d \in Calls PROVE Carried(d)'
    <3>1. CASE d = c
      BY <1>17, <3>1, WritesChanges DEF Carried, Moves
    <3>2. CASE d # c
      <4>1. calls[d].step # "write" /\ calls'[d].step = calls[d].step
        BY <1>17, <3>2, WritesChanges DEF OneWriter, Writing, Writes
      <4>2. calls[d].step = "lock" =>
              calls'[d].behind = calls[d].behind \cup Changed(c)
        BY <1>17, <3>2, WritesChanges
      <4>3. ASSUME OnFile(d), calls[d].provider \notin Changed(c)
            PROVE  OnFile(d)'
        <5>1. calls[d].provider \in Providers
          BY <1>1 DEF CallType
        <5>2. auth'[calls[d].provider] = auth[calls[d].provider]
          BY <2>2, <4>3, <5>1 DEF Changed
        <5> QED
          BY <2>1, <4>3, <5>2 DEF OnFile
      <4> QED
        BY <1>0, <2>1, <2>5, <3>2, <4>1, <4>2, <4>3 DEF Carried
    <3> QED
      BY <3>1, <3>2
  <2> QED
    BY <2>6 DEF Carried, CarriedTokensWork
<1>18. ASSUME NEW c \in Calls, WriteFails(c) PROVE CarriedTokensWork'
  BY <1>7, <1>18, WriteFailsChanges DEF WriteFails, Moves
<1>19. ASSUME NEW c \in Calls, Releases(c) PROVE CarriedTokensWork'
  BY <1>5, <1>19, EndsChanges DEF Releases
<1>20. CASE Expire
  <2>1. served'.live = served.live
    BY <1>20 DEF Expire, CredTypes
  <2> QED
    BY <1>6, <1>20, <2>1 DEF Expire
<1>21. CASE Stray
  BY <1>5, <1>21, EndsChanges DEF Stray
<1>22. CASE CredCrash
  BY <1>22 DEF CredCrash, CarriedTokensWork, Waiting
<1>23. CASE UNCHANGED credVars
  BY <1>6, <1>23 DEF credVars
<1> QED
  BY <1>8, <1>9, <1>10, <1>11, <1>12, <1>13, <1>14, <1>15, <1>16, <1>17, <1>18, <1>19, <1>20,
     <1>21, <1>22, <1>23 DEF CredNext, CredStep

(***************************************************************************)
(* What kills a token is a refresh that carries its successor; what lets a *)
(* successor go without writing it is a loss.                              *)
(***************************************************************************)
LEMMA DeadTokensAreReplacedStep ==
  CredTypes /\ OneWriter /\ CopiesAreUpToDate /\ TokensHaveOwners /\ CarriedTokensWork
    /\ DeadTokensAreReplaced /\ [CredNext]_credVars => DeadTokensAreReplaced'
<1> SUFFICES ASSUME CredTypes, OneWriter, CopiesAreUpToDate, TokensHaveOwners,
                    CarriedTokensWork, DeadTokensAreReplaced, [CredNext]_credVars
             PROVE  DeadTokensAreReplaced'
  OBVIOUS
<1> DEFINE Carrier(c, p) == /\ calls[c].job = "request" /\ calls[c].provider = p
                            /\ calls[c].step \in {"lock", "write"}
                            /\ calls[c].token.refresh \in served.live
<1>1. /\ \A c \in Calls : calls[c] \in CallType /\ CallShape(calls[c])
      /\ auth \in Stored /\ spent \subseteq Providers
  BY DEF CredTypes
<1>2. ASSUME NEW p \in Providers \ spent
      PROVE  auth[p] = None \/ auth[p].refresh \in served.live \/ \E c \in Calls : Carrier(c, p)
  BY DEF DeadTokensAreReplaced, Replaced
<1>3. ASSUME \A p \in Providers \ spent' :
               \/ auth'[p] = None \/ auth'[p].refresh \in served'.live
               \/ \E c \in Calls : Carrier(c, p)'
      PROVE  DeadTokensAreReplaced'
  BY <1>3 DEF DeadTokensAreReplaced, Replaced
<1> HIDE DEF Carrier
<1>4. ASSUME spent \subseteq spent', UNCHANGED auth, served.live \subseteq served'.live,
             \A p \in Providers \ spent' : \A c \in Calls : Carrier(c, p) => Carrier(c, p)'
      PROVE  DeadTokensAreReplaced'
  BY <1>2, <1>3, <1>4
<1>5. ASSUME NEW c \in Calls, Alone(c), spent \subseteq spent', UNCHANGED auth,
             served.live \subseteq served'.live,
             \/ calls[c].step \notin {"lock", "write"}
             \/ Keeps(c) /\ calls'[c].step \in {"lock", "write"}
             \/ Loses(c)
      PROVE  DeadTokensAreReplaced'
  <2>1. ASSUME NEW p \in Providers \ spent', NEW d \in Calls, Carrier(d, p)
        PROVE  Carrier(d, p)'
    <3>1. CASE d # c
      BY <1>5, <2>1, <3>1 DEF Carrier, Alone
    <3>2. CASE d = c
      <4>1. ~Loses(c)
        BY <1>1, <2>1, <3>2 DEF Carrier, Loses, Carries, CallShape
      <4> QED
        BY <1>5, <2>1, <3>2, <4>1 DEF Carrier, Keeps
    <3> QED
      BY <3>1, <3>2
  <2> QED
    BY <1>4, <1>5, <2>1
<1>6. ASSUME UNCHANGED <<calls, auth, served.live, spent>> PROVE DeadTokensAreReplaced'
  BY <1>6 DEF DeadTokensAreReplaced, Replaced
<1>7. ASSUME NEW c \in Calls, calls[c].step = "refresh", Alone(c), UNCHANGED auth,
             spent \subseteq spent',
             NEW q \in Providers, q = calls[c].provider, q \notin spent' => Carrier(c, q)',
             NEW old \in Tokens, old = calls[c].copy[q],
             \A n \in served.live : n = old.refresh \/ n \in served'.live
      PROVE  DeadTokensAreReplaced'
  <2>1. IsOf(old, q)
    BY <1>7 DEF IsOf
  <2>2. ASSUME NEW p \in Providers, NEW grant \in Tokens, IsOf(grant, p),
               grant.refresh \in served.live, p # q
        PROVE  grant.refresh \in served'.live
    BY <1>7, <2>1, <2>2 DEF TokensHaveOwners
  <2>3. ASSUME NEW p \in Providers \ spent', p # q,
               auth[p] # None /\ auth[p].refresh \notin served'.live
        PROVE  \E d \in Calls : Carrier(d, p)'
    <3>1. auth[p].refresh \notin served.live
      BY <1>1, <2>2, <2>3 DEF IsOf, Stored
    <3>2. PICK d \in Calls : Carrier(d, p)
      BY <1>2, <1>7, <2>3, <3>1
    <3>3. calls[d].token \in Tokens /\ IsOf(calls[d].token, p) /\ d # c
      BY <1>1, <1>7, <3>2 DEF Carrier, CallShape, CallType, IsOf
    <3>4. calls'[d] = calls[d]
      BY <1>7, <3>3 DEF Alone
    <3>5. Carrier(d, p)'
      BY <2>2, <2>3, <3>2, <3>3, <3>4 DEF Carrier
    <3> QED
      BY <3>5
  <2> QED
    BY <1>3, <1>7, <2>3
<1>8. ASSUME NEW c \in Calls, NEW p \in Providers, Request(c, p) PROVE DeadTokensAreReplaced'
  BY <1>5, <1>8, RequestChanges DEF Request
<1>9. ASSUME NEW c \in Calls, Refresh(c) PROVE DeadTokensAreReplaced'
  <2>1. PICK old, new \in Tokens, rotates \in BOOLEAN :
           /\ Alone(c) /\ Moves(c, "refresh", "lock")
           /\ calls'[c].job = "request" /\ calls[c].job = "request"
           /\ calls'[c].provider = calls[c].provider
           /\ old = calls[c].copy[calls[c].provider] /\ calls[c].token = None
           /\ calls'[c].token = new
           /\ calls'[c].copy = [calls[c].copy EXCEPT ![calls[c].provider] = new]
           /\ calls'[c].behind = calls[c].behind
           /\ old.refresh \in served.live /\ Issues(old.refresh, issued + 1, rotates)
           /\ new = [access |-> issued + 1,
                     refresh |-> IF rotates THEN issued + 1 ELSE old.refresh]
    BY <1>9, RefreshChanges
  <2>2. new.refresh = IF rotates THEN issued + 1 ELSE old.refresh
    BY <2>1
  <2>3. new.refresh \in served'.live
          /\ \A n \in served.live : n = old.refresh \/ n \in served'.live
    BY <2>1, <2>2 DEF Issues, CredTypes
  <2>4. Carrier(c, calls[c].provider)'
    BY <2>1, <2>3 DEF Carrier, Moves
  <2>5. PICK q \in Providers : q = calls[c].provider
    BY <1>1 DEF CallType
  <2> QED
    BY <1>7, <1>9, <2>1, <2>3, <2>4, <2>5 DEF Refresh, Carrier
<1>10. ASSUME NEW c \in Calls, RefreshFails(c) PROVE DeadTokensAreReplaced'
  <2>1. Alone(c) /\ calls[c].step = "refresh"
    BY <1>10, EndsChanges DEF RefreshFails
  <2>2. CASE UNCHANGED <<served, spent>>
    BY <1>5, <1>10, <2>1, <2>2 DEF RefreshFails
  <2>3. CASE /\ Issues(calls[c].copy[calls[c].provider].refresh, issued + 1, TRUE)
             /\ spent' = spent \cup {calls[c].provider}
    <3>1. PICK q \in Providers : q = calls[c].provider
      BY <1>1 DEF CallType
    <3>2. PICK old \in Tokens : old = calls[c].copy[q]
      BY <1>1, <2>1, <3>1 DEF CallShape, CallType, Stored
    <3>3. \A n \in served.live : n = old.refresh \/ n \in served'.live
      BY <2>3, <3>1, <3>2 DEF Issues, CredTypes
    <3> QED
      BY <1>7, <1>10, <2>1, <2>3, <3>1, <3>2, <3>3 DEF RefreshFails
  <2> QED
    BY <1>10, <2>2, <2>3 DEF RefreshFails
<1>11. ASSUME NEW c \in Calls, Login(c) PROVE DeadTokensAreReplaced'
  BY <1>5, <1>6, <1>11, LoginChanges DEF Login, Moves
<1>12. ASSUME NEW c \in Calls, Callback(c) PROVE DeadTokensAreReplaced'
  BY <1>5, <1>6, <1>12, CallbackChanges DEF Callback, Moves
<1>13. ASSUME NEW c \in Calls, Exchange(c) PROVE DeadTokensAreReplaced'
  BY <1>5, <1>13, ExchangeChanges DEF Exchange, Moves
<1>14. ASSUME NEW c \in Calls, StoreReads(c) PROVE DeadTokensAreReplaced'
  BY <1>5, <1>14, StoreReadsChanges DEF StoreReads, Moves
<1>15. ASSUME NEW c \in Calls, Logout(c) PROVE DeadTokensAreReplaced'
  BY <1>5, <1>15, LogoutChanges DEF Logout, Moves
<1>16. ASSUME NEW c \in Calls, Locks(c) PROVE DeadTokensAreReplaced'
  <2>1. spent \subseteq spent'
    BY <1>16, LocksChanges DEF Loses
  <2> QED
    BY <1>5, <1>16, <2>1, LocksChanges DEF Locks, Moves
<1>17. ASSUME NEW c \in Calls, Writes(c) PROVE DeadTokensAreReplaced'
  <2> DEFINE own == IF calls[c].token # None /\ calls[c].token.refresh \in served.live
                      THEN {calls[c].provider} ELSE {}
  <2>1. /\ auth' = calls[c].copy /\ served' = served /\ calls[c].step = "write"
        /\ spent' = (spent \cup (Changed(c) \cap calls[c].behind)) \ own
    BY <1>17 DEF Writes
  <2>2. ASSUME NEW d \in Calls, NEW p \in Providers, d # c, Carrier(d, p)
        PROVE  Carrier(d, p)'
    BY <1>17, <2>1, <2>2, WritesChanges DEF Carrier
  <2>3. ASSUME NEW p \in Providers \ spent', auth'[p] # None, auth'[p].refresh \notin served'.live
        PROVE  \E d \in Calls : Carrier(d, p)'
    <3>1. p \notin own
      <4>1. CASE p = calls[c].provider
        BY <1>1, <2>1, <2>3, <4>1 DEF CallShape
      <4> QED
        BY <4>1
    <3> HIDE DEF own
    <3>2. p \notin spent /\ (p \in Changed(c) => p \notin calls[c].behind)
      BY <2>1, <2>3, <3>1
    <3>3. auth[p] # None /\ auth[p].refresh = auth'[p].refresh
      <4>1. CASE p \notin Changed(c)
        BY <2>1, <2>3, <4>1 DEF Changed
      <4>2. CASE p \in Changed(c)
        <5>1. p = calls[c].provider
          BY <2>1, <3>2, <4>2 DEF CopiesAreUpToDate, Changed
        <5>2. calls[c].token = auth'[p] /\ calls[c].job \in {"request", "login"}
          BY <1>1, <2>1, <2>3, <5>1 DEF CallShape
        <5>3. ~Private(c)
          BY <2>1, <2>3, <5>2 DEF Private
        <5>4. OnFile(c)
          BY <2>1, <3>2, <4>2, <5>1, <5>2, <5>3 DEF CarriedTokensWork
        <5> QED
          BY <5>1, <5>2, <5>4 DEF OnFile
      <4> QED
        BY <4>1, <4>2
    <3>4. PICK d \in Calls : Carrier(d, p)
      BY <1>2, <2>1, <2>3, <3>2, <3>3
    <3>5. CASE d = c
      BY <1>1, <2>1, <2>3, <3>4, <3>5 DEF Carrier, CallShape
    <3> QED
      BY <2>2, <3>4, <3>5
  <2> QED
    BY <1>3, <2>3
<1>18. ASSUME NEW c \in Calls, WriteFails(c) PROVE DeadTokensAreReplaced'
  <2>1. spent \subseteq spent'
    BY <1>18 DEF WriteFails, Loses
  <2> QED
    BY <1>5, <1>18, <2>1, WriteFailsChanges DEF WriteFails
<1>19. ASSUME NEW c \in Calls, Releases(c) PROVE DeadTokensAreReplaced'
  BY <1>5, <1>19, EndsChanges DEF Releases
<1>20. CASE Expire
  <2>1. served'.live = served.live
    BY <1>20 DEF Expire, CredTypes
  <2> QED
    BY <1>6, <1>20, <2>1 DEF Expire
<1>21. CASE Stray
  <2>1. PICK c \in Calls : calls[c].step = "listen" /\ Alone(c)
    BY <1>21, EndsChanges DEF Stray
  <2> QED
    BY <1>5, <1>21, <2>1 DEF Stray
<1>22. CASE CredCrash
  <2>1. ASSUME NEW p \in Providers \ spent', NEW c \in Calls, Carrier(c, p)
        PROVE  FALSE
    BY <1>1, <1>22, <2>1 DEF Carrier, CredCrash, Carries, CallShape
  <2> QED
    BY <1>4, <1>22, <2>1 DEF CredCrash
<1>23. CASE UNCHANGED credVars
  BY <1>6, <1>23 DEF credVars
<1> QED
  BY <1>8, <1>9, <1>10, <1>11, <1>12, <1>13, <1>14, <1>15, <1>16, <1>17, <1>18, <1>19, <1>20,
     <1>21, <1>22, <1>23 DEF CredNext, CredStep

(***************************************************************************)
(* The parts together are inductive, and hold in every reachable state.    *)
(***************************************************************************)
LEMMA CredInductive == CredSpec => []CredIInv
<1>1. CredInit => CredIInv
  BY CredInitInv
<1>2. CredIInv /\ [CredNext]_credVars => CredIInv'
  BY CredTypesStep, OneWriterStep, OwnCodeStep, CopiesAreUpToDateStep, TokensHaveOwnersStep,
     CarriedTokensWorkStep, DeadTokensAreReplacedStep DEF CredIInv
<1> QED
  BY <1>1, <1>2, PTL DEF CredSpec

(***************************************************************************)
(* In every reachable state the user need not log in again for a provider  *)
(* none of whose rotated tokens got lost, the lock file is there for its   *)
(* one writer, and a login exchanges its own page's code (credentials.rs,  *)
(* oauth/openai_codex.rs).                                                 *)
(***************************************************************************)
THEOREM LoginsLast == CredSpec => []CredentialsInvariant
<1>1. CredIInv => CredentialsInvariant
  <2> SUFFICES ASSUME CredIInv
               PROVE  CredentialsInvariant
    OBVIOUS
  <2>1. CredTypeOK
    BY DEF CredIInv, CredTypes, CredTypeOK, CallType, OneWriter
  <2>2. StoredRefreshWorks
    <3>1. ASSUME NEW p \in Providers, Replaced(p) PROVE OnItsWay(p)
      BY <3>1 DEF Replaced, OnItsWay, CredIInv, CredTypes, CallShape
    <3> QED
      BY <3>1 DEF StoredRefreshWorks, CredIInv, DeadTokensAreReplaced
  <2>3. LockIsReleased
    BY DEF CredIInv, OneWriter, LockIsReleased
  <2> QED
    BY <2>1, <2>2, <2>3 DEF CredentialsInvariant, CredIInv
<1> QED
  BY <1>1, CredInductive, PTL

(***************************************************************************)
(* A write of one provider's credential changes another's only where its   *)
(* call was behind (write_auth_json).                                      *)
(***************************************************************************)
LEMMA StaleWritersLose == CredSpec => OnlyStaleWritersLose
<1> DEFINE Keep == \A c \in Calls : calls[c].step = "write" /\ calls'[c].step = "release" =>
                     \A p \in Providers \ {calls[c].provider} :
                       auth'[p] # auth[p] => p \in calls[c].behind
<1>1. CredIInv /\ [CredNext]_credVars => [Keep]_credVars
  <2> SUFFICES ASSUME CredIInv, CredNext, NEW c \in Calls, calls[c].step = "write",
                      NEW p \in Providers, p # calls[c].provider, auth'[p] # auth[p]
               PROVE  p \in calls[c].behind
    OBVIOUS
  <2>1. PICK d \in Calls : Writes(d)
    BY DEF CredNext, CredStep, Request, Refresh, RefreshFails, Login, Callback, Exchange,
           StoreReads, Logout, Locks, WriteFails, Releases, Expire, Stray, CredCrash
  <2>2. d = c
    BY <2>1 DEF CredIInv, OneWriter, Writing, Writes
  <2> QED
    BY <2>1, <2>2 DEF CredIInv, CopiesAreUpToDate, Writes
<1> QED
  BY <1>1, CredInductive, PTL DEF CredSpec, OnlyStaleWritersLose

(***************************************************************************)
(* The writers of auth.json and of the model configuration keep what is    *)
(* not theirs.                                                             *)
(***************************************************************************)
THEOREM NobodyElsesIsLost == CredSpec /\ ConfigSpec => WritersKeepTheRest
  BY StaleWritersLose, EnvironmentOnlyGrows, LearnedEffortsAreKept DEF WritersKeepTheRest

-----------------------------------------------------------------------------
(***************************************************************************)
(* Settings.  The types of what a command carries, and which kind of       *)
(* command comes to which step.                                            *)
(***************************************************************************)
RuntimeType == [plain : Values, flow : Values, tool : BOOLEAN, allow : SUBSET Rules]
CommandType ==
  [step : {"idle", "serialize", "read", "write", "apply"},
   kind : {None, "choose", "tool", "rules", "trust"}, scope : Scopes,
   value : Layers, copy : Layers, saved : RuntimeType]
PickedType ==
  [plain : SUBSET Values, flow : SUBSET Values, tool : [Scopes -> AtMostOne(BOOLEAN)],
   rules : [Scopes -> AtMostOne(SUBSET Rules)], trusted : SUBSET Rules]

SettingsTypes ==
  /\ files \in [Scopes -> Layers] /\ runtime \in RuntimeType /\ controller \in SUBSET Rules
  /\ commands \in [Commands -> CommandType] /\ picked \in PickedType
  /\ ran \in 0..MaxCommands /\ unsettled \in BOOLEAN /\ raced \in BOOLEAN
  /\ \A c \in Commands :
       /\ commands[c].step = "serialize" => commands[c].kind = "choose"
       /\ commands[c].step = "apply" => commands[c].kind = "rules"
       /\ commands[c].step \in {"read", "write"} =>
            commands[c].kind \in {"choose", "tool", "rules", "trust"}
       /\ commands[c].kind = "choose" => commands[c].scope = "global"
       /\ commands[c].step # "idle" /\ commands[c].kind = "trust" =>
            commands[c].scope = "project" /\ commands[c].value.allow # {}

\* What no command knows, every command carries on.
ExtrasAreCarried ==
  /\ \A s \in Scopes : files[s].extra
  /\ \A c \in Commands : commands[c].copy.extra

(***************************************************************************)
(* A choice is in the runtime settings, and on file or with a command that *)
(* will save them; what is chosen for a layer is there.                    *)
(***************************************************************************)
GivenBy(key) == key = "flow" \/ files["project"].plain = {}
Saving == \E c \in Commands :
            commands[c].kind = "choose" /\ commands[c].step \in {"serialize", "read", "write"}

ChoicesAreSaved ==
  ~raced =>
    /\ \A key \in {"plain", "flow"} : GivenBy(key) /\ picked[key] # {} =>
         /\ picked[key] = {runtime[key]}
         /\ files["global"][key] = picked[key] \/ Saving
    /\ \A s \in Scopes : files[s].tool = picked.tool[s]
    /\ picked.trusted \subseteq UNION files["project"].allow

(***************************************************************************)
(* The controller allows what the runtime settings do, and what the files  *)
(* do, as long as no rules are to be applied; what it allows beyond that   *)
(* is trust, that is on file or will be.                                   *)
(***************************************************************************)
Trusting == \E c \in Commands : commands[c].kind = "trust" /\ commands[c].step \in {"read", "write"}
Applying == \E c \in Commands : commands[c].step = "apply"

ControllerIsLoaded ==
  /\ runtime.allow \subseteq controller
  /\ unsettled \/ Trusting \/ controller = runtime.allow
  /\ ~raced /\ ~Applying =>
       /\ Merged(files).allow \subseteq controller
       /\ unsettled \/ Trusting \/ controller = Merged(files).allow

SettingsIInv ==
  /\ SettingsTypes
  /\ ExtrasAreCarried
  /\ ChoicesAreSaved
  /\ ControllerIsLoaded

(***************************************************************************)
(* What the two layers come to.                                            *)
(***************************************************************************)
LEMMA FirstIs ==
  ASSUME NEW over, NEW under, NEW default
  PROVE  /\ \A v : over = {v} => First(over, under, default) = v
         /\ \A v : over = {} /\ under = {v} => First(over, under, default) = v
         /\ over = {} /\ under = {} => First(over, under, default) = default
  BY DEF First

LEMMA FirstType ==
  ASSUME NEW S, NEW over \in AtMostOne(S), NEW under \in AtMostOne(S), NEW default \in S
  PROVE  First(over, under, default) \in S
<1>1. over = {} \/ \E v \in S : over = {v}
  BY DEF AtMostOne
<1>2. under = {} \/ \E v \in S : under = {v}
  BY DEF AtMostOne
<1>3. ASSUME NEW v \in S, over = {v} PROVE First(over, under, default) = v
  BY <1>3, FirstIs
<1>4. ASSUME NEW v \in S, over = {}, under = {v} PROVE First(over, under, default) = v
  BY <1>4, FirstIs
<1>5. ASSUME over = {}, under = {} PROVE First(over, under, default) = default
  BY <1>5, FirstIs
<1> QED
  BY <1>1, <1>2, <1>3, <1>4, <1>5, Zenon

LEMMA Singleton == ASSUME NEW S, NEW v \in S PROVE {v} \in AtMostOne(S)
  BY DEF AtMostOne

LEMMA MergedIs ==
  ASSUME NEW layers \in [Scopes -> Layers]
  PROVE  /\ Merged(layers) \in RuntimeType
         /\ layers["project"].plain = {} =>
              \A v : layers["global"].plain = {v} => Merged(layers).plain = v
         /\ \A v : layers["global"].flow = {v} => Merged(layers).flow = v
         /\ \A R : layers["project"].allow = {R} => Merged(layers).allow = R
         /\ layers["project"].allow = {} =>
              \A R : layers["global"].allow = {R} => Merged(layers).allow = R
<1> DEFINE global == layers["global"]
           project == layers["project"]
<1>1. global \in Layers /\ project \in Layers
  BY DEF Scopes
<1>2. Merged(layers) =
        [plain |-> First(project.plain, global.plain, Default),
         flow |-> First({}, global.flow, Default),
         tool |-> First(project.tool, global.tool, TRUE),
         allow |-> First(project.allow, global.allow, DefaultRules)]
  BY DEF Merged
<1>3. /\ First(project.plain, global.plain, Default) \in Values
      /\ First(project.allow, global.allow, DefaultRules) \in SUBSET Rules
  BY <1>1, FirstType, SettingsAssumption DEF Layers
<1>4. First({}, global.flow, Default) \in Values
  <2>1. {} \in AtMostOne(Values)
    BY DEF AtMostOne
  <2> QED
    BY <1>1, <2>1, FirstType, SettingsAssumption DEF Layers
<1>5. First(project.tool, global.tool, TRUE) \in BOOLEAN
  <2>1. project.tool \in AtMostOne(BOOLEAN) /\ global.tool \in AtMostOne(BOOLEAN)
    BY <1>1 DEF Layers
  <2>2. TRUE \in BOOLEAN
    OBVIOUS
  <2> QED
    BY <2>1, <2>2, FirstType
<1>6. Merged(layers) \in RuntimeType
  <2> DEFINE plain == First(project.plain, global.plain, Default)
             flow == First({}, global.flow, Default)
             tool == First(project.tool, global.tool, TRUE)
             allow == First(project.allow, global.allow, DefaultRules)
  <2>1. /\ plain \in Values /\ flow \in Values /\ tool \in BOOLEAN /\ allow \in SUBSET Rules
        /\ Merged(layers) = [plain |-> plain, flow |-> flow, tool |-> tool, allow |-> allow]
    BY <1>2, <1>3, <1>4, <1>5, Zenon
  <2> HIDE DEF plain, flow, tool, allow
  <2> QED
    BY <2>1 DEF RuntimeType
<1>7. /\ Merged(layers).plain = First(project.plain, global.plain, Default)
      /\ Merged(layers).flow = First({}, global.flow, Default)
      /\ Merged(layers).allow = First(project.allow, global.allow, DefaultRules)
  BY <1>2
<1>8. ASSUME project.plain = {}, NEW v, global.plain = {v} PROVE Merged(layers).plain = v
  BY <1>7, <1>8, FirstIs
<1>9. ASSUME NEW v, global.flow = {v} PROVE Merged(layers).flow = v
  BY <1>7, <1>9, FirstIs
<1>10. ASSUME NEW R, project.allow = {R} PROVE Merged(layers).allow = R
  BY <1>7, <1>10, FirstIs
<1>11. ASSUME project.allow = {}, NEW R, global.allow = {R} PROVE Merged(layers).allow = R
  BY <1>7, <1>11, FirstIs
<1> QED
  BY <1>6, <1>8, <1>9, <1>10, <1>11, Zenon

LEMMA ReadyType == /\ Ready \in CommandType /\ NoLayer \in Layers /\ NoLayer.extra
                   /\ Ready.step = "idle" /\ Ready.kind = None /\ Ready.scope = "global"
                   /\ Ready.copy = NoLayer
<1>1. NoLayer \in Layers /\ NoLayer.extra
  BY DEF NoLayer, Layers, AtMostOne
<1>2. Merged([s \in Scopes |-> NoLayer]) \in RuntimeType
  BY <1>1, MergedIs
<1>3. "global" \in Scopes
  BY DEF Scopes
<1> QED
  BY <1>1, <1>2, <1>3 DEF Ready, CommandType

(***************************************************************************)
(* In the beginning the settings are the files'.                           *)
(***************************************************************************)
LEMMA SettingsInitInv == SettingsInit => SettingsIInv
<1> SUFFICES ASSUME SettingsInit
             PROVE  SettingsIInv
  OBVIOUS
<1>1. PICK project \in Projects :
        files = [s \in Scopes |-> IF s = "global" THEN NoLayer ELSE project]
  BY DEF SettingsInit
<1>2. project \in Layers /\ project.extra /\ files \in [Scopes -> Layers]
  BY <1>1, SettingsAssumption, ReadyType
<1>3. \A s \in Scopes : files[s].extra
  BY <1>1, <1>2, ReadyType
<1>4. \A c \in Commands : commands[c] = Ready
  BY DEF SettingsInit
<1>5. \A s \in Scopes : files[s] \in Layers
  BY <1>2
<1>6. picked \in PickedType
  BY <1>5 DEF SettingsInit, PickedType, Layers
<1>7. Merged(files) \in RuntimeType
  BY <1>2, MergedIs
<1>8. SettingsTypes
  <2>1. commands \in [Commands -> CommandType]
    BY ReadyType DEF SettingsInit
  <2>2. controller \in SUBSET Rules
    BY <1>7 DEF SettingsInit, RuntimeType
  <2>3. runtime \in RuntimeType /\ unsettled \in BOOLEAN /\ raced \in BOOLEAN
    BY <1>7, Zenon DEF SettingsInit
  <2>4. ran \in 0..MaxCommands
    BY SettingsAssumption DEF SettingsInit
  <2>5. \A c \in Commands : commands[c].step = "idle" /\ commands[c].scope = "global"
    BY <1>4, ReadyType
  <2> QED
    BY <1>2, <1>6, <2>1, <2>2, <2>3, <2>4, <2>5 DEF SettingsTypes
<1>9. ExtrasAreCarried
  BY <1>3, <1>4, ReadyType DEF ExtrasAreCarried
<1>10. ChoicesAreSaved
  BY DEF SettingsInit, ChoicesAreSaved, GivenBy
<1>11. ControllerIsLoaded
  BY DEF SettingsInit, ControllerIsLoaded
<1> QED
  BY <1>8, <1>9, <1>10, <1>11 DEF SettingsIInv

(***************************************************************************)
(* What the actions do to the commands, and what a write makes of a layer. *)
(***************************************************************************)
TheRest(c) == \A d \in Commands : d # c => commands'[d] = commands[d]

LEMMA StartsChanges ==
  ASSUME SettingsTypes, NEW c \in Commands, NEW command, Starts(c, command)
  PROVE  /\ Idling(c) /\ commands'[c] = command /\ TheRest(c) /\ ran' \in 0..MaxCommands
         /\ command \in CommandType => commands' \in [Commands -> CommandType]
  BY SettingsAssumption DEF Starts, SettingsTypes, TheRest

LEMMA GoesChanges ==
  ASSUME SettingsTypes, NEW c \in Commands, NEW step \in {"idle", "apply"}, Goes(c, step)
  PROVE  /\ commands' \in [Commands -> CommandType] /\ TheRest(c)
         /\ step = "idle" => commands'[c] = Ready
         /\ step = "apply" => commands'[c] = [commands[c] EXCEPT !.step = "apply"]
<1>1. commands[c] \in CommandType
  BY DEF SettingsTypes
<1>2. [commands[c] EXCEPT !.step = "apply"] \in CommandType
  BY <1>1 DEF CommandType
<1> QED
  BY <1>2, ReadyType DEF Goes, SettingsTypes, TheRest

LEMMA NewLayerIs ==
  ASSUME NEW command \in CommandType
  PROVE  LET new == NewLayer(command)
             copy == command.copy
         IN /\ new \in Layers /\ new.extra = copy.extra
            /\ command.kind = "choose" =>
                 /\ new.plain = {command.saved.plain} /\ new.flow = {command.saved.flow}
                 /\ new.allow = {command.saved.allow} /\ new.tool = copy.tool
            /\ command.kind = "tool" =>
                 /\ new.plain = copy.plain /\ new.flow = copy.flow
                 /\ new.allow = copy.allow /\ new.tool = command.value.tool
            /\ command.kind = "rules" =>
                 /\ new.plain = copy.plain /\ new.flow = copy.flow
                 /\ new.allow = command.value.allow /\ new.tool = copy.tool
            /\ command.kind \notin {"choose", "tool", "rules"} =>
                 /\ new.plain = copy.plain /\ new.flow = copy.flow
                 /\ new.allow = {UNION (copy.allow \cup command.value.allow)}
                 /\ new.tool = copy.tool
<1>1. /\ command.copy \in Layers /\ command.value \in Layers /\ command.saved \in RuntimeType
  BY DEF CommandType
<1>2. CASE command.kind = "choose"
  <2> DEFINE plain == {command.saved.plain}
             flow == {command.saved.flow}
             allow == {command.saved.allow}
  <2>1. NewLayer(command)
          = [command.copy EXCEPT !.plain = plain, !.flow = flow, !.allow = allow]
    BY <1>2 DEF NewLayer, Saved
  <2>2. plain \in AtMostOne(Values) /\ flow \in AtMostOne(Values) /\ allow \in AtMostOne(SUBSET Rules)
    BY <1>1, Singleton DEF RuntimeType
  <2> HIDE DEF plain, flow, allow
  <2>3. /\ NewLayer(command) \in Layers /\ NewLayer(command).extra = command.copy.extra
        /\ NewLayer(command).plain = plain /\ NewLayer(command).flow = flow
        /\ NewLayer(command).allow = allow /\ NewLayer(command).tool = command.copy.tool
    BY <1>1, <2>1, <2>2 DEF Layers
  <2> QED
    BY <1>2, <2>3 DEF plain, flow, allow
<1>3. CASE command.kind = "tool"
  <2>1. NewLayer(command) = [command.copy EXCEPT !.tool = command.value.tool]
    BY <1>3 DEF NewLayer, Override
  <2> QED
    BY <1>1, <1>3, <2>1 DEF Layers
<1>4. CASE command.kind = "rules"
  <2>1. NewLayer(command) = [command.copy EXCEPT !.allow = command.value.allow]
    BY <1>4 DEF NewLayer
  <2> QED
    BY <1>1, <1>4, <2>1 DEF Layers
<1>5. CASE command.kind \notin {"choose", "tool", "rules"}
  <2> DEFINE all == UNION (command.copy.allow \cup command.value.allow)
  <2>1. NewLayer(command) = [command.copy EXCEPT !.allow = {all}]
    BY <1>5 DEF NewLayer
  <2>2. all \in SUBSET Rules
    BY <1>1 DEF Layers, AtMostOne
  <2>3. {all} \in AtMostOne(SUBSET Rules)
    BY <2>2 DEF AtMostOne
  <2> HIDE DEF all
  <2>4. /\ NewLayer(command) \in Layers /\ NewLayer(command).extra = command.copy.extra
        /\ NewLayer(command).plain = command.copy.plain
        /\ NewLayer(command).flow = command.copy.flow
        /\ NewLayer(command).tool = command.copy.tool /\ NewLayer(command).allow = {all}
    BY <1>1, <2>1, <2>3 DEF Layers
  <2> QED
    BY <1>5, <2>4 DEF all
<1> QED
  BY <1>2, <1>3, <1>4, <1>5

(***************************************************************************)
(* The types are kept.                                                     *)
(***************************************************************************)
CommandShape(command) ==
  /\ command.step = "serialize" => command.kind = "choose"
  /\ command.step = "apply" => command.kind = "rules"
  /\ command.step \in {"read", "write"} => command.kind \in {"choose", "tool", "rules", "trust"}
  /\ command.kind = "choose" => command.scope = "global"
  /\ command.step # "idle" /\ command.kind = "trust" =>
       command.scope = "project" /\ command.value.allow # {}

LEMMA SettingsTypesStep == SettingsTypes /\ [SettingsNext]_settingsVars => SettingsTypes'
<1> SUFFICES ASSUME SettingsTypes, [SettingsNext]_settingsVars
             PROVE  SettingsTypes'
  OBVIOUS
<1> DEFINE CommandsOK == commands \in [Commands -> CommandType]
                           /\ \A c \in Commands : CommandShape(commands[c])
           RestOK == /\ files \in [Scopes -> Layers] /\ runtime \in RuntimeType
                     /\ controller \in SUBSET Rules /\ picked \in PickedType
                     /\ ran \in 0..MaxCommands /\ unsettled \in BOOLEAN /\ raced \in BOOLEAN
<1>1. CommandsOK /\ RestOK
  BY DEF SettingsTypes, CommandShape
<1>2. ASSUME CommandsOK', RestOK' PROVE SettingsTypes'
  BY <1>2 DEF SettingsTypes, CommandShape
<1>3. ASSUME NEW c \in Commands, NEW command \in CommandType, CommandShape(command),
             Starts(c, command)
      PROVE  CommandsOK' /\ ran' \in 0..MaxCommands
  <2>1. \A d \in Commands : commands'[d] = command \/ commands'[d] = commands[d]
    BY <1>3, StartsChanges DEF TheRest
  <2> QED
    BY <1>1, <1>3, <2>1, StartsChanges
<1>4. ASSUME NEW c \in Commands, NEW command \in CommandType, CommandShape(command),
             commands' = [commands EXCEPT ![c] = command]
      PROVE  CommandsOK'
  BY <1>1, <1>4
<1>5. ASSUME NEW value, value = {} \/ \E S \in SUBSET Rules : value = {S}
      PROVE  [NoLayer EXCEPT !.allow = value] \in Layers
  BY <1>5, ReadyType DEF Layers, AtMostOne
<1> HIDE DEF CommandsOK
<1>6. ASSUME NEW c \in Commands, NEW key \in {"plain", "flow"}, NEW v \in Values, Choose(c, key, v)
      PROVE  SettingsTypes'
  <2> DEFINE new == [Ready EXCEPT !.step = "serialize", !.kind = "choose"]
  <2>1. new \in CommandType /\ CommandShape(new)
    BY ReadyType DEF CommandType, CommandShape
  <2>2. runtime' \in RuntimeType /\ picked' \in PickedType
    <3>1. CASE key = "plain"
      BY <1>1, <1>6, <3>1 DEF Choose, RuntimeType, PickedType
    <3>2. CASE key = "flow"
      BY <1>1, <1>6, <3>2 DEF Choose, RuntimeType, PickedType
    <3> QED
      BY <3>1, <3>2
  <2>3. CommandsOK' /\ ran' \in 0..MaxCommands
    BY <1>3, <1>6, <2>1 DEF Choose
  <2> QED
    BY <1>1, <1>2, <1>6, <2>2, <2>3, Zenon DEF Choose
<1>7. ASSUME NEW c \in Commands, Serialize(c) PROVE SettingsTypes'
  <2> DEFINE new == [commands[c] EXCEPT !.step = "read", !.saved = runtime]
  <2>1. new \in CommandType /\ CommandShape(new)
    BY <1>1, <1>7 DEF CommandsOK, Serialize, CommandType, CommandShape
  <2>2. commands' = [commands EXCEPT ![c] = new]
    BY <1>1, <1>7 DEF CommandsOK, Serialize, CommandType
  <2>3. CommandsOK'
    BY <1>4, <2>1, <2>2
  <2> QED
    BY <1>1, <1>2, <1>7, <2>3, Zenon DEF Serialize
<1>8. ASSUME NEW c \in Commands, NEW scope \in Scopes, NEW value \in AtMostOne(BOOLEAN),
             SetTool(c, scope, value)
      PROVE  SettingsTypes'
  <2> DEFINE new == [Ready EXCEPT !.step = "read", !.kind = "tool", !.scope = scope,
                                  !.value = [NoLayer EXCEPT !.tool = value]]
  <2>1. [NoLayer EXCEPT !.tool = value] \in Layers
    BY ReadyType DEF Layers
  <2>2. new \in CommandType /\ CommandShape(new)
    BY <2>1, ReadyType DEF CommandType, CommandShape
  <2>3. CommandsOK' /\ ran' \in 0..MaxCommands
    BY <1>3, <1>8, <2>2 DEF SetTool
  <2> QED
    BY <1>1, <1>2, <1>8, <2>3, Zenon DEF SetTool
<1>9. ASSUME NEW c \in Commands, NEW scope \in Scopes, NEW value \in AtMostOne(SUBSET Rules),
             SetRules(c, scope, value)
      PROVE  SettingsTypes'
  <2> DEFINE new == [Ready EXCEPT !.step = "read", !.kind = "rules", !.scope = scope,
                                  !.value = [NoLayer EXCEPT !.allow = value]]
  <2>1. [NoLayer EXCEPT !.allow = value] \in Layers
    BY ReadyType DEF Layers
  <2>2. new \in CommandType /\ CommandShape(new)
    BY <2>1, ReadyType DEF CommandType, CommandShape
  <2>3. CommandsOK' /\ ran' \in 0..MaxCommands
    BY <1>3, <1>9, <2>2 DEF SetRules
  <2> QED
    BY <1>1, <1>2, <1>9, <2>3, Zenon DEF SetRules
<1>10. ASSUME NEW c \in Commands, NEW rule \in Rules, Trust(c, rule) PROVE SettingsTypes'
  <2> DEFINE layer == [NoLayer EXCEPT !.allow = {{rule}}]
             new == [Ready EXCEPT !.step = "read", !.kind = "trust", !.scope = "project",
                                  !.value = layer]
  <2>1. layer \in Layers /\ layer.allow # {}
    BY <1>5, ReadyType DEF Layers
  <2> HIDE DEF layer
  <2>2. new \in CommandType /\ CommandShape(new)
    BY <2>1, ReadyType DEF CommandType, CommandShape, Scopes
  <2>3. CommandsOK' /\ ran' \in 0..MaxCommands
    BY <1>3, <1>10, <2>2 DEF Trust, TrustScope, layer
  <2>4. controller' \in SUBSET Rules
    BY <1>1, <1>10 DEF Trust
  <2> QED
    BY <1>1, <1>2, <1>10, <2>3, <2>4, Zenon DEF Trust
<1>11. ASSUME NEW c \in Commands, Reads(c) PROVE SettingsTypes'
  <2> DEFINE new == [commands[c] EXCEPT !.step = "write", !.copy = files[commands[c].scope]]
  <2>1. new \in CommandType /\ CommandShape(new)
    BY <1>1, <1>11 DEF CommandsOK, Reads, CommandType, CommandShape
  <2>2. commands' = [commands EXCEPT ![c] = new]
    BY <1>1, <1>11 DEF CommandsOK, Reads, CommandType
  <2>3. CommandsOK'
    BY <1>4, <2>1, <2>2
  <2> QED
    BY <1>1, <1>2, <1>11, <2>3, Zenon DEF Reads
<1>12. ASSUME NEW c \in Commands, WritesLayer(c) PROVE SettingsTypes'
  <2> DEFINE command == commands[c]
  <2>1. command \in CommandType /\ CommandShape(command)
    BY <1>1 DEF CommandsOK
  <2>2. files' \in [Scopes -> Layers]
    BY <1>1, <1>12, <2>1, NewLayerIs DEF WritesLayer
  <2>3. picked' \in PickedType
    <3>1. /\ command.value.tool \in AtMostOne(BOOLEAN) /\ command.scope \in Scopes
          /\ command.value.allow \in AtMostOne(SUBSET Rules)
          /\ UNION command.value.allow \in SUBSET Rules
      BY <2>1 DEF CommandType, Layers, AtMostOne
    <3>2. picked' = ChosenBy(command)
      BY <1>12 DEF WritesLayer
    <3> HIDE DEF command
    <3>3. CASE command.kind = "tool"
      BY <1>1, <3>1, <3>2, <3>3 DEF ChosenBy, PickedType
    <3>4. CASE command.kind = "rules" /\ command.scope = "project"
      BY <1>1, <3>1, <3>2, <3>4 DEF ChosenBy, PickedType
    <3>5. CASE command.kind = "rules" /\ command.scope # "project"
      BY <1>1, <3>1, <3>2, <3>5 DEF ChosenBy, PickedType
    <3>6. CASE command.kind = "trust"
      BY <1>1, <3>1, <3>2, <3>6 DEF ChosenBy, PickedType
    <3>7. CASE command.kind \notin {"tool", "rules", "trust"}
      BY <1>1, <3>2, <3>7 DEF ChosenBy
    <3> QED
      BY <3>3, <3>4, <3>5, <3>6, <3>7
  <2>4. CommandsOK'
    <3>1. Goes(c, IF command.kind = "rules" THEN "apply" ELSE "idle")
      BY <1>12 DEF WritesLayer
    <3>2. CommandShape(commands'[c]) /\ commands' \in [Commands -> CommandType] /\ TheRest(c)
      <4>1. CASE command.kind = "rules"
        BY <2>1, <3>1, <4>1, GoesChanges DEF CommandType, CommandShape
      <4>2. CASE command.kind # "rules"
        BY <3>1, <4>2, GoesChanges, ReadyType DEF CommandShape
      <4> QED
        BY <4>1, <4>2
    <3> QED
      BY <1>1, <3>2 DEF CommandsOK, TheRest
  <2>5. unsettled' \in BOOLEAN /\ raced' \in BOOLEAN
    BY <1>12, Zenon DEF WritesLayer
  <2> QED
    BY <1>1, <1>2, <1>12, <2>2, <2>3, <2>4, <2>5, Zenon DEF WritesLayer
<1>13. ASSUME NEW c \in Commands, Applies(c) PROVE SettingsTypes'
  <2>1. Merged(files).allow \in SUBSET Rules
    BY <1>1, MergedIs DEF RuntimeType
  <2>2. runtime' \in RuntimeType /\ controller' \in SUBSET Rules
    BY <1>1, <1>13, <2>1 DEF Applies, Applied, RuntimeType
  <2>3. Goes(c, "idle")
    BY <1>13 DEF Applies
  <2>4. CommandsOK'
    <3>1. commands'[c] = Ready /\ TheRest(c) /\ commands' \in [Commands -> CommandType]
      BY <2>3, GoesChanges
    <3>2. CommandShape(Ready)
      BY ReadyType DEF CommandShape
    <3> QED
      BY <1>1, <3>1, <3>2 DEF CommandsOK, TheRest
  <2>5. unsettled' \in BOOLEAN
    BY <1>13, Zenon DEF Applies
  <2> QED
    BY <1>1, <1>2, <1>13, <2>2, <2>4, <2>5, Zenon DEF Applies
<1>14. CASE RestartsApp
  <2>1. Merged(files) \in RuntimeType /\ Merged(files).allow \in SUBSET Rules
    BY <1>1, MergedIs DEF RuntimeType
  <2>2. ran' \in 0..MaxCommands
    BY <1>1, <1>14, SettingsAssumption DEF RestartsApp
  <2>3. unsettled' \in BOOLEAN
    BY <1>14, Zenon DEF RestartsApp
  <2>4. CommandsOK'
    BY <1>1, <1>14 DEF RestartsApp, CommandsOK
  <2> QED
    BY <1>1, <1>2, <1>14, <2>1, <2>2, <2>3, <2>4, Zenon DEF RestartsApp
<1>15. CASE UNCHANGED settingsVars
  BY <1>15 DEF settingsVars, SettingsTypes
<1> QED
  BY <1>6, <1>7, <1>8, <1>9, <1>10, <1>11, <1>12, <1>13, <1>14, <1>15
     DEF SettingsNext, SettingsStep, UpdateSetting, SetDevFlow

(***************************************************************************)
(* What the actions do to the commands, field by field.                    *)
(***************************************************************************)
Begun(c, kind, step) ==
  commands'[c].kind = kind /\ commands'[c].step = step /\ commands'[c].copy = NoLayer

LEMMA CommandsChange ==
  ASSUME SettingsTypes, NEW c \in Commands
  PROVE  /\ \A key \in {"plain", "flow"}, v \in Values : Choose(c, key, v) =>
              TheRest(c) /\ commands[c].step = "idle" /\ Begun(c, "choose", "serialize")
         /\ \A scope \in Scopes : \A value : SetTool(c, scope, value) =>
              TheRest(c) /\ commands[c].step = "idle" /\ Begun(c, "tool", "read")
         /\ \A scope \in Scopes : \A value : SetRules(c, scope, value) =>
              TheRest(c) /\ commands[c].step = "idle" /\ Begun(c, "rules", "read")
         /\ \A rule : Trust(c, rule) =>
              TheRest(c) /\ commands[c].step = "idle" /\ Begun(c, "trust", "read")
         /\ Serialize(c) =>
              /\ TheRest(c) /\ commands[c].step = "serialize" /\ commands'[c].step = "read"
              /\ commands'[c].kind = commands[c].kind /\ commands'[c].copy = commands[c].copy
         /\ Reads(c) =>
              /\ TheRest(c) /\ commands[c].step = "read" /\ commands'[c].step = "write"
              /\ commands'[c].kind = commands[c].kind
              /\ commands'[c].copy = files[commands[c].scope]
         /\ WritesLayer(c) =>
              /\ TheRest(c) /\ commands[c].step = "write"
              /\ commands'[c].copy \in {NoLayer, commands[c].copy}
              /\ commands'[c].step = IF commands[c].kind = "rules" THEN "apply" ELSE "idle"
         /\ Applies(c) =>
              TheRest(c) /\ commands[c].step = "apply" /\ commands'[c] = Ready
<1>1. commands \in [Commands -> CommandType] /\ commands[c] \in CommandType
  BY DEF SettingsTypes
<1>2. Ready \in CommandType /\ Ready.copy = NoLayer /\ Ready.step = "idle"
  BY ReadyType
<1>3. ASSUME NEW key \in {"plain", "flow"}, NEW v \in Values, Choose(c, key, v)
      PROVE  TheRest(c) /\ commands[c].step = "idle" /\ Begun(c, "choose", "serialize")
  <2>1. /\ commands'[c] = [Ready EXCEPT !.step = "serialize", !.kind = "choose"]
        /\ TheRest(c) /\ commands[c].step = "idle"
    BY <1>3, StartsChanges DEF Choose, Idling
  <2> QED
    BY <1>2, <2>1 DEF CommandType, Begun
<1>4. ASSUME NEW scope \in Scopes, NEW value, SetTool(c, scope, value)
      PROVE  TheRest(c) /\ commands[c].step = "idle" /\ Begun(c, "tool", "read")
  <2> DEFINE layer == [NoLayer EXCEPT !.tool = value]
  <2>1. /\ commands'[c] = [Ready EXCEPT !.step = "read", !.kind = "tool", !.scope = scope,
                                        !.value = layer]
        /\ TheRest(c) /\ commands[c].step = "idle"
    BY <1>4, StartsChanges DEF SetTool, Idling
  <2> HIDE DEF layer
  <2> QED
    BY <1>2, <2>1 DEF CommandType, Begun
<1>5. ASSUME NEW scope \in Scopes, NEW value, SetRules(c, scope, value)
      PROVE  TheRest(c) /\ commands[c].step = "idle" /\ Begun(c, "rules", "read")
  <2> DEFINE layer == [NoLayer EXCEPT !.allow = value]
  <2>1. /\ commands'[c] = [Ready EXCEPT !.step = "read", !.kind = "rules", !.scope = scope,
                                        !.value = layer]
        /\ TheRest(c) /\ commands[c].step = "idle"
    BY <1>5, StartsChanges DEF SetRules, Idling
  <2> HIDE DEF layer
  <2> QED
    BY <1>2, <2>1 DEF CommandType, Begun
<1>6. ASSUME NEW rule, Trust(c, rule)
      PROVE  TheRest(c) /\ commands[c].step = "idle" /\ Begun(c, "trust", "read")
  <2> DEFINE layer == [NoLayer EXCEPT !.allow = {{rule}}]
  <2>1. /\ commands'[c] = [Ready EXCEPT !.step = "read", !.kind = "trust", !.scope = TrustScope,
                                        !.value = layer]
        /\ TheRest(c) /\ commands[c].step = "idle"
    BY <1>6, StartsChanges DEF Trust, Idling
  <2> HIDE DEF layer
  <2> QED
    BY <1>2, <2>1 DEF CommandType, Begun
<1>7. ASSUME Serialize(c)
      PROVE  /\ TheRest(c) /\ commands[c].step = "serialize" /\ commands'[c].step = "read"
             /\ commands'[c].kind = commands[c].kind /\ commands'[c].copy = commands[c].copy
  BY <1>1, <1>7 DEF Serialize, TheRest, CommandType
<1>8. ASSUME Reads(c)
      PROVE  /\ TheRest(c) /\ commands[c].step = "read" /\ commands'[c].step = "write"
             /\ commands'[c].kind = commands[c].kind
             /\ commands'[c].copy = files[commands[c].scope]
  BY <1>1, <1>8 DEF Reads, TheRest, CommandType
<1>9. ASSUME WritesLayer(c)
      PROVE  /\ TheRest(c) /\ commands[c].step = "write"
             /\ commands'[c].copy \in {NoLayer, commands[c].copy}
             /\ commands'[c].step = IF commands[c].kind = "rules" THEN "apply" ELSE "idle"
  <2>1. Goes(c, IF commands[c].kind = "rules" THEN "apply" ELSE "idle")
          /\ commands[c].step = "write"
    BY <1>9 DEF WritesLayer
  <2>2. CASE commands[c].kind = "rules"
    BY <1>1, <2>1, <2>2, GoesChanges DEF CommandType
  <2>3. CASE commands[c].kind # "rules"
    BY <1>2, <2>1, <2>3, GoesChanges
  <2> QED
    BY <2>2, <2>3
<1>10. ASSUME Applies(c)
       PROVE  TheRest(c) /\ commands[c].step = "apply" /\ commands'[c] = Ready
  BY <1>10, GoesChanges DEF Applies
<1> QED
  BY <1>3, <1>4, <1>5, <1>6, <1>7, <1>8, <1>9, <1>10

(***************************************************************************)
(* A layer is written from a copy of the file, with what was in it.        *)
(***************************************************************************)
LEMMA ExtrasAreCarriedStep ==
  SettingsTypes /\ ExtrasAreCarried /\ [SettingsNext]_settingsVars => ExtrasAreCarried'
<1> SUFFICES ASSUME SettingsTypes, ExtrasAreCarried, [SettingsNext]_settingsVars
             PROVE  ExtrasAreCarried'
  OBVIOUS
<1>1. ASSUME NEW c \in Commands, TheRest(c), UNCHANGED files,
             commands'[c].copy \in {NoLayer, commands[c].copy, files[commands[c].scope]}
      PROVE  ExtrasAreCarried'
  <2>1. commands[c].scope \in Scopes
    BY DEF SettingsTypes, CommandType
  <2> QED
    BY <1>1, <2>1, ReadyType DEF ExtrasAreCarried, TheRest
<1>2. ASSUME NEW c \in Commands, NEW key \in {"plain", "flow"}, NEW v \in Values, Choose(c, key, v)
      PROVE  ExtrasAreCarried'
  BY <1>1, <1>2, CommandsChange DEF Choose, Begun
<1>3. ASSUME NEW c \in Commands, Serialize(c) PROVE ExtrasAreCarried'
  BY <1>1, <1>3, CommandsChange DEF Serialize
<1>4. ASSUME NEW c \in Commands, NEW scope \in Scopes, NEW value, SetTool(c, scope, value)
      PROVE  ExtrasAreCarried'
  BY <1>1, <1>4, CommandsChange DEF SetTool, Begun
<1>5. ASSUME NEW c \in Commands, NEW scope \in Scopes, NEW value, SetRules(c, scope, value)
      PROVE  ExtrasAreCarried'
  BY <1>1, <1>5, CommandsChange DEF SetRules, Begun
<1>6. ASSUME NEW c \in Commands, NEW rule, Trust(c, rule) PROVE ExtrasAreCarried'
  BY <1>1, <1>6, CommandsChange DEF Trust, Begun
<1>7. ASSUME NEW c \in Commands, Reads(c) PROVE ExtrasAreCarried'
  BY <1>1, <1>7, CommandsChange DEF Reads
<1>8. ASSUME NEW c \in Commands, WritesLayer(c) PROVE ExtrasAreCarried'
  <2>1. /\ TheRest(c) /\ commands'[c].copy \in {NoLayer, commands[c].copy}
        /\ commands[c] \in CommandType
    BY <1>8, CommandsChange DEF SettingsTypes
  <2>2. NewLayer(commands[c]).extra
    BY <2>1, NewLayerIs DEF ExtrasAreCarried
  <2>3. files' = [files EXCEPT ![commands[c].scope] = NewLayer(commands[c])]
    BY <1>8 DEF WritesLayer
  <2>4. \A s \in Scopes : files'[s].extra
    BY <2>2, <2>3 DEF ExtrasAreCarried, SettingsTypes
  <2> QED
    BY <2>1, <2>4, ReadyType DEF ExtrasAreCarried, TheRest
<1>9. ASSUME NEW c \in Commands, Applies(c) PROVE ExtrasAreCarried'
  BY <1>1, <1>9, CommandsChange, ReadyType DEF Applies
<1>10. CASE RestartsApp
  BY <1>10 DEF RestartsApp, ExtrasAreCarried
<1>11. CASE UNCHANGED settingsVars
  BY <1>11 DEF settingsVars, ExtrasAreCarried
<1> QED
  BY <1>2, <1>3, <1>4, <1>5, <1>6, <1>7, <1>8, <1>9, <1>10, <1>11
     DEF SettingsNext, SettingsStep, UpdateSetting, SetDevFlow

(***************************************************************************)
(* What a write does, if it does not race: it adds to what is in the file. *)
(***************************************************************************)
LEMMA UnracedWrite ==
  ASSUME SettingsTypes, NEW c \in Commands, WritesLayer(c), ~raced'
  PROVE  LET command == commands[c]
             new == files'[command.scope]
         IN /\ ~raced /\ command \in CommandType /\ command.scope \in Scopes
            /\ new = NewLayer(command) /\ command.copy = files[command.scope]
            /\ \A s \in Scopes : s # command.scope => files'[s] = files[s]
            /\ command.kind = "choose" => command.saved = runtime /\ command.scope = "global"
            /\ command.kind = "trust" =>
                 /\ UNION command.value.allow \subseteq controller
                 /\ command.scope = "project" /\ command.value.allow # {}
            /\ command.kind \in {"choose", "tool", "rules", "trust"}
            /\ files' \in [Scopes -> Layers] /\ picked' = ChosenBy(command)
<1> DEFINE command == commands[c]
<1>1. ~raced /\ ~Races(command)
  BY Zenon DEF WritesLayer
<1>2. /\ command.step = "write" /\ files' = [files EXCEPT ![command.scope] = NewLayer(command)]
      /\ picked' = ChosenBy(command)
  BY DEF WritesLayer
<1>3. command \in CommandType /\ command.scope \in Scopes /\ files \in [Scopes -> Layers]
  BY DEF SettingsTypes, CommandType
<1>4. NewLayer(command) \in Layers
  BY <1>3, NewLayerIs
<1> QED
  BY <1>1, <1>2, <1>3, <1>4 DEF Races, SettingsTypes

LEMMA ChoicesAreSavedStep ==
  SettingsTypes /\ ChoicesAreSaved /\ [SettingsNext]_settingsVars => ChoicesAreSaved'
<1> SUFFICES ASSUME SettingsTypes, ChoicesAreSaved, [SettingsNext]_settingsVars, ~raced'
             PROVE  ChoicesAreSaved'
  BY DEF ChoicesAreSaved
<1>0. /\ files \in [Scopes -> Layers] /\ runtime \in RuntimeType /\ picked \in PickedType
      /\ "global" \in Scopes /\ "project" \in Scopes
  BY DEF SettingsTypes, Scopes
<1>1. ASSUME Saving => Saving', UNCHANGED <<files, picked, raced>>,
             \A key \in {"plain", "flow"} : runtime'[key] = runtime[key]
      PROVE  ChoicesAreSaved'
  BY <1>1 DEF ChoicesAreSaved, GivenBy
<1>2. ASSUME NEW c \in Commands, TheRest(c),
             commands[c].kind = "choose" /\ commands[c].step \in {"serialize", "read", "write"} =>
               commands'[c].kind = "choose" /\ commands'[c].step \in {"serialize", "read", "write"}
      PROVE  Saving => Saving'
  BY <1>2 DEF Saving, TheRest
<1>3. ASSUME NEW c \in Commands, NEW key \in {"plain", "flow"}, NEW v \in Values, Choose(c, key, v)
      PROVE  ChoicesAreSaved'
  <2>1. Saving'
    BY <1>3, CommandsChange DEF Saving, Begun
  <2>2. /\ runtime' = [runtime EXCEPT ![key] = v] /\ picked' = [picked EXCEPT ![key] = {v}]
        /\ UNCHANGED <<files, raced>>
    BY <1>3 DEF Choose
  <2>3. /\ runtime'[key] = v /\ picked'[key] = {v} /\ picked'.tool = picked.tool
        /\ picked'.trusted = picked.trusted
        /\ \A other \in {"plain", "flow"} :
             other # key => runtime'[other] = runtime[other] /\ picked'[other] = picked[other]
    <3>1. CASE key = "plain"
      BY <1>0, <2>2, <3>1 DEF RuntimeType, PickedType
    <3>2. CASE key = "flow"
      BY <1>0, <2>2, <3>2 DEF RuntimeType, PickedType
    <3> QED
      BY <3>1, <3>2
  <2> QED
    BY <2>1, <2>2, <2>3 DEF ChoicesAreSaved, GivenBy
<1>4. ASSUME NEW c \in Commands, Serialize(c) PROVE ChoicesAreSaved'
  <2>1. Saving => Saving'
    BY <1>2, <1>4, CommandsChange
  <2> QED
    BY <1>1, <1>4, <2>1 DEF Serialize
<1>5. ASSUME NEW c \in Commands, NEW scope \in Scopes, NEW value,
             SetTool(c, scope, value) \/ SetRules(c, scope, value)
      PROVE  ChoicesAreSaved'
  <2>1. Saving => Saving'
    BY <1>2, <1>5, CommandsChange
  <2> QED
    BY <1>1, <1>5, <2>1 DEF SetTool, SetRules
<1>6. ASSUME NEW c \in Commands, NEW rule, Trust(c, rule) PROVE ChoicesAreSaved'
  <2>1. Saving => Saving'
    BY <1>2, <1>6, CommandsChange
  <2> QED
    BY <1>1, <1>6, <2>1 DEF Trust
<1>7. ASSUME NEW c \in Commands, Reads(c) PROVE ChoicesAreSaved'
  <2>1. Saving => Saving'
    BY <1>2, <1>7, CommandsChange
  <2> QED
    BY <1>1, <1>7, <2>1 DEF Reads
<1>8. ASSUME NEW c \in Commands, WritesLayer(c) PROVE ChoicesAreSaved'
  <2> DEFINE command == commands[c]
             new == files'[command.scope]
  <2>1. /\ ~raced /\ command \in CommandType /\ command.scope \in Scopes
        /\ new = NewLayer(command) /\ command.copy = files[command.scope]
        /\ \A s \in Scopes : s # command.scope => files'[s] = files[s]
        /\ command.kind = "choose" => command.saved = runtime /\ command.scope = "global"
        /\ command.kind = "trust" => command.scope = "project" /\ command.value.allow # {}
        /\ command.kind \in {"choose", "tool", "rules", "trust"}
        /\ picked' = ChosenBy(command) /\ runtime' = runtime
    BY <1>8, UnracedWrite DEF WritesLayer
  <2>2. /\ \A key \in {"plain", "flow"} : GivenBy(key) /\ picked[key] # {} =>
             /\ picked[key] = {runtime[key]}
             /\ files["global"][key] = picked[key] \/ Saving
        /\ \A s \in Scopes : files[s].tool = picked.tool[s]
        /\ picked.trusted \subseteq UNION files["project"].allow
    BY <2>1 DEF ChoicesAreSaved
  <2>3. TheRest(c)
    BY <1>8, CommandsChange
  <2> HIDE DEF command
  <2>4. CASE command.kind = "choose"
    <3>1. /\ new.plain = {runtime.plain} /\ new.flow = {runtime.flow}
          /\ new.tool = files["global"].tool /\ files'["project"] = files["project"]
          /\ command.scope = "global"
      BY <1>0, <2>1, <2>4, NewLayerIs
    <3>2. picked' = picked
      BY <2>1, <2>4 DEF ChosenBy
    <3>3. \A key \in {"plain", "flow"} : files'["global"][key] = {runtime[key]}
      BY <3>1
    <3>4. \A s \in Scopes : files'[s].tool = picked.tool[s]
      BY <2>2, <3>1 DEF Scopes
    <3> QED
      BY <2>1, <2>2, <3>1, <3>2, <3>3, <3>4 DEF ChoicesAreSaved, GivenBy
  <2>5. ASSUME command.kind # "choose"
        PROVE  /\ \A s \in Scopes : files'[s].plain = files[s].plain /\ files'[s].flow = files[s].flow
               /\ Saving => Saving'
    <3>1. new.plain = files[command.scope].plain /\ new.flow = files[command.scope].flow
      BY <2>1, <2>5, NewLayerIs
    <3>2. Saving => Saving'
      BY <1>2, <2>3, <2>5 DEF command
    <3> QED
      BY <2>1, <3>1, <3>2
  <2>6. ASSUME command.kind # "choose", picked'.plain = picked.plain, picked'.flow = picked.flow,
               \A s \in Scopes : files'[s].tool = picked'.tool[s],
               picked'.trusted \subseteq UNION files'["project"].allow
        PROVE  ChoicesAreSaved'
    <3>1. \A key \in {"plain", "flow"} :
            /\ GivenBy(key)' => GivenBy(key)
            /\ picked'[key] = picked[key] /\ runtime'[key] = runtime[key]
            /\ files'["global"][key] = files["global"][key]
      BY <1>0, <2>1, <2>5, <2>6 DEF GivenBy
    <3> QED
      BY <2>2, <2>5, <2>6, <3>1 DEF ChoicesAreSaved
  <2>7. CASE command.kind = "tool"
    <3>1. /\ new.tool = command.value.tool
          /\ \A s \in Scopes : files'[s].allow = files[s].allow
      BY <2>1, <2>7, NewLayerIs
    <3>2. picked' = [picked EXCEPT !.tool[command.scope] = command.value.tool]
      BY <2>1, <2>7 DEF ChosenBy
    <3>3. /\ picked'.tool = [picked.tool EXCEPT ![command.scope] = command.value.tool]
          /\ picked'.plain = picked.plain /\ picked'.flow = picked.flow
          /\ picked'.trusted = picked.trusted
      BY <1>0, <3>2 DEF PickedType
    <3>4. \A s \in Scopes : files'[s].tool = picked'.tool[s]
      BY <1>0, <2>1, <2>2, <3>1, <3>3 DEF PickedType
    <3> QED
      BY <1>0, <2>2, <2>6, <2>7, <3>1, <3>3, <3>4
  <2>8. CASE command.kind = "rules"
    <3>1. \A s \in Scopes : files'[s].tool = files[s].tool
      BY <2>1, <2>8, NewLayerIs
    <3>2. picked' = [picked EXCEPT !.rules[command.scope] = command.value.allow,
                                   !.trusted = IF command.scope = "project" THEN {} ELSE @]
      BY <2>1, <2>8 DEF ChosenBy
    <3>3. /\ picked'.tool = picked.tool /\ picked'.plain = picked.plain /\ picked'.flow = picked.flow
          /\ picked'.trusted = IF command.scope = "project" THEN {} ELSE picked.trusted
      BY <1>0, <3>2 DEF PickedType
    <3>4. picked'.trusted \subseteq UNION files'["project"].allow
      BY <1>0, <2>1, <2>2, <3>3
    <3> QED
      BY <2>2, <2>6, <2>8, <3>1, <3>3, <3>4
  <2>9. CASE command.kind = "trust"
    <3>1. /\ \A s \in Scopes : files'[s].tool = files[s].tool
          /\ new.allow = {UNION (files["project"].allow \cup command.value.allow)}
          /\ command.scope = "project"
      BY <2>1, <2>9, NewLayerIs
    <3>2. picked' = [picked EXCEPT !.trusted = @ \cup UNION command.value.allow]
      BY <2>1, <2>9 DEF ChosenBy
    <3>3. /\ picked'.tool = picked.tool /\ picked'.plain = picked.plain /\ picked'.flow = picked.flow
          /\ picked'.trusted = picked.trusted \cup UNION command.value.allow
      BY <1>0, <3>2 DEF PickedType
    <3>4. picked'.trusted \subseteq UNION files'["project"].allow
      <4>1. UNION files'["project"].allow = UNION (files["project"].allow \cup command.value.allow)
        BY <3>1
      <4> QED
        BY <2>2, <3>3, <4>1
    <3> QED
      BY <2>2, <2>6, <2>9, <3>1, <3>3, <3>4
  <2> QED
    BY <2>1, <2>4, <2>7, <2>8, <2>9
<1>9. ASSUME NEW c \in Commands, Applies(c) PROVE ChoicesAreSaved'
  <2>1. Saving => Saving'
    BY <1>2, <1>9, CommandsChange
  <2>2. \A key \in {"plain", "flow"} : runtime'[key] = runtime[key]
    BY <1>0, <1>9 DEF Applies, RuntimeType
  <2> QED
    BY <1>1, <1>9, <2>1, <2>2 DEF Applies
<1>10. CASE RestartsApp
  <2>1. /\ runtime' = Merged(files) /\ UNCHANGED <<files, commands, picked, raced>> /\ ~Saving
    BY <1>10 DEF RestartsApp, Saving, Idling
  <2>2. ASSUME NEW key \in {"plain", "flow"}, GivenBy(key), picked[key] # {}
        PROVE  picked[key] = {runtime'[key]} /\ files["global"][key] = picked[key]
    <3>1. files["global"][key] = {runtime[key]} /\ picked[key] = {runtime[key]}
      BY <2>1, <2>2 DEF ChoicesAreSaved
    <3>2. Merged(files)[key] = runtime[key]
      BY <1>0, <2>2, <3>1, MergedIs DEF GivenBy
    <3> QED
      BY <2>1, <3>1, <3>2
  <2> QED
    BY <2>1, <2>2 DEF ChoicesAreSaved, GivenBy
<1>11. CASE UNCHANGED settingsVars
  BY <1>11 DEF settingsVars, ChoicesAreSaved, GivenBy, Saving
<1> QED
  BY <1>3, <1>4, <1>5, <1>6, <1>7, <1>8, <1>9, <1>10, <1>11
     DEF SettingsNext, SettingsStep, UpdateSetting, SetDevFlow

(***************************************************************************)
(* The controller follows what is applied, and is ahead by what is being   *)
(* trusted.                                                                *)
(***************************************************************************)
LEMMA ControllerIsLoadedStep ==
  SettingsTypes /\ ControllerIsLoaded /\ [SettingsNext]_settingsVars => ControllerIsLoaded'
<1> SUFFICES ASSUME SettingsTypes, ControllerIsLoaded, [SettingsNext]_settingsVars
             PROVE  ControllerIsLoaded'
  OBVIOUS
<1>0. /\ files \in [Scopes -> Layers] /\ runtime \in RuntimeType
      /\ "global" \in Scopes /\ "project" \in Scopes
  BY DEF SettingsTypes, Scopes
<1>01. files["project"].allow # {} => \E R : files["project"].allow = {R}
  <2>1. files["project"].allow \in AtMostOne(SUBSET Rules)
    BY <1>0 DEF Layers
  <2> QED
    BY <2>1, Zenon DEF AtMostOne
<1>1. ASSUME NEW c \in Commands, TheRest(c), commands[c].step # "apply",
             commands[c].kind = "trust" /\ commands[c].step \in {"read", "write"} =>
               commands'[c].kind = "trust" /\ commands'[c].step \in {"read", "write"}
      PROVE  (Trusting => Trusting') /\ (Applying => Applying')
  BY <1>1 DEF Trusting, Applying, TheRest
<1>2. ASSUME Trusting => Trusting', Applying => Applying',
             UNCHANGED <<files, controller, unsettled, raced>>, runtime'.allow = runtime.allow
      PROVE  ControllerIsLoaded'
  BY <1>2 DEF ControllerIsLoaded, Merged
<1>3. ASSUME NEW c \in Commands, NEW key \in {"plain", "flow"}, NEW v \in Values, Choose(c, key, v)
      PROVE  ControllerIsLoaded'
  <2>1. (Trusting => Trusting') /\ (Applying => Applying')
    BY <1>1, <1>3, CommandsChange
  <2>2. runtime'.allow = runtime.allow
    BY <1>0, <1>3 DEF Choose, RuntimeType
  <2> QED
    BY <1>2, <1>3, <2>1, <2>2 DEF Choose
<1>4. ASSUME NEW c \in Commands, Serialize(c) \/ Reads(c) PROVE ControllerIsLoaded'
  <2>1. (Trusting => Trusting') /\ (Applying => Applying')
    BY <1>1, <1>4, CommandsChange
  <2> QED
    BY <1>2, <1>4, <2>1 DEF Serialize, Reads
<1>5. ASSUME NEW c \in Commands, NEW scope \in Scopes, NEW value,
             SetTool(c, scope, value) \/ SetRules(c, scope, value)
      PROVE  ControllerIsLoaded'
  <2>1. (Trusting => Trusting') /\ (Applying => Applying')
    BY <1>1, <1>5, CommandsChange
  <2> QED
    BY <1>2, <1>5, <2>1 DEF SetTool, SetRules
<1>6. ASSUME NEW c \in Commands, NEW rule, Trust(c, rule) PROVE ControllerIsLoaded'
  <2>1. (Applying => Applying') /\ Trusting'
    BY <1>1, <1>6, CommandsChange DEF Trusting, Begun
  <2>2. controller \subseteq controller' /\ UNCHANGED <<files, runtime, raced>>
    BY <1>6 DEF Trust
  <2> QED
    BY <2>1, <2>2 DEF ControllerIsLoaded, Merged
<1>7. ASSUME NEW c \in Commands, WritesLayer(c) PROVE ControllerIsLoaded'
  <2> DEFINE command == commands[c]
             new == files'[command.scope]
  <2>1. /\ TheRest(c) /\ command.step = "write"
        /\ commands'[c].step = IF command.kind = "rules" THEN "apply" ELSE "idle"
    BY <1>7, CommandsChange
  <2>2. /\ UNCHANGED <<runtime, controller>>
        /\ unsettled' = (unsettled \/ command.kind = "trust")
    BY <1>7 DEF WritesLayer
  <2>3. unsettled \/ Trusting => unsettled' \/ Trusting'
    BY <2>1, <2>2 DEF Trusting, TheRest
  <2>4. command.kind = "rules" => Applying'
    BY <2>1 DEF Applying
  <2>5. Applying => Applying'
    BY <2>1 DEF Applying, TheRest
  <2>6. ASSUME ~raced', ~Applying'
        PROVE  /\ Merged(files').allow \subseteq controller
               /\ unsettled' \/ Trusting' \/ controller = Merged(files').allow
    <3>1. /\ ~raced /\ command \in CommandType /\ command.scope \in Scopes
          /\ new = NewLayer(command) /\ command.copy = files[command.scope]
          /\ \A s \in Scopes : s # command.scope => files'[s] = files[s]
          /\ command.kind = "choose" => command.saved = runtime /\ command.scope = "global"
          /\ command.kind = "trust" =>
               /\ UNION command.value.allow \subseteq controller
               /\ command.scope = "project" /\ command.value.allow # {}
          /\ command.kind \in {"choose", "tool", "rules", "trust"}
          /\ files' \in [Scopes -> Layers]
      BY <1>7, <2>6, UnracedWrite
    <3>2. /\ Merged(files).allow \subseteq controller
          /\ unsettled \/ Trusting \/ controller = Merged(files).allow
      BY <2>5, <2>6, <3>1 DEF ControllerIsLoaded
    <3> HIDE DEF command
    <3>3. CASE command.kind = "tool"
      <4>1. \A s \in Scopes : files'[s].allow = files[s].allow
        BY <3>1, <3>3, NewLayerIs
      <4>2. Merged(files').allow = Merged(files).allow
        BY <1>0, <4>1 DEF Merged
      <4> QED
        BY <2>3, <3>2, <4>2
    <3>4. CASE command.kind = "choose"
      <4>1. files'["global"].allow = {runtime.allow} /\ files'["project"] = files["project"]
        BY <1>0, <3>1, <3>4, NewLayerIs
      <4>2. CASE files["project"].allow = {}
        <5>1. Merged(files').allow = runtime.allow
          BY <3>1, <4>1, <4>2, MergedIs
        <5> QED
          BY <2>3, <5>1 DEF ControllerIsLoaded
      <4>3. CASE files["project"].allow # {}
        <5>1. PICK R : files["project"].allow = {R}
          BY <1>01, <4>3
        <5>2. Merged(files').allow = R /\ Merged(files).allow = R
          BY <1>0, <3>1, <4>1, <5>1, MergedIs
        <5> QED
          BY <2>3, <3>2, <5>2
      <4> QED
        BY <4>2, <4>3
    <3>5. CASE command.kind = "trust"
      <4> DEFINE all == UNION (files["project"].allow \cup command.value.allow)
      <4>1. files'["project"].allow = {all}
        BY <3>1, <3>5, NewLayerIs
      <4>2. Merged(files').allow = all
        BY <3>1, <4>1, MergedIs
      <4>3. UNION files["project"].allow \subseteq controller
        <5>1. CASE files["project"].allow = {}
          BY <5>1
        <5>2. CASE files["project"].allow # {}
          <6>1. PICK R : files["project"].allow = {R}
            BY <1>01, <5>2
          <6>2. Merged(files).allow = R
            BY <1>0, <6>1, MergedIs
          <6> QED
            BY <3>2, <6>1, <6>2
        <5> QED
          BY <5>1, <5>2
      <4>4. all \subseteq controller
        BY <3>1, <3>5, <4>3
      <4> QED
        BY <2>2, <3>5, <4>2, <4>4 DEF command
    <3> QED
      BY <2>4, <2>6, <3>1, <3>3, <3>4, <3>5 DEF command
  <2> QED
    BY <2>2, <2>3, <2>6 DEF ControllerIsLoaded
<1>8. ASSUME NEW c \in Commands, Applies(c) PROVE ControllerIsLoaded'
  <2>1. /\ controller' = Merged(files).allow /\ runtime'.allow = Merged(files).allow
        /\ UNCHANGED files
    BY <1>0, <1>8 DEF Applies, Applied, RuntimeType
  <2> QED
    BY <2>1 DEF ControllerIsLoaded
<1>9. CASE RestartsApp
  BY <1>9 DEF RestartsApp, ControllerIsLoaded
<1>10. CASE UNCHANGED settingsVars
  BY <1>10 DEF settingsVars, ControllerIsLoaded, Trusting, Applying
<1> QED
  BY <1>3, <1>4, <1>5, <1>6, <1>7, <1>8, <1>9, <1>10
     DEF SettingsNext, SettingsStep, UpdateSetting, SetDevFlow

(***************************************************************************)
(* In every reachable state between two commands, none of which raced, the *)
(* settings are what the user chose: on file, merged, and in the           *)
(* permission controller (settings/mod.rs, commands.rs).                   *)
(***************************************************************************)
THEOREM SettingsAreWhatWasChosen == SettingsSpec => []SettingsInvariant
<1>1. SettingsInit => SettingsIInv
  BY SettingsInitInv
<1>2. SettingsIInv /\ [SettingsNext]_settingsVars => SettingsIInv'
  BY SettingsTypesStep, ExtrasAreCarriedStep, ChoicesAreSavedStep, ControllerIsLoadedStep
     DEF SettingsIInv
<1>3. SettingsIInv => SettingsInvariant
  <2> SUFFICES ASSUME SettingsIInv
               PROVE  SettingsInvariant
    OBVIOUS
  <2>1. SettingsTypeOK
    BY DEF SettingsIInv, SettingsTypes, SettingsTypeOK, CommandType, RuntimeType
  <2>2. ChosenIsKept
    BY DEF SettingsIInv, ChoicesAreSaved, GivenBy, Saving, ChosenIsKept, Quiet, Idling
  <2>3. UnknownKeysSurvive
    BY DEF SettingsIInv, ExtrasAreCarried, UnknownKeysSurvive
  <2>4. TrustIsKept
    <3>1. ASSUME Quiet, NEW rule \in picked.trusted PROVE rule \in Merged(files).allow
      <4>1. PICK R \in files["project"].allow : rule \in R
        BY <3>1 DEF SettingsIInv, ChoicesAreSaved, Quiet
      <4>2. files["project"].allow = {R} /\ files \in [Scopes -> Layers]
        BY <4>1 DEF SettingsIInv, SettingsTypes, Layers, AtMostOne, Scopes
      <4> QED
        BY <4>1, <4>2, MergedIs
    <3> QED
      BY <3>1 DEF TrustIsKept
  <2>5. ControllerFollowsTheFiles
    BY DEF SettingsIInv, ControllerIsLoaded, ControllerFollowsTheFiles, Quiet, Idling, Trusting,
           Applying
  <2> QED
    BY <2>1, <2>2, <2>3, <2>4, <2>5 DEF SettingsInvariant
<1> QED
  BY <1>1, <1>2, <1>3, PTL DEF SettingsSpec

-----------------------------------------------------------------------------
(***************************************************************************)
(* SubagentManager.  The invariant IInv says which runs exist, whose they  *)
(* are, what the tool call that holds the mutex knows of them, and where   *)
(* each message of the model is: still in the stream, or in the history.   *)
(***************************************************************************)

(***************************************************************************)
(* Ids are used in order, and so are the numbers of the runs.              *)
(***************************************************************************)
Fresh ==
  /\ \A i \in Ids : i >= nextId => status[i] = "absent"
  /\ \A r \in Runs : r > sent => drain[r] = "none"

(***************************************************************************)
(* A run has a subagent, and a loop without one sends nothing.             *)
(***************************************************************************)
Started ==
  \A r \in Runs :
    /\ drain[r] # "none" => subagent[r] \in Ids
    /\ drain[r] = "none" => loop[r] = "none" /\ stream[r] = <<>> /\ replies[r] = 0
    /\ drain[r] = "done" => loop[r] = "closed" /\ stream[r] = <<>>

(***************************************************************************)
(* What the tool call that holds the manager's mutex is about.             *)
(***************************************************************************)
CallOk ==
  /\ call.op # "free" => call.id \in Ids
  /\ call.op = "join" => /\ call.run \in Runs
                         /\ drain[call.run] # "none"
                         /\ subagent[call.run] = call.id

(***************************************************************************)
(* Whose messages a stream and a history hold.                             *)
(***************************************************************************)
Origins ==
  /\ \A r \in Runs : \A k \in 1..Len(stream[r]) : stream[r][k].run = r
  /\ \A i \in Ids : \A k \in 1..Len(history[i]) : history[i][k].run <= sent

Positions(s, m) == {k \in 1..Len(s) : s[k] = m}
Count(s, m) == Cardinality(Positions(s, m))

(***************************************************************************)
(* Every message of the model is in the stream or in the history.          *)
(***************************************************************************)
Conserved ==
  \A r \in Runs : drain[r] # "none" =>
    Count(history[subagent[r]], Reply(r)) + Count(stream[r], Reply(r)) = replies[r]

IInv == /\ TypeOK /\ Fresh /\ Started /\ CallOk /\ RunningIsDrained
        /\ JoinedIsNotRunning /\ Origins /\ Conserved

-----------------------------------------------------------------------------
USE SubagentAssumption

(***************************************************************************)
(* Occurrences in a sequence that grows at its end or loses its head.      *)
(***************************************************************************)
LEMMA CountIsNat ==
  ASSUME NEW S, NEW s \in Seq(S), NEW m
  PROVE  IsFiniteSet(Positions(s, m)) /\ Count(s, m) \in Nat
<1>1. IsFiniteSet(1..Len(s)) /\ Positions(s, m) \subseteq 1..Len(s)
  BY FS_Interval DEF Positions
<1> QED
  BY <1>1, FS_Subset, FS_CardinalityType DEF Count

LEMMA CountEmpty == ASSUME NEW m PROVE Count(<<>>, m) = 0
<1>1. Positions(<<>>, m) = {}
  BY DEF Positions
<1> QED
  BY <1>1, FS_EmptySet DEF Count

LEMMA CountAppend ==
  ASSUME NEW S, NEW s \in Seq(S), NEW e \in S, NEW m
  PROVE  Count(Append(s, e), m) = Count(s, m) + (IF e = m THEN 1 ELSE 0)
<1>1. IsFiniteSet(Positions(s, m)) /\ Count(s, m) \in Nat /\ Len(s) \in Nat
  BY CountIsNat
<1>2. CASE e = m
  <2>1. Positions(Append(s, e), m) = Positions(s, m) \cup {Len(s) + 1}
    BY <1>1, <1>2 DEF Positions
  <2>2. Len(s) + 1 \notin Positions(s, m)
    BY <1>1 DEF Positions
  <2> QED
    BY <1>1, <1>2, <2>1, <2>2, FS_AddElement DEF Count
<1>3. CASE e # m
  <2>1. Positions(Append(s, e), m) = Positions(s, m)
    BY <1>1, <1>3 DEF Positions
  <2> QED
    BY <1>1, <1>3, <2>1 DEF Count
<1> QED
  BY <1>2, <1>3

LEMMA CountTail ==
  ASSUME NEW S, NEW s \in Seq(S), s # <<>>, NEW m
  PROVE  Count(s, m) = Count(Tail(s), m) + (IF Head(s) = m THEN 1 ELSE 0)
<1> DEFINE Later == {k \in 2..Len(s) : s[k] = m}
           f == [k \in Positions(Tail(s), m) |-> k + 1]
<1>1. Len(s) \in Nat \ {0} /\ Tail(s) \in Seq(S) /\ Len(Tail(s)) = Len(s) - 1
      /\ Head(s) = s[1] /\ \A k \in 1..(Len(s) - 1) : Tail(s)[k] = s[k + 1]
  OBVIOUS
<1>2. IsFiniteSet(Positions(Tail(s), m)) /\ Count(Tail(s), m) \in Nat
  BY <1>1, CountIsNat
<1>3. f \in Bijection(Positions(Tail(s), m), Later)
  <2>1. f \in [Positions(Tail(s), m) -> Later]
    BY <1>1 DEF Positions
  <2>2. \A j, k \in Positions(Tail(s), m) : f[j] = f[k] => j = k
    BY <1>1 DEF Positions
  <2>3. \A l \in Later : \E k \in Positions(Tail(s), m) : f[k] = l
    <3> TAKE l \in Later
    <3>1. l - 1 \in Positions(Tail(s), m)
      BY <1>1 DEF Positions
    <3> QED
      BY <3>1
  <2> QED
    BY <2>1, <2>2, <2>3, Fun_IsBij
<1>4. IsFiniteSet(Later) /\ Cardinality(Later) = Count(Tail(s), m)
  BY <1>2, <1>3, FS_Bijection DEF Count, ExistsBijection
<1>5. CASE Head(s) = m
  <2>1. Positions(s, m) = Later \cup {1} /\ 1 \notin Later
    BY <1>1, <1>5 DEF Positions
  <2> HIDE DEF Later
  <2>2. Cardinality(Later \cup {1}) = Cardinality(Later) + 1
    BY <1>4, <2>1, FS_AddElement
  <2> QED
    BY <1>4, <1>5, <2>1, <2>2 DEF Count
<1>6. CASE Head(s) # m
  <2>1. Positions(s, m) = Later
    BY <1>1, <1>6 DEF Positions
  <2> QED
    BY <1>2, <1>4, <1>6, <2>1 DEF Count
<1> QED
  BY <1>5, <1>6

LEMMA CountZero ==
  ASSUME NEW S, NEW s \in Seq(S), NEW m, \A k \in 1..Len(s) : s[k] # m
  PROVE  Count(s, m) = 0
<1>1. Positions(s, m) = {}
  BY DEF Positions
<1> QED
  BY <1>1, FS_EmptySet DEF Count

LEMMA MessagesDiffer ==
  ASSUME NEW r, NEW q
  PROVE  /\ Reply(r) # Prompt(q) /\ Reply(r) # AgentEnd(q)
         /\ Prompt(r).run = r /\ Reply(r).run = r /\ AgentEnd(r).run = r
         /\ r \in Runs => Prompt(r) \in Messages /\ Reply(r) \in Messages
                          /\ {Prompt(r), Reply(r), AgentEnd(r)} \subseteq Events
<1>1. Reply(r).from = "model" /\ Prompt(q).from = "user" /\ AgentEnd(q).from = "loop"
  BY DEF Reply, Prompt, AgentEnd
<1> QED
  BY <1>1 DEF Reply, Prompt, AgentEnd, Messages, Events

-----------------------------------------------------------------------------
LEMMA InitIInv == Init => IInv
<1> SUFFICES ASSUME Init PROVE IInv
  OBVIOUS
<1>1. TypeOK /\ Fresh /\ Started /\ CallOk
  BY DEF Init, TypeOK, Fresh, Started, CallOk, NoCall, Ids, Runs, Statuses
<1>2. RunningIsDrained /\ JoinedIsNotRunning /\ Origins /\ Conserved
  BY DEF Init, RunningIsDrained, Running, JoinedIsNotRunning, NoCall, Origins, Conserved
<1> QED
  BY <1>1, <1>2 DEF IInv

(***************************************************************************)
(* A step that only changes what the tool waits for.                       *)
(***************************************************************************)
LEMMA CallChanges ==
  ASSUME IInv, UNCHANGED <<nextId, runtimeVars, runVars>>,
         \/ call' = NoCall
         \/ \E i \in Ids : call' = WaitingFor(i)
  PROVE  IInv'
<1>1. UNCHANGED <<nextId, status, watched, history, token, fired, sent, subagent,
                  given, loop, replies, stream, drain>>
  BY DEF runtimeVars, runVars
<1>2. /\ call' \in [op : {"free", "send", "join", "wait"},
                    id : Ids \cup {0}, run : Runs \cup {0}]
      /\ call'.op \in {"free", "wait"} /\ (call'.op # "free" => call'.id \in Ids)
  BY DEF NoCall, WaitingFor
<1>3. TypeOK' /\ CallOk' /\ JoinedIsNotRunning'
  BY <1>1, <1>2 DEF IInv, TypeOK, CallOk, JoinedIsNotRunning
<1>4. Fresh' /\ Started' /\ Origins' /\ Conserved'
  BY <1>1 DEF IInv, Fresh, Started, Origins, Conserved
<1>5. RunningIsDrained'
  BY <1>1 DEF IInv, RunningIsDrained, Running, RunsOf
<1> QED
  BY <1>3, <1>4, <1>5 DEF IInv

LEMMA StutterIInv == ASSUME IInv, UNCHANGED vars PROVE IInv'
<1>1. UNCHANGED <<nextId, status, watched, history, token, fired, sent, subagent,
                  given, loop, replies, stream, drain, call>>
  BY DEF vars, runtimeVars, runVars
<1>2. TypeOK' /\ CallOk' /\ JoinedIsNotRunning'
  BY <1>1 DEF IInv, TypeOK, CallOk, JoinedIsNotRunning
<1>3. Fresh' /\ Started' /\ Origins' /\ Conserved'
  BY <1>1 DEF IInv, Fresh, Started, Origins, Conserved
<1>4. RunningIsDrained'
  BY <1>1 DEF IInv, RunningIsDrained, Running, RunsOf
<1> QED
  BY <1>2, <1>3, <1>4 DEF IInv

LEMMA SpawnIInv == ASSUME IInv, Spawn PROVE IInv'
<1>1. /\ nextId \in Ids /\ nextId' = nextId + 1 /\ call = NoCall
      /\ UNCHANGED <<watched, history, token, fired, sent, subagent, given, loop,
                     replies, stream, drain>>
  BY DEF Spawn, runVars
<1>2. /\ status' \in [Ids -> Statuses \cup {"absent"}]
      /\ \A i \in Ids : status'[i] = status[i] \/ (i = nextId /\ status'[i] = "Idle")
  BY <1>1 DEF Spawn, IInv, TypeOK, Statuses
<1>3. call' = NoCall \/ call' = Sending(nextId)
  BY <1>1 DEF Spawn
<1>4. TypeOK' /\ CallOk' /\ JoinedIsNotRunning'
  <2>1. /\ call' \in [op : {"free", "send", "join", "wait"},
                      id : Ids \cup {0}, run : Runs \cup {0}]
        /\ call'.op \in {"free", "send"} /\ (call'.op # "free" => call'.id \in Ids)
    BY <1>1, <1>3 DEF NoCall, Sending
  <2>2. nextId' \in 1..(MaxSpawned + 1)
    BY <1>1 DEF Ids
  <2> QED
    BY <1>1, <1>2, <2>1, <2>2 DEF IInv, TypeOK, CallOk, JoinedIsNotRunning
<1>5. Fresh'
  <2>1. nextId \in Nat
    BY <1>1 DEF Ids
  <2> QED
    BY <1>1, <1>2, <2>1 DEF IInv, Fresh, Ids
<1>6. Started' /\ Origins' /\ Conserved'
  BY <1>1 DEF IInv, Started, Origins, Conserved
<1>7. RunningIsDrained'
  BY <1>1, <1>2 DEF IInv, RunningIsDrained, Running, RunsOf
<1> QED
  BY <1>4, <1>5, <1>6, <1>7 DEF IInv

LEMMA AbortIInv == ASSUME IInv, NEW i \in Ids, Abort(i) PROVE IInv'
<1>1. /\ call = NoCall /\ Spawned(i)
      /\ fired' = fired \cup {<<i, token[i]>>}
      /\ status' = [status EXCEPT ![i] = "Aborted"]
      /\ watched' \in {watched, [watched EXCEPT ![i] = "Aborted"]}
      /\ UNCHANGED <<nextId, history, token, sent, subagent, given, loop, replies,
                     stream, drain, call>>
  BY DEF Abort, SetStatus, Publish, runVars
<1>2. TypeOK'
  <2>1. status' \in [Ids -> Statuses \cup {"absent"}] /\ watched' \in [Ids -> Statuses]
    BY <1>1 DEF IInv, TypeOK, Statuses
  <2>2. fired' \subseteq Ids \X Nat
    <3>1. token[i] \in Nat /\ fired \subseteq Ids \X Nat
      BY DEF IInv, TypeOK
    <3> QED
      BY <1>1, <3>1
  <2> QED
    BY <1>1, <2>1, <2>2 DEF IInv, TypeOK
<1>3. Fresh' /\ Started' /\ CallOk'
  BY <1>1 DEF IInv, TypeOK, Fresh, Started, CallOk, Spawned
<1>4. Origins' /\ Conserved'
  BY <1>1 DEF IInv, Origins, Conserved
<1>5. RunningIsDrained' /\ JoinedIsNotRunning'
  BY <1>1 DEF IInv, TypeOK, RunningIsDrained, Running, RunsOf,
              JoinedIsNotRunning, NoCall
<1> QED
  BY <1>2, <1>3, <1>4, <1>5 DEF IInv

(***************************************************************************)
(* A prompt is delivered: the run that is started, or could not be.        *)
(***************************************************************************)
LEMMA Delivered ==
  ASSUME IInv, NEW i \in Ids, Deliver(i)
  PROVE  /\ sent \in Nat /\ sent + 1 \in Runs /\ sent' = sent + 1
         /\ status[i] \in {"Idle", "Error"}
         /\ history' = [history EXCEPT ![i] = Append(@, Prompt(sent + 1))]
         /\ history' \in [Ids -> Seq(Messages)]
         /\ token' \in [Ids -> Nat]
         /\ UNCHANGED <<nextId, fired>>
         /\ \A j \in Ids, r \in Runs :
              Count(history'[j], Reply(r)) = Count(history[j], Reply(r))
         /\ Origins
         /\ \A j \in Ids : \A k \in 1..Len(history'[j]) : history'[j][k].run <= sent + 1
<1> DEFINE m == Prompt(sent + 1)
<1>1. /\ sent \in 0..MaxSent /\ sent < MaxSent /\ sent' = sent + 1
      /\ status[i] \in {"Idle", "Error"}
      /\ history' = [history EXCEPT ![i] = Append(@, m)]
      /\ UNCHANGED <<nextId, fired>>
  BY DEF Deliver, Sendable, IInv, TypeOK
<1>2. sent \in Nat /\ sent + 1 \in Runs
  BY <1>1 DEF Runs
<1>3. m \in Messages /\ m.run = sent + 1 /\ \A r : Reply(r) # m
  BY <1>2, MessagesDiffer
<1> HIDE DEF m
<1>4. history \in [Ids -> Seq(Messages)] /\ token \in [Ids -> Nat]
  BY DEF IInv, TypeOK
<1>5. token' \in [Ids -> Nat]
  <2>1. token' = token \/ token' = [token EXCEPT ![i] = token[i] + 1]
    BY DEF Deliver
  <2> QED
    BY <1>4, <2>1
<1>6. /\ history' \in [Ids -> Seq(Messages)] /\ history'[i] = Append(history[i], m)
      /\ \A j \in Ids : j # i => history'[j] = history[j]
  BY <1>1, <1>3, <1>4
<1>7. ASSUME NEW j \in Ids, NEW r \in Runs
      PROVE  Count(history'[j], Reply(r)) = Count(history[j], Reply(r))
  <2>1. CASE j # i
    BY <1>6, <2>1
  <2>2. CASE j = i
    <3>1. history[i] \in Seq(Messages) /\ Count(history[i], Reply(r)) \in Nat
      BY <1>4, CountIsNat
    <3>2. Count(Append(history[i], m), Reply(r))
            = Count(history[i], Reply(r)) + (IF m = Reply(r) THEN 1 ELSE 0)
      BY <1>3, <3>1, CountAppend
    <3>3. m # Reply(r)
      BY <1>3
    <3>4. history'[j] = Append(history[i], m) /\ history[j] = history[i]
      BY <1>6, <2>2
    <3> QED
      BY <3>1, <3>2, <3>3, <3>4
  <2> QED
    BY <2>1, <2>2
<1>8. ASSUME NEW j \in Ids, NEW k \in 1..Len(history'[j])
      PROVE  history'[j][k].run <= sent + 1
  <2>1. \A l \in 1..Len(history[j]) : history[j][l] \in Messages
                                     /\ history[j][l].run <= sent
    BY <1>4 DEF IInv, Origins
  <2>2. \A x \in Messages : x.run \in Nat
    BY DEF Messages, Runs
  <2>3. CASE j # i
    <3>1. history'[j] = history[j] /\ k \in 1..Len(history[j])
      BY <1>6, <2>3
    <3>2. history'[j][k].run \in Nat /\ history'[j][k].run <= sent
      BY <2>1, <2>2, <3>1
    <3> QED
      BY <1>2, <3>2
  <2>4. CASE j = i
    <3>1. history[i] \in Seq(Messages)
      BY <1>4
    <3>2. k = Len(history[i]) + 1 \/ k \in 1..Len(history[i])
      BY <1>3, <1>6, <2>4, <3>1
    <3>3. history'[i][Len(history[i]) + 1] = m
          /\ \A l \in 1..Len(history[i]) : history'[i][l] = history[i][l]
      BY <1>3, <1>6, <3>1
    <3>4. CASE k = Len(history[i]) + 1
      BY <1>2, <1>3, <2>4, <3>3, <3>4
    <3>5. CASE k \in 1..Len(history[i])
      <4>1. history'[j][k].run \in Nat /\ history'[j][k].run <= sent
        BY <2>1, <2>2, <2>4, <3>3, <3>5
      <4> QED
        BY <1>2, <4>1
    <3> QED
      BY <3>2, <3>4, <3>5
  <2> QED
    BY <2>3, <2>4
<1> QED
  BY <1>1, <1>2, <1>4, <1>5, <1>6, <1>7, <1>8 DEF m, IInv

LEMMA DeliverIInv == ASSUME IInv, NEW i \in Ids, Deliver(i) PROVE IInv'
<1> DEFINE r == sent + 1
<1>1. /\ sent \in Nat /\ r \in Runs /\ sent' = r
      /\ status[i] \in {"Idle", "Error"}
      /\ history' \in [Ids -> Seq(Messages)] /\ token' \in [Ids -> Nat]
      /\ UNCHANGED <<nextId, fired>>
  BY Delivered
<1>2. \A j \in Ids, q \in Runs :
        Count(history'[j], Reply(q)) = Count(history[j], Reply(q))
  BY Delivered
<1>3. /\ \A q \in Runs : \A k \in 1..Len(stream[q]) : stream[q][k].run = q
      /\ \A j \in Ids : \A k \in 1..Len(history'[j]) : history'[j][k].run <= sent'
  BY <1>1, Delivered DEF Origins
<1>4. drain[r] = "none" /\ loop[r] = "none" /\ stream[r] = <<>> /\ replies[r] = 0
  BY <1>1 DEF IInv, Fresh, Started
<1>5. sent' \in 0..MaxSent
  BY <1>1 DEF Runs
<1>6. CASE ConfigFails(i)
  <2>1. /\ status' = [status EXCEPT ![i] = "Error"]
        /\ watched' \in {watched, [watched EXCEPT ![i] = "Error"]}
        /\ call' = NoCall
        /\ UNCHANGED <<subagent, given, loop, replies, stream, drain>>
    BY <1>6 DEF ConfigFails, SetStatus, Publish
  <2>2. TypeOK'
    BY <1>1, <1>5, <2>1 DEF IInv, TypeOK, Statuses, NoCall
  <2>3. Fresh' /\ Started'
    BY <1>1, <2>1 DEF IInv, TypeOK, Fresh, Started, Runs
  <2>4. CallOk' /\ JoinedIsNotRunning'
    BY <2>1 DEF CallOk, JoinedIsNotRunning, NoCall
  <2>5. RunningIsDrained'
    BY <2>1 DEF IInv, TypeOK, RunningIsDrained, Running, RunsOf
  <2>6. Origins'
    BY <1>3, <2>1 DEF Origins
  <2>7. Conserved'
    BY <1>2, <2>1 DEF IInv, Started, Conserved
  <2> QED
    BY <2>2, <2>3, <2>4, <2>5, <2>6, <2>7 DEF IInv
<1>7. CASE StartRun(i, r)
  <2>1. /\ status' = [status EXCEPT ![i] = "Running"]
        /\ watched' \in {watched, [watched EXCEPT ![i] = "Running"]}
        /\ subagent' = [subagent EXCEPT ![r] = i]
        /\ given' = [given EXCEPT ![r] = CancelToken(i)]
        /\ loop' = [loop EXCEPT ![r] = "starting"]
        /\ drain' = [drain EXCEPT ![r] = "draining"]
        /\ call' \in {NoCall, Joining(i, r)}
        /\ UNCHANGED <<replies, stream>>
    BY <1>7 DEF StartRun, SetStatus, Publish
  <2>2. /\ subagent'[r] = i /\ drain'[r] = "draining" /\ loop'[r] = "starting"
        /\ \A q \in Runs : q # r => /\ subagent'[q] = subagent[q]
                                    /\ drain'[q] = drain[q] /\ loop'[q] = loop[q]
    BY <1>1, <2>1 DEF IInv, TypeOK
  <2>3. TypeOK'
    <3>1. /\ status' \in [Ids -> Statuses \cup {"absent"}]
          /\ watched' \in [Ids -> Statuses]
      BY <2>1 DEF IInv, TypeOK, Statuses
    <3>2. CancelToken(i) \in Nat
      BY DEF CancelToken, IInv, TypeOK
    <3>3. /\ subagent' \in [Runs -> Ids \cup {0}] /\ given' \in [Runs -> Nat]
          /\ loop' \in [Runs -> {"none", "starting", "working", "ended", "closed"}]
          /\ drain' \in [Runs -> {"none", "draining", "done"}]
      BY <1>1, <2>1, <3>2 DEF IInv, TypeOK
    <3>4. call' \in [op : {"free", "send", "join", "wait"},
                     id : Ids \cup {0}, run : Runs \cup {0}]
      BY <1>1, <2>1 DEF NoCall, Joining
    <3> QED
      BY <1>1, <1>5, <2>1, <3>1, <3>3, <3>4 DEF IInv, TypeOK
  <2>4. Fresh'
    <3>1. \A j \in Ids : j >= nextId' => status'[j] = "absent"
      BY <1>1, <2>1 DEF IInv, TypeOK, Fresh
    <3>2. \A q \in Runs : q > sent' => drain'[q] = "none"
      BY <1>1, <2>2 DEF IInv, Fresh, Runs
    <3> QED
      BY <3>1, <3>2 DEF Fresh
  <2>5. Started'
    BY <1>1, <2>1, <2>2 DEF IInv, Started
  <2>6. CallOk' /\ JoinedIsNotRunning'
    BY <1>1, <2>1, <2>2 DEF CallOk, JoinedIsNotRunning, NoCall, Joining
  <2>7. RunningIsDrained'
    <3> SUFFICES ASSUME NEW j \in Ids, status'[j] = "Running"
                 PROVE  \E q \in Runs : subagent'[q] = j /\ drain'[q] = "draining"
      BY DEF RunningIsDrained, Running, RunsOf
    <3>1. CASE j = i
      BY <1>1, <2>2, <3>1
    <3>2. CASE j # i
      <4>1. PICK q \in Runs : subagent[q] = j /\ drain[q] = "draining"
        BY <2>1, <3>2 DEF IInv, TypeOK, RunningIsDrained, Running, RunsOf
      <4> QED
        BY <1>4, <2>2, <4>1
    <3> QED
      BY <3>1, <3>2
  <2>8. Origins'
    BY <1>3, <2>1 DEF Origins
  <2>9. Conserved'
    <3> SUFFICES ASSUME NEW q \in Runs, drain'[q] # "none"
                 PROVE  Count(history'[subagent'[q]], Reply(q))
                          + Count(stream[q], Reply(q)) = replies[q]
      BY <2>1 DEF Conserved
    <3>1. CASE q = r
      <4>1. history[i] \in Seq(Messages)
        BY DEF IInv, TypeOK
      <4>2. \A k \in 1..Len(history[i]) : history[i][k] # Reply(r)
        <5>1. Reply(r).run = sent + 1
          BY MessagesDiffer
        <5>2. \A k \in 1..Len(history[i]) : history[i][k].run <= sent
          BY DEF IInv, Origins
        <5>3. sent \in Nat
          BY <1>1
        <5> SUFFICES ASSUME NEW k \in 1..Len(history[i]), history[i][k] = Reply(r)
                     PROVE  FALSE
          OBVIOUS
        <5>4. history[i][k].run = sent + 1 /\ history[i][k].run <= sent
          BY <5>1, <5>2
        <5> QED
          BY <5>3, <5>4
      <4>3. Count(history[i], Reply(r)) = 0
        BY <4>1, <4>2, CountZero
      <4>4. Count(stream[r], Reply(r)) = 0
        BY <1>4, CountEmpty
      <4> QED
        BY <1>1, <1>2, <1>4, <2>2, <3>1, <4>3, <4>4
    <3>2. CASE q # r
      <4>1. drain[q] # "none" /\ subagent[q] \in Ids /\ subagent'[q] = subagent[q]
        BY <2>2, <3>2 DEF IInv, Started
      <4> QED
        BY <1>2, <4>1 DEF IInv, Conserved
    <3> QED
      BY <3>1, <3>2
  <2> QED
    BY <2>3, <2>4, <2>5, <2>6, <2>7, <2>8, <2>9 DEF IInv
<1> QED
  BY <1>6, <1>7 DEF Deliver

-----------------------------------------------------------------------------
(* The agent loops.                                                        *)

LEMMA EmitIInv ==
  ASSUME IInv, NEW r \in Runs, loop[r] \in {"starting", "working"},
         NEW e \in Events, e.run = r, Emit(r, e),
         NEW l \in {"working", "ended"}, loop' = [loop EXCEPT ![r] = l],
         replies' \in [Runs -> 0..MaxReplies],
         \A q \in Runs : replies'[q] = replies[q] + (IF e = Reply(q) THEN 1 ELSE 0),
         UNCHANGED <<nextId, runtimeVars, sent, subagent, given, drain, call>>
  PROVE  IInv'
<1>1. /\ UNCHANGED <<nextId, status, watched, history, token, fired, sent,
                     subagent, given, drain, call>>
      /\ stream' = [stream EXCEPT ![r] = Append(@, e)]
  BY DEF runtimeVars, Emit
<1>2. drain[r] = "draining"
  BY DEF IInv, TypeOK, Started
<1>3. /\ stream \in [Runs -> Seq(Events)] /\ stream' \in [Runs -> Seq(Events)]
      /\ stream'[r] = Append(stream[r], e)
      /\ \A q \in Runs : q # r => stream'[q] = stream[q] /\ loop'[q] = loop[q]
  BY <1>1 DEF IInv, TypeOK
<1>4. TypeOK'
  BY <1>1, <1>3 DEF IInv, TypeOK
<1>5. Fresh' /\ CallOk' /\ JoinedIsNotRunning' /\ RunningIsDrained'
  BY <1>1 DEF IInv, Fresh, CallOk, JoinedIsNotRunning, RunningIsDrained,
              Running, RunsOf
<1>6. Started'
  <2>1. \A q \in Runs : drain[q] = "none" => e # Reply(q)
    BY <1>2, MessagesDiffer
  <2>2. \A q \in Runs : drain[q] = "none" => replies'[q] = replies[q]
    BY <2>1 DEF IInv, TypeOK
  <2> QED
    BY <1>1, <1>2, <1>3, <2>2 DEF IInv, Started
<1>7. Origins'
  <2>1. \A k \in 1..Len(stream'[r]) : stream'[r][k].run = r
    <3>1. stream[r] \in Seq(Events) /\ \A k \in 1..Len(stream[r]) : stream[r][k].run = r
      BY <1>3 DEF IInv, Origins
    <3> QED
      BY <1>3, <3>1
  <2>2. \A q \in Runs : \A k \in 1..Len(stream'[q]) : stream'[q][k].run = q
    BY <1>3, <2>1 DEF IInv, Origins
  <2> QED
    BY <1>1, <2>2 DEF IInv, Origins
<1>8. Conserved'
  <2> SUFFICES ASSUME NEW q \in Runs, drain[q] # "none"
               PROVE  Count(history[subagent[q]], Reply(q))
                        + Count(stream'[q], Reply(q)) = replies'[q]
    BY <1>1 DEF Conserved
  <2>1. /\ Count(history[subagent[q]], Reply(q)) + Count(stream[q], Reply(q)) = replies[q]
        /\ history[subagent[q]] \in Seq(Messages) /\ stream[q] \in Seq(Events)
    BY <1>3 DEF IInv, TypeOK, Started, Conserved
  <2>2. /\ Count(history[subagent[q]], Reply(q)) \in Nat
        /\ Count(stream[q], Reply(q)) \in Nat
    BY <2>1, CountIsNat
  <2>3. Count(stream'[q], Reply(q))
          = Count(stream[q], Reply(q)) + (IF e = Reply(q) THEN 1 ELSE 0)
    <3>1. CASE q = r
      <4>1. Count(Append(stream[q], e), Reply(q))
              = Count(stream[q], Reply(q)) + (IF e = Reply(q) THEN 1 ELSE 0)
        BY <2>1, CountAppend
      <4> QED
        BY <1>3, <3>1, <4>1
    <3>2. CASE q # r
      <4>1. e # Reply(q)
        BY <3>2, MessagesDiffer
      <4> QED
        BY <1>3, <2>2, <3>2, <4>1
    <3> QED
      BY <3>1, <3>2
  <2>4. CASE e = Reply(q)
    BY <2>1, <2>2, <2>3, <2>4
  <2>5. CASE e # Reply(q)
    BY <2>1, <2>2, <2>3, <2>5
  <2> QED
    BY <2>4, <2>5
<1> QED
  BY <1>4, <1>5, <1>6, <1>7, <1>8 DEF IInv

LEMMA CloseIInv ==
  ASSUME IInv, NEW r \in Runs, loop[r] \in {"working", "ended"},
         loop' = [loop EXCEPT ![r] = "closed"],
         UNCHANGED <<nextId, runtimeVars, sent, subagent, given, replies, stream,
                     drain, call>>
  PROVE  IInv'
<1>1. UNCHANGED <<nextId, status, watched, history, token, fired, sent, subagent,
                  given, replies, stream, drain, call>>
  BY DEF runtimeVars
<1>2. TypeOK' /\ Started'
  BY <1>1 DEF IInv, TypeOK, Started
<1>3. Fresh' /\ CallOk' /\ JoinedIsNotRunning' /\ RunningIsDrained' /\ Origins'
      /\ Conserved'
  BY <1>1 DEF IInv, Fresh, CallOk, JoinedIsNotRunning, RunningIsDrained,
              Running, RunsOf, Origins, Conserved
<1> QED
  BY <1>2, <1>3 DEF IInv

LEMMA LoopIInv == ASSUME IInv, NEW r \in Runs, Loop(r) PROVE IInv'
<1>1. /\ {Prompt(r), Reply(r), AgentEnd(r)} \subseteq Events
      /\ Prompt(r).run = r /\ Reply(r).run = r /\ AgentEnd(r).run = r
      /\ \A q \in Runs : Prompt(r) # Reply(q) /\ AgentEnd(r) # Reply(q)
  BY MessagesDiffer
<1>2. replies \in [Runs -> 0..MaxReplies] /\ \A q \in Runs : replies[q] + 0 = replies[q]
  BY DEF IInv, TypeOK
<1>3. CASE LoopStarts(r)
  BY <1>1, <1>2, <1>3, EmitIInv DEF LoopStarts
<1>4. CASE LoopReplies(r)
  <2>1. replies' = [replies EXCEPT ![r] = @ + 1] /\ replies[r] < MaxReplies
    BY <1>4 DEF LoopReplies
  <2>2. replies' \in [Runs -> 0..MaxReplies]
    BY <1>2, <2>1
  <2>3. \A q \in Runs : Reply(r) = Reply(q) <=> q = r
    BY MessagesDiffer
  <2>4. \A q \in Runs :
          replies'[q] = replies[q] + (IF Reply(r) = Reply(q) THEN 1 ELSE 0)
    BY <1>2, <2>1, <2>3
  <2>5. UNCHANGED <<nextId, runtimeVars, sent, subagent, given, drain, call>>
        /\ loop[r] = "working" /\ Emit(r, Reply(r))
    BY <1>4 DEF LoopReplies
  <2>6. loop' = [loop EXCEPT ![r] = "working"]
    BY <1>4, <2>5 DEF LoopReplies, IInv, TypeOK
  <2> QED
    BY <1>1, <2>2, <2>4, <2>5, <2>6, EmitIInv
<1>5. CASE LoopEnds(r)
  BY <1>1, <1>2, <1>5, EmitIInv DEF LoopEnds
<1>6. CASE LoopCloses(r)
  BY <1>6, CloseIInv DEF LoopCloses
<1>7. CASE LoopPanics(r)
  BY <1>7, CloseIInv DEF LoopPanics
<1> QED
  BY <1>3, <1>4, <1>5, <1>6, <1>7 DEF Loop

-----------------------------------------------------------------------------
(* The drains.                                                             *)

(***************************************************************************)
(* Leaving Running makes a subagent Idle, and is all that it does.         *)
(***************************************************************************)
LEMMA LeavesRunning ==
  ASSUME IInv, NEW i \in Ids, LeaveRunning(i)
  PROVE  /\ status' \in [Ids -> Statuses \cup {"absent"}]
         /\ watched' \in [Ids -> Statuses]
         /\ status'[i] # "Running"
         /\ \A j \in Ids : status'[j] = status[j]
                         \/ (j = i /\ status[j] = "Running" /\ status'[j] = "Idle")
  BY DEF LeaveRunning, SetStatus, Publish, IInv, TypeOK, Statuses

LEMMA DrainEndsIInv == ASSUME IInv, NEW r \in Runs, DrainEnds(r) PROVE IInv'
<1> DEFINE i == subagent[r]
<1>1. /\ drain[r] = "draining" /\ stream[r] = <<>> /\ loop[r] = "closed"
      /\ drain' = [drain EXCEPT ![r] = "done"]
      /\ LeaveRunning(i)
      /\ UNCHANGED <<nextId, history, token, fired, sent, subagent, given, loop,
                     replies, stream, call>>
  BY DEF DrainEnds
<1>2. i \in Ids
  BY <1>1 DEF IInv, Started
<1>3. /\ status' \in [Ids -> Statuses \cup {"absent"}] /\ watched' \in [Ids -> Statuses]
      /\ status'[i] # "Running"
      /\ \A j \in Ids : status'[j] = status[j]
                      \/ (j = i /\ status[j] = "Running" /\ status'[j] = "Idle")
  BY <1>1, <1>2, LeavesRunning
<1>4. TypeOK' /\ Started'
  BY <1>1, <1>3 DEF IInv, TypeOK, Started
<1>5. Fresh' /\ Origins' /\ Conserved'
  BY <1>1, <1>3 DEF IInv, TypeOK, Fresh, Origins, Conserved
<1>6. CallOk' /\ JoinedIsNotRunning'
  BY <1>1, <1>3 DEF IInv, TypeOK, CallOk, JoinedIsNotRunning
<1>7. RunningIsDrained'
  <2> SUFFICES ASSUME NEW j \in Ids, status'[j] = "Running"
               PROVE  \E q \in Runs : subagent[q] = j /\ drain'[q] = "draining"
    BY <1>1 DEF RunningIsDrained, Running, RunsOf
  <2>1. j # i /\ status[j] = "Running"
    BY <1>3
  <2>2. PICK q \in Runs : subagent[q] = j /\ drain[q] = "draining"
    BY <2>1 DEF IInv, RunningIsDrained, Running, RunsOf
  <2>3. drain'[q] = "draining"
    BY <1>1, <2>1, <2>2 DEF IInv, TypeOK
  <2> QED
    BY <2>2, <2>3
<1> QED
  BY <1>4, <1>5, <1>6, <1>7 DEF IInv

LEMMA DrainIInv == ASSUME IInv, NEW r \in Runs, Drain(r) PROVE IInv'
<1> DEFINE i == subagent[r]
           e == Head(stream[r])
<1>1. /\ drain[r] = "draining" /\ stream[r] # <<>>
      /\ stream' = [stream EXCEPT ![r] = Tail(@)]
      /\ IF EndsRun(e) THEN LeaveRunning(i) /\ UNCHANGED history
         ELSE Record(i, e) /\ UNCHANGED <<status, watched>>
      /\ UNCHANGED <<nextId, token, fired, sent, subagent, given, loop, replies,
                     drain, call>>
  BY DEF Drain
<1>2. i \in Ids /\ stream[r] \in Seq(Events) /\ history \in [Ids -> Seq(Messages)]
  BY <1>1 DEF IInv, TypeOK, Started
<1>3. e \in Events /\ e.run = r /\ e = stream[r][1] /\ 1 \in 1..Len(stream[r])
  <2>1. e = stream[r][1] /\ 1 \in 1..Len(stream[r])
    BY <1>1, <1>2
  <2> QED
    BY <1>2, <2>1 DEF IInv, Origins
<1>4. r <= sent /\ r \in Nat /\ sent \in Nat
  BY <1>1 DEF IInv, TypeOK, Fresh, Runs
<1> HIDE DEF e
<1>5. /\ stream' \in [Runs -> Seq(Events)] /\ stream'[r] = Tail(stream[r])
      /\ \A q \in Runs : q # r => stream'[q] = stream[q]
  BY <1>1, <1>2 DEF IInv, TypeOK
<1>6. /\ status' \in [Ids -> Statuses \cup {"absent"}] /\ watched' \in [Ids -> Statuses]
      /\ \A j \in Ids : status'[j] = status[j]
                      \/ (j = i /\ status[j] = "Running" /\ status'[j] = "Idle")
  BY <1>1, <1>2, LeavesRunning DEF IInv, TypeOK
<1>7. /\ history' \in [Ids -> Seq(Messages)]
      /\ \/ history' = history /\ e.from = "loop"
         \/ /\ history'[i] = Append(history[i], e) /\ e \in Messages
            /\ \A j \in Ids : j # i => history'[j] = history[j]
  <2>1. CASE EndsRun(e)
    BY <1>1, <1>2, <2>1 DEF EndsRun
  <2>2. CASE ~EndsRun(e)
    <3>1. e \in Messages
      BY <1>3, <2>2 DEF EndsRun, Events, Messages
    <3>2. history' = [history EXCEPT ![i] = Append(@, e)]
      BY <1>1, <2>2 DEF Record
    <3> HIDE DEF i
    <3>3. Append(history[i], e) \in Seq(Messages)
      BY <1>2, <3>1
    <3> QED
      BY <1>2, <3>1, <3>2, <3>3
  <2> QED
    BY <2>1, <2>2
<1>8. TypeOK'
  BY <1>1, <1>5, <1>6, <1>7 DEF IInv, TypeOK
<1>9. Fresh' /\ Started' /\ CallOk'
  <2>1. Fresh'
    BY <1>1, <1>6 DEF IInv, Fresh
  <2>2. Started'
    BY <1>1, <1>5 DEF IInv, Started
  <2>3. CallOk'
    BY <1>1 DEF IInv, CallOk
  <2> QED
    BY <2>1, <2>2, <2>3
<1>10. JoinedIsNotRunning'
  BY <1>1, <1>6 DEF IInv, JoinedIsNotRunning, CallOk
<1>11. RunningIsDrained'
  BY <1>1, <1>6 DEF IInv, TypeOK, RunningIsDrained, Running, RunsOf
<1>12. Origins'
  <2>1. \A q \in Runs : \A k \in 1..Len(stream'[q]) : stream'[q][k].run = q
    <3>1. \A k \in 1..Len(stream[r]) : stream[r][k].run = r
      BY DEF IInv, Origins
    <3>2. \A k \in 1..Len(Tail(stream[r])) :
            k + 1 \in 1..Len(stream[r]) /\ Tail(stream[r])[k] = stream[r][k + 1]
      BY <1>1, <1>2
    <3>3. \A k \in 1..Len(stream'[r]) : stream'[r][k].run = r
      BY <1>5, <3>1, <3>2
    <3> QED
      BY <1>5, <3>3 DEF IInv, Origins
  <2>2. \A k \in 1..Len(history'[i]) : history'[i][k].run <= sent
    <3>1. history[i] \in Seq(Messages)
          /\ \A k \in 1..Len(history[i]) : history[i][k].run <= sent
      BY <1>2 DEF IInv, Origins
    <3>2. CASE history' = history
      BY <3>1, <3>2
    <3>3. CASE history'[i] = Append(history[i], e) /\ e \in Messages
      <4>1. \A k \in 1..Len(history'[i]) :
              \/ k \in 1..Len(history[i]) /\ history'[i][k] = history[i][k]
              \/ history'[i][k] = e
        BY <3>1, <3>3
      <4> QED
        BY <1>3, <1>4, <3>1, <4>1
    <3> QED
      BY <1>7, <3>2, <3>3
  <2>3. \A j \in Ids : \A k \in 1..Len(history'[j]) : history'[j][k].run <= sent
    BY <1>7, <2>2 DEF IInv, Origins
  <2> QED
    BY <1>1, <2>1, <2>3 DEF Origins
<1>13. Conserved'
  <2> SUFFICES ASSUME NEW q \in Runs, drain[q] # "none"
               PROVE  Count(history'[subagent[q]], Reply(q))
                        + Count(stream'[q], Reply(q)) = replies[q]
    BY <1>1 DEF Conserved
  <2> DEFINE j == subagent[q]
             one == IF e = Reply(q) THEN 1 ELSE 0
  <2>1. /\ j \in Ids /\ history[j] \in Seq(Messages) /\ stream[q] \in Seq(Events)
        /\ Count(history[j], Reply(q)) + Count(stream[q], Reply(q)) = replies[q]
    BY <1>2 DEF IInv, TypeOK, Started, Conserved
  <2>2. /\ Count(history[j], Reply(q)) \in Nat /\ Count(stream[q], Reply(q)) \in Nat
        /\ one \in {0, 1}
    BY <2>1, CountIsNat
  <2>3. q # r => e # Reply(q)
    BY <1>3, MessagesDiffer
  <2>4. Count(stream'[q], Reply(q)) + one = Count(stream[q], Reply(q))
    <3>1. CASE q = r
      <4>1. Count(stream[r], Reply(r))
              = Count(Tail(stream[r]), Reply(r)) + (IF Head(stream[r]) = Reply(r) THEN 1 ELSE 0)
        BY <1>1, <1>2, CountTail
      <4> QED
        BY <1>5, <3>1, <4>1 DEF e
    <3>2. CASE q # r
      BY <1>5, <2>2, <2>3, <3>2
    <3> QED
      BY <3>1, <3>2
  <2>5. Count(history'[j], Reply(q)) = Count(history[j], Reply(q)) + one
    <3>1. CASE history' = history /\ e.from = "loop"
      <4>1. e # Reply(q)
        BY <3>1 DEF Reply
      <4> QED
        BY <2>2, <3>1, <4>1
    <3>2. CASE /\ history'[i] = Append(history[i], e) /\ e \in Messages
               /\ \A h \in Ids : h # i => history'[h] = history[h]
      <4>1. CASE j = i
        <5>1. Count(Append(history[i], e), Reply(q))
                = Count(history[i], Reply(q)) + (IF e = Reply(q) THEN 1 ELSE 0)
          BY <2>1, <3>2, <4>1, CountAppend
        <5> QED
          BY <3>2, <4>1, <5>1
      <4>2. CASE j # i
        <5>1. e # Reply(q)
          BY <2>3, <4>2
        <5> QED
          BY <2>1, <2>2, <3>2, <4>2, <5>1
      <4> QED
        BY <4>1, <4>2
    <3> QED
      BY <1>7, <3>1, <3>2
  <2>6. Count(stream'[q], Reply(q)) \in Nat
    BY <1>5, CountIsNat
  <2> HIDE DEF one
  <2> QED
    BY <2>1, <2>2, <2>4, <2>5, <2>6
<1> QED
  BY <1>8, <1>9, <1>10, <1>11, <1>12, <1>13 DEF IInv

-----------------------------------------------------------------------------
LEMMA NextIInv == IInv /\ [Next]_vars => IInv'
<1> SUFFICES ASSUME IInv, [Next]_vars PROVE IInv'
  OBVIOUS
<1>1. CASE Spawn
  BY <1>1, SpawnIInv
<1>2. CASE SendAfterSpawn
  BY <1>2, DeliverIInv DEF SendAfterSpawn, IInv, CallOk
<1>3. CASE JoinReturns \/ WaitReturns \/ CallDropped
  BY <1>3, CallChanges DEF JoinReturns, WaitReturns, CallDropped
<1>4. ASSUME NEW i \in Ids, Send(i) \/ Wait(i) \/ Abort(i) PROVE IInv'
  BY <1>4, DeliverIInv, CallChanges, AbortIInv DEF Send, Wait
<1>5. ASSUME NEW r \in Runs, Loop(r) \/ Drain(r) \/ DrainEnds(r) PROVE IInv'
  BY <1>5, LoopIInv, DrainIInv, DrainEndsIInv
<1>6. CASE UNCHANGED vars
  BY <1>6, StutterIInv
<1> QED
  BY <1>1, <1>2, <1>3, <1>4, <1>5, <1>6 DEF Next, Tool

(***************************************************************************)
(* IInv holds of every step of the manager, its loops and their drains.    *)
(***************************************************************************)
THEOREM ManagerInvariant == Spec => []IInv
BY InitIInv, NextIInv, PTL DEF Spec

(***************************************************************************)
(* Every variable of the manager keeps its type; in particular the drain   *)
(* never adds the loop's end to a history.                                 *)
(***************************************************************************)
THEOREM ManagerTypeCorrect == Spec => []TypeOK
<1>1. IInv => TypeOK
  BY DEF IInv
<1> QED
  BY <1>1, ManagerInvariant, PTL

(***************************************************************************)
(* A running subagent always has a drain that will take it out of Running, *)
(* for any number of subagents and of runs that overlap.                   *)
(***************************************************************************)
THEOREM RunningDrained == Spec => []RunningIsDrained
<1>1. IInv => RunningIsDrained
  BY DEF IInv
<1> QED
  BY <1>1, ManagerInvariant, PTL

(***************************************************************************)
(* send(.., wait = true) never returns while its subagent is running.      *)
(***************************************************************************)
THEOREM JoinedNotRunning == Spec => []JoinedIsNotRunning
<1>1. IInv => JoinedIsNotRunning
  BY DEF IInv
<1> QED
  BY <1>1, ManagerInvariant, PTL

(***************************************************************************)
(* What the manager tells of a run is true: Running has a drain that will  *)
(* end it, and a send that waited comes back to a subagent at rest.        *)
(***************************************************************************)
THEOREM StatusFollows == Spec => []StatusFollowsTheDrain
<1>1. TypeOK /\ RunningIsDrained /\ JoinedIsNotRunning => StatusFollowsTheDrain
  BY DEF StatusFollowsTheDrain
<1> QED
  BY <1>1, ManagerTypeCorrect, RunningDrained, JoinedNotRunning, PTL

(***************************************************************************)
(* A drained run has left every message of the model in its subagent's     *)
(* history, exactly once, whatever aborts and later runs came in between.  *)
(***************************************************************************)
THEOREM RepliesKept == Spec => []NoReplyIsLost
<1>1. IInv => NoReplyIsLost
  <2> SUFFICES ASSUME IInv, NEW r \in Runs, drain[r] = "done"
               PROVE  Count(history[subagent[r]], Reply(r)) = replies[r]
    BY DEF NoReplyIsLost, Count, Positions
  <2>1. stream[r] = <<>> /\ history[subagent[r]] \in Seq(Messages)
    BY DEF IInv, TypeOK, Started
  <2>2. Count(history[subagent[r]], Reply(r)) \in Nat /\ Count(stream[r], Reply(r)) = 0
    BY <2>1, CountIsNat, CountEmpty
  <2> QED
    BY <2>2 DEF IInv, Conserved
<1> QED
  BY <1>1, ManagerInvariant, PTL

(***************************************************************************)
(* abort() is final: no step of the tool, a loop or a drain takes a        *)
(* subagent out of Aborted.                                                *)
(***************************************************************************)
THEOREM AbortFinal == Spec => AbortedIsFinal
<1> DEFINE Final == \A i \in Ids : status[i] = "Aborted" => status'[i] = "Aborted"
<1>1. IInv /\ [Next]_vars => [Final]_vars
  <2> SUFFICES ASSUME IInv, Next, NEW i \in Ids, status[i] = "Aborted"
               PROVE  status'[i] = "Aborted"
    OBVIOUS
  <2>1. CASE Spawn
    <3>1. status[nextId] = "absent" /\ status \in [Ids -> Statuses \cup {"absent"}]
      BY <2>1 DEF Spawn, IInv, TypeOK, Fresh, Ids
    <3> QED
      BY <2>1, <3>1 DEF Spawn
  <2>2. ASSUME NEW j \in Ids, Deliver(j) PROVE status'[i] = "Aborted"
    BY <2>2 DEF Deliver, Sendable, ConfigFails, StartRun, SetStatus, IInv, TypeOK
  <2>3. CASE SendAfterSpawn
    BY <2>2, <2>3 DEF SendAfterSpawn, IInv, CallOk
  <2>4. CASE JoinReturns \/ WaitReturns \/ CallDropped
    BY <2>4 DEF JoinReturns, WaitReturns, CallDropped, runtimeVars
  <2>5. ASSUME NEW j \in Ids, Send(j) \/ Wait(j) \/ Abort(j)
        PROVE  status'[i] = "Aborted"
    BY <2>2, <2>5 DEF Send, Wait, Abort, SetStatus, runtimeVars, IInv, TypeOK
  <2>6. ASSUME NEW r \in Runs, Loop(r) PROVE status'[i] = "Aborted"
    BY <2>6 DEF Loop, LoopStarts, LoopReplies, LoopEnds, LoopCloses, LoopPanics,
                runtimeVars
  <2>7. ASSUME NEW r \in Runs, Drain(r) \/ DrainEnds(r)
        PROVE  status'[i] = "Aborted"
    BY <2>7 DEF Drain, DrainEnds, LeaveRunning, SetStatus, IInv, TypeOK
  <2> QED
    BY <2>1, <2>3, <2>4, <2>5, <2>6, <2>7 DEF Next, Tool
<1> QED
  BY <1>1, ManagerInvariant, PTL DEF Spec, AbortedIsFinal
=============================================================================
