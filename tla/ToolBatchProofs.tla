--------------------------- MODULE ToolBatchProofs ---------------------------
(***************************************************************************)
(* Proofs about ToolBatch, for every number of calls and permits.  The     *)
(* invariant IInv says how far each executor has come in terms of the      *)
(* lengths of entries and finalized; everything else follows from it.      *)
(***************************************************************************)
EXTENDS ToolBatch, TLAPS

(***************************************************************************)
(* Which executor can be where.                                            *)
(***************************************************************************)
Places ==
  /\ (\E c \in Calls : kind[c] = "sequential") => mode = "sequential"
  /\ mode = "sequential" => pc # "await" /\ entries = <<>>
  /\ mode = "parallel" => pc \notin {"exec", "crashed"}
  /\ pc \in {"hook", "exec"} => cur <= NumCalls

(***************************************************************************)
(* Entries and outcomes belong to the calls in source order.               *)
(***************************************************************************)
InOrder ==
  /\ \A k \in 1..Len(entries) : entries[k].call = k
  /\ \A k \in 1..Len(finalized) : finalized[k].call = k

(***************************************************************************)
(* How many there are.                                                     *)
(***************************************************************************)
Progress ==
  /\ mode = "sequential" => Len(finalized) = cur - 1
  /\ mode = "parallel" =>
       /\ Len(finalized) <= Len(entries)
       /\ Len(entries) <= NumCalls
       /\ pc \in {"next", "hook"} => finalized = <<>> /\ Len(entries) = cur - 1
       /\ pc \in {"await", "returned"} => cancelled \/ Len(entries) = NumCalls
       /\ pc = "returned" => Len(finalized) = Len(entries)
  /\ pc = "returned" /\ mode = "sequential" => cancelled \/ cur = NumCalls + 1

(***************************************************************************)
(* The calls at whose head the loop has been.                              *)
(***************************************************************************)
Begun == Len(IF mode = "sequential" THEN finalized ELSE entries)
         + (IF pc \in {"hook", "exec", "crashed"} THEN 1 ELSE 0)
Starts == started = 1..Begun

Ended(c) ==
  IF mode = "sequential" THEN c <= Len(finalized)
  ELSE \/ c <= Len(finalized)
       \/ c <= Len(entries) /\ entries[c].way # "pending"
Ends == \A c \in Calls : ends[c] = IF Ended(c) THEN 1 ELSE 0

(***************************************************************************)
(* Which tools may be at work.                                             *)
(***************************************************************************)
Tasks ==
  /\ mode = "sequential" =>
       \A c \in Calls : task[c] \in Active \cup Aborting =>
         pc = "exec" /\ c = cur /\ task[c] = "running"
  /\ mode = "parallel" =>
       \A c \in Calls :
         /\ task[c] # "none" => c <= Len(entries) /\ entries[c].way = "pending"
         /\ task[c] \in Active => c > Len(finalized)
         /\ task[c] \in Aborting => c <= Len(finalized) /\ cancelled

Late == \A c \in late : mode = "parallel" /\ cancelled /\ c <= Len(finalized)

IInv == TypeOK /\ Places /\ InOrder /\ Progress /\ Starts /\ Ends /\ Tasks /\ Late

-----------------------------------------------------------------------------
USE BatchAssumption DEF Calls

LEMMA InitIInv == Init => IInv
  BY DEF Init, IInv, TypeOK, Places, InOrder, Progress, Starts, Begun, Ends,
         Ended, Tasks, Late, Executor, ToolKinds, TaskStates, Active, Aborting,
         ToolReturns

(***************************************************************************)
(* What appending does to a sequence.                                      *)
(***************************************************************************)
LEMMA Appended ==
  ASSUME NEW S, NEW s \in Seq(S), NEW e \in S, NEW t, t = Append(s, e)
  PROVE  /\ t \in Seq(S)
         /\ Len(t) = Len(s) + 1
         /\ \A k \in 1..Len(s) : t[k] = s[k]
         /\ t[Len(s) + 1] = e
  OBVIOUS

(***************************************************************************)
(* The sequential executor is through with a call, one way or another.     *)
(***************************************************************************)
LEMMA SequentialCallEnds ==
  ASSUME IInv, mode = "sequential", cur <= NumCalls,
         pc \in {"next", "hook", "exec"},
         NEW f \in Finalized, f.call = cur, finalized' = Append(finalized, f),
         EmitEnd(cur), pc' = "next", cur' = cur + 1,
         started' = started \cup {cur},
         task' \in [Calls -> TaskStates],
         \A c \in Calls : task'[c] \notin Active \cup Aborting,
         UNCHANGED <<kind, mode, cancelled, entries, late>>
  PROVE  IInv'
<1>1. finalized \in Seq(Finalized) /\ cur \in Calls
  BY DEF IInv, TypeOK
<1>2. /\ finalized' \in Seq(Finalized)
      /\ Len(finalized') = Len(finalized) + 1
      /\ \A k \in 1..Len(finalized) : finalized'[k] = finalized[k]
      /\ finalized'[Len(finalized) + 1] = f
  BY <1>1, Appended
<1>3. Len(finalized) = cur - 1 /\ Len(finalized) \in Nat
  BY <1>1 DEF IInv, Progress
<1>4. ends' = [ends EXCEPT ![cur] = @ + 1]
  BY DEF EmitEnd
<1> QED
  BY <1>1, <1>2, <1>3, <1>4
     DEF IInv, TypeOK, Places, InOrder, Progress, Starts, Begun, Ends, Ended,
         Tasks, Late

(***************************************************************************)
(* The parallel executor prepares an entry whose tool will not run.        *)
(***************************************************************************)
LEMMA ImmediateEntryPushed ==
  ASSUME IInv, mode = "parallel", cur <= NumCalls, pc \in {"next", "hook"},
         NEW w \in Immediate, PushEntry(cur, w), EmitEnd(cur),
         \/ pc' = "next" /\ cur' = cur + 1
         \/ pc' = "await" /\ cur' = cur /\ cancelled,
         started' = started \cup {cur},
         UNCHANGED <<kind, mode, cancelled, task, finalized, late>>
  PROVE  IInv'
<1> DEFINE e == [call |-> cur, way |-> w]
<1>1. entries \in Seq(PreparedEntry) /\ cur \in Calls
  BY DEF IInv, TypeOK
<1>2. e \in PreparedEntry /\ e.call = cur /\ e.way # "pending"
  BY <1>1 DEF PreparedEntry, Immediate
<1>3. entries' = Append(entries, e)
  BY DEF PushEntry
<1> HIDE DEF e
<1>4. /\ entries' \in Seq(PreparedEntry)
      /\ Len(entries') = Len(entries) + 1
      /\ \A k \in 1..Len(entries) : entries'[k] = entries[k]
      /\ entries'[Len(entries) + 1] = e
  BY <1>1, <1>2, <1>3, Appended
<1>5. cur = Len(entries) + 1 /\ Len(entries) \in Nat
      /\ finalized = <<>> /\ Len(finalized) = 0
  BY <1>1 DEF IInv, Progress
<1>6. ends' = [ends EXCEPT ![cur] = @ + 1]
  BY DEF EmitEnd
<1>7. TypeOK' /\ Places'
  <2>1. ends' \in [Calls -> Nat]
    BY <1>1, <1>6 DEF IInv, TypeOK
  <2>2. cur' \in 1..(NumCalls + 1) /\ pc' \in {"next", "await"}
        /\ started' \subseteq Calls
    BY <1>1 DEF IInv, TypeOK
  <2>3. TypeOK'
    BY <1>4, <2>1, <2>2 DEF IInv, TypeOK
  <2>4. Places'
    BY <2>2 DEF IInv, Places
  <2> QED
    BY <2>3, <2>4
<1>8. InOrder'
  BY <1>2, <1>4, <1>5 DEF IInv, InOrder
<1>9. Progress'
  BY <1>1, <1>4, <1>5 DEF IInv, Progress
<1>10. Starts'
  BY <1>1, <1>4, <1>5 DEF IInv, Starts, Begun
<1>11. ASSUME NEW c \in Calls PROVE ends'[c] = IF Ended(c)' THEN 1 ELSE 0
  <2>1. ends[c] = IF c <= Len(entries) /\ entries[c].way # "pending" THEN 1 ELSE 0
    BY <1>5 DEF IInv, Ends, Ended
  <2>2. CASE c = cur
    BY <1>2, <1>4, <1>5, <1>6, <2>1, <2>2 DEF IInv, TypeOK, Ended
  <2>3. CASE c # cur
    BY <1>2, <1>4, <1>5, <1>6, <2>1, <2>3 DEF IInv, TypeOK, Ended
  <2> QED
    BY <2>2, <2>3
<1>12. Tasks'
  BY <1>1, <1>4, <1>5 DEF IInv, TypeOK, Tasks, Active, Aborting
<1>13. Late'
  BY <1>5 DEF IInv, Late
<1> QED
  BY <1>7, <1>8, <1>9, <1>10, <1>11, <1>12, <1>13 DEF IInv, Ends

(***************************************************************************)
(* A call that ends without its tool having run, under either executor.    *)
(***************************************************************************)
LEMMA EndWithoutRunningIInv ==
  ASSUME IInv, cur <= NumCalls, pc \in {"next", "hook"},
         NEW w \in Immediate, EndWithoutRunning(cur, w),
         \/ pc' = "next" /\ cur' = cur + 1
         \/ pc' = "await" /\ cur' = cur /\ cancelled /\ mode = "parallel",
         started' = started \cup {cur},
         UNCHANGED <<kind, mode, cancelled, task, late>>
  PROVE  IInv'
<1> DEFINE f == MakeErrorFinalized(cur, w)
<1>1. cur \in Calls /\ mode \in {"sequential", "parallel"}
  BY DEF IInv, TypeOK
<1>2. f \in Finalized /\ f.call = cur
  BY <1>1 DEF MakeErrorFinalized, Finalized, Ways, Immediate
<1>3. CASE mode = "sequential"
  <2>1. finalized' = Append(finalized, f) /\ EmitEnd(cur) /\ UNCHANGED entries
    BY <1>3 DEF EndWithoutRunning
  <2>2. task' \in [Calls -> TaskStates]
        /\ \A c \in Calls : task'[c] \notin Active \cup Aborting
    BY <1>3 DEF IInv, TypeOK, Tasks
  <2> HIDE DEF f
  <2> QED
    BY <1>2, <1>3, <2>1, <2>2, SequentialCallEnds
<1>4. CASE mode = "parallel"
  BY <1>4, ImmediateEntryPushed DEF EndWithoutRunning
<1> QED
  BY <1>1, <1>3, <1>4

-----------------------------------------------------------------------------
(* One lemma per action, or group of actions alike.                        *)

LEMMA StartCallIInv == IInv /\ StartCall => IInv'
<1> SUFFICES ASSUME IInv, StartCall PROVE IInv'
  OBVIOUS
<1>1. CASE kind[cur] = "missing"
  BY <1>1, EndWithoutRunningIInv DEF StartCall, Immediate
<1>2. CASE kind[cur] # "missing"
  <2>1. pc = "next" /\ pc' = "hook" /\ cur \in Calls /\ ~cancelled
        /\ started' = started \cup {cur}
        /\ UNCHANGED <<kind, mode, cur, cancelled, task, entries, finalized, ends, late>>
    BY <1>2 DEF StartCall, IInv, TypeOK
  <2>2. TypeOK' /\ Places' /\ InOrder' /\ Late'
    BY <2>1 DEF IInv, TypeOK, Places, InOrder, Late
  <2>3. Progress'
    BY <2>1 DEF IInv, TypeOK, Progress
  <2>4. Starts'
    <3>1. Begun = cur - 1 /\ Begun' = cur /\ cur \in Nat \ {0}
      BY <2>1 DEF IInv, TypeOK, Places, Progress, Begun
    <3> QED
      BY <2>1, <3>1 DEF IInv, Starts
  <2>5. Ends' /\ Tasks'
    BY <2>1 DEF IInv, TypeOK, Ends, Ended, Tasks
  <2> QED
    BY <2>2, <2>3, <2>4, <2>5 DEF IInv
<1> QED
  BY <1>1, <1>2

LEMMA LeaveCallsIInv == IInv /\ LeaveCalls => IInv'
<1> SUFFICES ASSUME IInv, LeaveCalls PROVE IInv'
  OBVIOUS
<1>1. /\ pc = "next" /\ (cur > NumCalls \/ cancelled)
      /\ pc' = IF mode = "sequential" THEN "returned" ELSE "await"
      /\ UNCHANGED <<kind, mode, cur, cancelled, task, entries, finalized,
                     started, ends, late>>
  BY DEF LeaveCalls
<1>2. TypeOK' /\ Places' /\ InOrder' /\ Late'
  BY <1>1 DEF IInv, TypeOK, Places, InOrder, Late
<1>3. Progress'
  BY <1>1 DEF IInv, TypeOK, Progress
<1>4. Starts'
  BY <1>1 DEF IInv, TypeOK, Starts, Begun
<1>5. Ends' /\ Tasks'
  BY <1>1 DEF IInv, TypeOK, Ends, Ended, Tasks
<1> QED
  BY <1>2, <1>3, <1>4, <1>5 DEF IInv

(***************************************************************************)
(* In the hook the call has begun, so ToolExecutionStart is not repeated.  *)
(***************************************************************************)
LEMMA BegunAlready ==
  ASSUME IInv, pc \in {"hook", "exec"}
  PROVE  cur <= NumCalls /\ started = started \cup {cur}
<1>1. cur <= NumCalls /\ cur \in Nat \ {0}
  BY DEF IInv, TypeOK, Places
<1>2. Begun = cur
  <2>1. CASE mode = "sequential"
    BY <1>1, <2>1 DEF IInv, TypeOK, Progress, Begun
  <2>2. CASE mode = "parallel"
    BY <1>1, <2>2 DEF IInv, TypeOK, Places, Progress, Begun
  <2> QED
    BY <2>1, <2>2 DEF IInv, TypeOK
<1> QED
  BY <1>1, <1>2 DEF IInv, Starts

LEMMA HookCancelledIInv == IInv /\ HookCancelled => IInv'
<1> SUFFICES ASSUME IInv, HookCancelled PROVE IInv'
  OBVIOUS
<1>1. cur <= NumCalls /\ started' = started \cup {cur}
  BY BegunAlready DEF HookCancelled
<1> QED
  BY <1>1, EndWithoutRunningIInv DEF HookCancelled, Immediate, IInv, TypeOK

LEMMA HookBlocksIInv == IInv /\ HookBlocks => IInv'
<1> SUFFICES ASSUME IInv, HookBlocks PROVE IInv'
  OBVIOUS
<1>1. cur <= NumCalls /\ started' = started \cup {cur}
  BY BegunAlready DEF HookBlocks
<1> QED
  BY <1>1, EndWithoutRunningIInv DEF HookBlocks, Immediate

LEMMA HookAllowsIInv == IInv /\ HookAllows => IInv'
<1> SUFFICES ASSUME IInv, HookAllows PROVE IInv'
  OBVIOUS
<1>1. cur \in Calls /\ mode \in {"sequential", "parallel"} /\ pc = "hook"
  BY DEF HookAllows, IInv, TypeOK, Places
<1>2. CASE mode = "sequential"
  <2>1. /\ task' = [task EXCEPT ![cur] = "running"] /\ pc' = "exec"
        /\ UNCHANGED <<kind, mode, cur, cancelled, entries, finalized, started,
                       ends, late>>
    BY <1>2 DEF HookAllows
  <2>2. TypeOK' /\ Places' /\ InOrder' /\ Late'
    BY <1>1, <1>2, <2>1 DEF IInv, TypeOK, Places, InOrder, Late, TaskStates
  <2>3. Progress' /\ Starts'
    BY <1>1, <1>2, <2>1 DEF IInv, Progress, Starts, Begun
  <2>4. Ends' /\ Tasks'
    BY <1>1, <1>2, <2>1
       DEF IInv, TypeOK, Ends, Ended, Tasks, Active, Aborting
  <2> QED
    BY <2>2, <2>3, <2>4 DEF IInv
<1>3. CASE mode = "parallel"
  <2> DEFINE e == [call |-> cur, way |-> "pending"]
  <2>1. /\ entries' = Append(entries, e) /\ task' = [task EXCEPT ![cur] = "queued"]
        /\ pc' = "next" /\ cur' = cur + 1
        /\ UNCHANGED <<kind, mode, cancelled, finalized, started, ends, late>>
    BY <1>3 DEF HookAllows, PushEntry
  <2>2. e \in PreparedEntry /\ e.call = cur /\ e.way = "pending"
        /\ entries \in Seq(PreparedEntry)
    BY <1>1 DEF PreparedEntry, IInv, TypeOK
  <2> HIDE DEF e
  <2>3. /\ entries' \in Seq(PreparedEntry)
        /\ Len(entries') = Len(entries) + 1
        /\ \A k \in 1..Len(entries) : entries'[k] = entries[k]
        /\ entries'[Len(entries) + 1] = e
    BY <2>1, <2>2, Appended
  <2>4. cur = Len(entries) + 1 /\ Len(entries) \in Nat
        /\ finalized = <<>> /\ Len(finalized) = 0
    BY <1>1, <1>3, <2>2 DEF IInv, Progress
  <2>5. TypeOK' /\ Places' /\ Progress' /\ Starts'
    BY <1>1, <1>3, <2>1, <2>3, <2>4
       DEF IInv, TypeOK, Places, Progress, Starts, Begun, TaskStates
  <2>6. InOrder' /\ Late'
    BY <1>1, <2>1, <2>2, <2>3, <2>4 DEF IInv, InOrder, Late
  <2>7. Ends'
    BY <1>1, <1>3, <2>1, <2>2, <2>3, <2>4 DEF IInv, TypeOK, Ends, Ended
  <2>8. Tasks'
    BY <1>1, <1>3, <2>1, <2>2, <2>3, <2>4
       DEF IInv, TypeOK, Tasks, Active, Aborting
  <2> QED
    BY <2>5, <2>6, <2>7, <2>8 DEF IInv
<1> QED
  BY <1>1, <1>2, <1>3


LEMMA OutcomesAreFinalized ==
  ASSUME NEW c \in Calls, NEW r \in ToolReturns,
         NEW f \in ApplyPostToolUse(Executed(c, r))
  PROVE  f \in Finalized /\ f.call = c
<1> DEFINE x == Executed(c, r)
<1>1. x \in Finalized /\ x.call = c
  BY DEF Executed, Finalized, Ways
<1> HIDE DEF x
<1>2. CASE PostHookSet
  BY <1>1, <1>2 DEF ApplyPostToolUse, Finalized, x
<1>3. CASE ~PostHookSet
  BY <1>1, <1>3 DEF ApplyPostToolUse, x
<1> QED
  BY <1>2, <1>3

LEMMA ExecEndsIInv == IInv /\ (ExecCancelled \/ ExecReturns) => IInv'
<1> SUFFICES ASSUME IInv, ExecCancelled \/ ExecReturns PROVE IInv'
  OBVIOUS
<1>1. pc = "exec" /\ mode = "sequential" /\ cur \in Calls
      /\ started = started \cup {cur}
  BY BegunAlready DEF ExecCancelled, ExecReturns, IInv, TypeOK, Places
<1>2. ASSUME NEW r \in ToolReturns \cup {"dropped"}, NEW f \in Finalized,
             task' = [task EXCEPT ![cur] = r], f.call = cur, FinishSequential(f)
      PROVE  IInv'
  <2>1. task' \in [Calls -> TaskStates]
        /\ \A c \in Calls : task'[c] \notin Active \cup Aborting
    BY <1>1, <1>2
       DEF IInv, TypeOK, Tasks, TaskStates, ToolReturns, Active, Aborting
  <2> QED
    BY <1>1, <1>2, <2>1, SequentialCallEnds DEF FinishSequential
<1>3. CASE ExecCancelled
  <2> DEFINE f == MakeErrorFinalized(cur, "cancelled")
  <2>1. f \in Finalized /\ f.call = cur
    BY <1>1 DEF MakeErrorFinalized, Finalized, Ways
  <2> QED
    BY <1>2, <1>3, <2>1 DEF ExecCancelled
<1>4. CASE ExecReturns
  <2>1. PICK r \in ToolReturns :
          /\ task' = [task EXCEPT ![cur] = r]
          /\ \E f \in ApplyPostToolUse(Executed(cur, r)) : FinishSequential(f)
    BY <1>4 DEF ExecReturns
  <2>2. PICK f \in ApplyPostToolUse(Executed(cur, r)) : FinishSequential(f)
    BY <2>1
  <2> QED
    BY <1>1, <1>2, <2>1, <2>2, OutcomesAreFinalized
<1> QED
  BY <1>3, <1>4

LEMMA ExecPanicsIInv == IInv /\ ExecPanics => IInv'
<1> SUFFICES ASSUME IInv, ExecPanics PROVE IInv'
  OBVIOUS
<1>1. /\ pc = "exec" /\ pc' = "crashed" /\ mode = "sequential" /\ cur \in Calls
      /\ task' = [task EXCEPT ![cur] = "panicked"]
      /\ UNCHANGED <<kind, mode, cur, cancelled, entries, finalized, started,
                     ends, late>>
  BY DEF ExecPanics, IInv, TypeOK, Places
<1>2. TypeOK' /\ Places' /\ InOrder' /\ Late'
  BY <1>1 DEF IInv, TypeOK, Places, InOrder, Late, TaskStates
<1>3. Progress' /\ Starts'
  BY <1>1 DEF IInv, Progress, Starts, Begun
<1>4. Ends' /\ Tasks'
  BY <1>1 DEF IInv, TypeOK, Ends, Ended, Tasks, Active, Aborting
<1> QED
  BY <1>2, <1>3, <1>4 DEF IInv

(***************************************************************************)
(* The parallel executor finalizes the next entry in source order.         *)
(***************************************************************************)
LEMMA EntryFinalized ==
  ASSUME IInv, pc = "await", Len(finalized) < Len(entries),
         NEW f \in Finalized, f.call = Awaited.call,
         finalized' = Append(finalized, f),
         task[Awaited.call] \notin Active,
         \/ Awaited.way = "pending" /\ EmitEnd(Awaited.call)
         \/ Awaited.way # "pending" /\ ends' = ends,
         UNCHANGED <<kind, mode, pc, cur, cancelled, task, entries, started, late>>
  PROVE  IInv'
<1> DEFINE n == Len(finalized) + 1
<1>1. finalized \in Seq(Finalized) /\ entries \in Seq(PreparedEntry)
      /\ mode = "parallel"
  BY DEF IInv, TypeOK, Places
<1>2. /\ finalized' \in Seq(Finalized)
      /\ Len(finalized') = n
      /\ \A k \in 1..Len(finalized) : finalized'[k] = finalized[k]
      /\ finalized'[n] = f
  BY <1>1, Appended
<1>3. n \in 1..Len(entries) /\ Awaited.call = n /\ Awaited = entries[n]
      /\ n \in Calls /\ n = Len(finalized) + 1 /\ Len(finalized) \in Nat
      /\ Len(entries) <= NumCalls
  BY <1>1 DEF IInv, InOrder, Progress, Awaited
<1> HIDE DEF n
<1>4. ends' \in [Calls -> Nat]
      /\ ends'[n] = (IF entries[n].way = "pending" THEN ends[n] + 1 ELSE ends[n])
      /\ \A c \in Calls : c # n => ends'[c] = ends[c]
  <2>1. ends \in [Calls -> Nat]
    BY DEF IInv, TypeOK
  <2>2. CASE entries[n].way = "pending"
    BY <1>3, <2>1, <2>2 DEF EmitEnd
  <2>3. CASE entries[n].way # "pending"
    BY <1>3, <2>1, <2>3
  <2> QED
    BY <2>2, <2>3
<1>5. TypeOK'
  BY <1>1, <1>2, <1>4 DEF IInv, TypeOK
<1>6. Places' /\ Late'
  BY <1>1, <1>2, <1>3 DEF IInv, TypeOK, Places, Late
<1>7. InOrder'
  BY <1>1, <1>2, <1>3 DEF IInv, InOrder
<1>8. Progress' /\ Starts'
  BY <1>1, <1>2, <1>3 DEF IInv, Progress, Starts, Begun
<1>9. ASSUME NEW c \in Calls PROVE ends'[c] = IF Ended(c)' THEN 1 ELSE 0
  <2>1. ends[c] = IF c <= Len(finalized) \/ (c <= Len(entries) /\ entries[c].way # "pending")
                  THEN 1 ELSE 0
    BY <1>1 DEF IInv, Ends, Ended
  <2>2. Ended(c)' <=> (c <= n \/ (c <= Len(entries) /\ entries[c].way # "pending"))
    BY <1>1, <1>2 DEF Ended
  <2>3. CASE c = n
    BY <1>3, <1>4, <2>1, <2>2, <2>3
  <2>4. CASE c # n
    BY <1>3, <1>4, <2>1, <2>2, <2>4
  <2> QED
    BY <2>3, <2>4
<1>10. Tasks'
  <2> SUFFICES ASSUME NEW c \in Calls
               PROVE  /\ task[c] # "none" => c <= Len(entries) /\ entries[c].way = "pending"
                      /\ task[c] \in Active => c > n
                      /\ task[c] \in Aborting => c <= n /\ cancelled
    BY <1>1, <1>2 DEF Tasks
  <2>1. /\ task[c] # "none" => c <= Len(entries) /\ entries[c].way = "pending"
        /\ task[c] \in Active => c > Len(finalized)
        /\ task[c] \in Aborting => c <= Len(finalized) /\ cancelled
    BY <1>1 DEF IInv, Tasks
  <2>2. task[n] \notin Active
    BY <1>3
  <2> QED
    BY <1>3, <2>1, <2>2
<1> QED
  BY <1>5, <1>6, <1>7, <1>8, <1>9, <1>10 DEF IInv, Ends

LEMMA AwaitIInv == IInv /\ (AwaitImmediate \/ AwaitJoined) => IInv'
<1> SUFFICES ASSUME IInv, AwaitImmediate \/ AwaitJoined PROVE IInv'
  OBVIOUS
<1>1. Awaited \in PreparedEntry /\ Awaited.call \in Calls /\ mode = "parallel"
      /\ Awaited = entries[Awaited.call]
  <2>1. entries \in Seq(PreparedEntry) /\ Len(finalized) + 1 \in 1..Len(entries)
        /\ finalized \in Seq(Finalized) /\ pc = "await"
    BY DEF AwaitImmediate, AwaitJoined, IInv, TypeOK
  <2>2. Awaited \in PreparedEntry /\ Awaited.call = Len(finalized) + 1
    BY <2>1 DEF Awaited, IInv, InOrder
  <2>3. mode = "parallel" /\ Awaited.call \in Calls
    BY <2>1, <2>2 DEF IInv, TypeOK, Places, PreparedEntry
  <2> QED
    BY <2>2, <2>3 DEF Awaited
<1>2. CASE AwaitImmediate
  <2> DEFINE f == MakeErrorFinalized(Awaited.call, Awaited.way)
  <2>1. f \in Finalized /\ f.call = Awaited.call /\ Awaited.way # "pending"
    BY <1>1, <1>2
       DEF AwaitImmediate, MakeErrorFinalized, Finalized, Ways, PreparedEntry,
           Immediate
  <2>2. task[Awaited.call] \notin Active
    BY <1>1, <2>1 DEF IInv, Tasks, Active
  <2> QED
    BY <1>2, <2>1, <2>2, EntryFinalized DEF AwaitImmediate
<1>3. CASE AwaitJoined
  <2> DEFINE c == Awaited.call
  <2>1. PICK f \in Finalized : f.call = c /\ finalized' = Append(finalized, f)
                               /\ task[c] \notin Active
    <3>1. CASE task[c] \in ToolReturns
      BY <1>1, <1>3, <3>1, OutcomesAreFinalized
         DEF AwaitJoined, ToolReturns, Active
    <3>2. CASE task[c] = "panicked"
      BY <1>1, <1>3, <3>2
         DEF AwaitJoined, MakeErrorFinalized, Finalized, Ways, Active,
             ToolReturns
    <3> QED
      BY <1>3, <3>1, <3>2 DEF AwaitJoined
  <2> QED
    BY <1>3, <2>1, EntryFinalized DEF AwaitJoined
<1> QED
  BY <1>2, <1>3

(***************************************************************************)
(* The cancellation drains all that is left of the entries at once.        *)
(***************************************************************************)
LEMMA DrainCancelledIInv == IInv /\ DrainCancelled => IInv'
<1> SUFFICES ASSUME IInv, DrainCancelled PROVE IInv'
  OBVIOUS
<1>1. /\ pc = "await" /\ cancelled
      /\ UNCHANGED <<kind, mode, pc, cur, cancelled, entries, started, late>>
  BY DEF DrainCancelled
<1>2. /\ mode = "parallel" /\ entries \in Seq(PreparedEntry)
      /\ finalized \in Seq(Finalized)
      /\ Len(finalized) \in Nat /\ Len(entries) \in Nat
      /\ Len(finalized) < Len(entries) /\ Len(entries) <= NumCalls
  BY <1>1 DEF IInv, TypeOK, Places, Progress, DrainCancelled
<1>3. \A k \in 1..Len(entries) :
        entries[k] \in PreparedEntry /\ entries[k].call = k /\ k \in Calls
  BY <1>2 DEF IInv, InOrder
<1>4. \A k \in 1..Len(entries) : Drained(k) \in Finalized /\ Drained(k).call = k
  BY <1>3 DEF Drained, MakeErrorFinalized, Finalized, Ways, PreparedEntry, Immediate
<1>5. /\ finalized' \in Seq(Finalized)
      /\ Len(finalized') = Len(entries)
      /\ \A k \in 1..Len(entries) : finalized'[k].call = k
  <2>1. finalized' = [k \in 1..Len(entries) |->
                        IF k <= Len(finalized) THEN finalized[k] ELSE Drained(k)]
    BY DEF DrainCancelled
  <2>2. \A k \in 1..Len(entries) :
          finalized'[k] \in Finalized /\ finalized'[k].call = k
    BY <1>2, <1>4, <2>1 DEF IInv, InOrder
  <2> QED
    BY <1>2, <2>1, <2>2
<1>6. \A c \in Calls : c \in AbortedNow <=>
        c > Len(finalized) /\ c <= Len(entries) /\ entries[c].way = "pending"
  <2> TAKE c \in Calls
  <2>1. c \in Remaining <=> c > Len(finalized) /\ c <= Len(entries)
    BY <1>2 DEF Remaining
  <2>2. Remaining \subseteq 1..Len(entries)
    BY DEF Remaining
  <2>3. c \in AbortedNow <=> c \in Remaining /\ entries[c].way = "pending"
    BY <1>3, <2>2 DEF AbortedNow
  <2> QED
    BY <2>1, <2>3
<1>7. /\ ends' \in [Calls -> Nat]
      /\ \A c \in Calls : ends'[c] = IF c \in AbortedNow THEN ends[c] + 1 ELSE ends[c]
  BY DEF DrainCancelled, IInv, TypeOK
<1>8. /\ task' \in [Calls -> TaskStates]
      /\ \A c \in Calls : task'[c] = IF c \in AbortedNow THEN Abort(task[c]) ELSE task[c]
  <2>1. \A t \in TaskStates : Abort(t) \in TaskStates
    BY DEF Abort, TaskStates
  <2> QED
    BY <2>1 DEF DrainCancelled, AbortHandles, IInv, TypeOK
<1>9. TypeOK'
  BY <1>1, <1>5, <1>7, <1>8 DEF IInv, TypeOK
<1>10. Places' /\ InOrder'
  BY <1>1, <1>2, <1>3, <1>5 DEF IInv, Places, InOrder
<1>11. Late'
  BY <1>1, <1>2, <1>5 DEF IInv, TypeOK, Late
<1>12. Progress' /\ Starts'
  BY <1>1, <1>2, <1>5 DEF IInv, Progress, Starts, Begun
<1>13. ASSUME NEW c \in Calls PROVE ends'[c] = IF Ended(c)' THEN 1 ELSE 0
  <2>1. ends[c] = IF c <= Len(finalized) \/ (c <= Len(entries) /\ entries[c].way # "pending")
                  THEN 1 ELSE 0
    BY <1>2 DEF IInv, Ends, Ended
  <2>2. Ended(c)' <=> c <= Len(entries)
    BY <1>1, <1>2, <1>5 DEF Ended
  <2> QED
    BY <1>2, <1>6, <1>7, <2>1, <2>2
<1>14. Tasks'
  <2> SUFFICES ASSUME NEW c \in Calls
               PROVE  /\ task'[c] # "none" => c <= Len(entries) /\ entries[c].way = "pending"
                      /\ task'[c] \notin Active
                      /\ task'[c] \in Aborting => c <= Len(entries) /\ cancelled
    BY <1>1, <1>2, <1>5 DEF Tasks
  <2>1. /\ task[c] # "none" => c <= Len(entries) /\ entries[c].way = "pending"
        /\ task[c] \in Active => c > Len(finalized)
    BY <1>2 DEF IInv, Tasks
  <2>2. CASE c \in AbortedNow
    BY <1>1, <1>6, <1>8, <2>1, <2>2 DEF Abort, Active, Aborting
  <2>3. CASE c \notin AbortedNow
    <3>1. task'[c] = task[c] /\ task[c] \notin Active
      BY <1>6, <1>8, <2>1, <2>3 DEF Active
    <3> QED
      BY <1>1, <2>1, <3>1 DEF Aborting
  <2> QED
    BY <2>2, <2>3
<1> QED
  BY <1>9, <1>10, <1>11, <1>12, <1>13, <1>14 DEF IInv, Ends

LEMMA ReturnResultsIInv == IInv /\ ReturnResults => IInv'
<1> SUFFICES ASSUME IInv, ReturnResults PROVE IInv'
  OBVIOUS
<1>1. /\ pc = "await" /\ pc' = "returned" /\ mode = "parallel"
      /\ Len(finalized) = Len(entries)
      /\ UNCHANGED <<kind, mode, cur, cancelled, task, entries, finalized,
                     started, ends, late>>
  BY DEF ReturnResults, IInv, TypeOK, Places
<1>2. TypeOK' /\ Places' /\ InOrder' /\ Late'
  BY <1>1 DEF IInv, TypeOK, Places, InOrder, Late
<1>3. Progress' /\ Starts'
  BY <1>1 DEF IInv, Progress, Starts, Begun
<1>4. Ends' /\ Tasks'
  BY <1>1 DEF IInv, Ends, Ended, Tasks
<1> QED
  BY <1>2, <1>3, <1>4 DEF IInv

(***************************************************************************)
(* A spawned task moves on.  It disturbs Tasks only.                       *)
(***************************************************************************)
LEMMA TaskMoves ==
  ASSUME IInv, NEW c \in Calls, NEW s \in TaskStates, SetTask(c, s),
         s # "none", task[c] # "none",
         mode = "parallel" \/ s = "dropped",
         s \in Active => task[c] \in Active,
         s \in Aborting => task[c] \in Aborting
  PROVE  IInv'
<1>1. /\ task' = [task EXCEPT ![c] = s]
      /\ UNCHANGED <<kind, mode, pc, cur, cancelled, entries, finalized,
                     started, ends, late>>
  BY DEF SetTask, loopVars
<1>2. TypeOK' /\ Places' /\ InOrder' /\ Late'
  BY <1>1 DEF IInv, TypeOK, Places, InOrder, Late
<1>3. Progress' /\ Starts'
  BY <1>1 DEF IInv, Progress, Starts, Begun
<1>4. Ends'
  BY <1>1 DEF IInv, Ends, Ended
<1>5. Tasks'
  <2>1. task \in [Calls -> TaskStates]
    BY DEF IInv, TypeOK
  <2>2. CASE mode = "sequential"
    BY <1>1, <2>1, <2>2 DEF IInv, Tasks, Active, Aborting
  <2>3. CASE mode = "parallel"
    BY <1>1, <2>1, <2>3 DEF IInv, Tasks
  <2> QED
    BY <2>2, <2>3 DEF IInv, TypeOK
<1> QED
  BY <1>2, <1>3, <1>4, <1>5 DEF IInv

LEMMA TaskIInv == ASSUME IInv, NEW c \in Calls, Task(c) PROVE IInv'
<1>1. CASE TaskStarts(c)
  BY <1>1, TaskMoves DEF TaskStarts, TaskStates, Active, Aborting
<1>2. CASE TaskReturns(c)
  <2>1. PICK r \in ToolReturns : SetTask(c, r)
    BY <1>2 DEF TaskReturns
  <2> QED
    BY <1>2, <2>1, TaskMoves DEF TaskReturns, TaskStates, ToolReturns, Active, Aborting
<1>3. CASE TaskPanics(c)
  BY <1>3, TaskMoves DEF TaskPanics, TaskStates, Active, Aborting
<1>4. CASE TaskDropped(c)
  BY <1>4, TaskMoves DEF TaskDropped, TaskStates, Active, Aborting
<1>5. CASE TaskUpdates(c)
  <2>1. /\ task[c] \in {"running", "abortingRunning"}
        /\ late' = IF ends[c] > 0 THEN late \cup {c} ELSE late
        /\ UNCHANGED <<kind, mode, pc, cur, cancelled, task, entries, finalized,
                       started, ends>>
    BY <1>5 DEF TaskUpdates, loopVars
  <2>2. ends[c] > 0 => mode = "parallel" /\ cancelled /\ c <= Len(finalized)
    <3>1. ends[c] = IF Ended(c) THEN 1 ELSE 0
      BY DEF IInv, Ends
    <3>2. CASE mode = "sequential"
      BY <2>1, <3>1, <3>2
         DEF IInv, TypeOK, Progress, Tasks, Ended, Active, Aborting
    <3>3. CASE mode = "parallel"
      <4>1. c <= Len(entries) /\ entries[c].way = "pending"
            /\ (task[c] = "running" => c > Len(finalized))
            /\ (task[c] = "abortingRunning" => c <= Len(finalized) /\ cancelled)
        BY <2>1, <3>3 DEF IInv, Tasks, Active, Aborting
      <4>2. Len(finalized) \in Nat
        BY DEF IInv, TypeOK
      <4> QED
        BY <2>1, <3>1, <3>3, <4>1, <4>2 DEF Ended
    <3> QED
      BY <3>2, <3>3 DEF IInv, TypeOK
  <2>3. Late'
    BY <2>1, <2>2 DEF IInv, Late
  <2>4. TypeOK' /\ Places' /\ InOrder'
    BY <2>1 DEF IInv, TypeOK, Places, InOrder
  <2>5. Progress' /\ Starts' /\ Ends' /\ Tasks'
    BY <2>1 DEF IInv, Progress, Starts, Begun, Ends, Ended, Tasks
  <2> QED
    BY <2>3, <2>4, <2>5 DEF IInv
<1> QED
  BY <1>1, <1>2, <1>3, <1>4, <1>5 DEF Task

LEMMA CancelIInv == IInv /\ Cancel => IInv'
<1> SUFFICES ASSUME IInv, Cancel PROVE IInv'
  OBVIOUS
<1>1. cancelled' = TRUE
      /\ UNCHANGED <<kind, mode, pc, cur, task, entries, finalized, started, ends, late>>
  BY DEF Cancel, loopVars
<1>2. TypeOK' /\ Places' /\ InOrder' /\ Late'
  BY <1>1 DEF IInv, TypeOK, Places, InOrder, Late
<1>3. Progress' /\ Starts' /\ Ends' /\ Tasks'
  BY <1>1 DEF IInv, Progress, Starts, Begun, Ends, Ended, Tasks
<1> QED
  BY <1>2, <1>3 DEF IInv

LEMMA StutterIInv == IInv /\ UNCHANGED vars => IInv'
<1> SUFFICES ASSUME IInv, UNCHANGED vars PROVE IInv'
  OBVIOUS
<1>1. UNCHANGED <<kind, mode, pc, cur, cancelled, task, entries, finalized,
                  started, ends, late>>
  BY DEF vars
<1>2. TypeOK' /\ Places' /\ InOrder' /\ Late'
  BY <1>1 DEF IInv, TypeOK, Places, InOrder, Late
<1>3. Progress' /\ Starts' /\ Ends' /\ Tasks'
  BY <1>1 DEF IInv, Progress, Starts, Begun, Ends, Ended, Tasks
<1> QED
  BY <1>2, <1>3 DEF IInv

LEMMA NextIInv == IInv /\ [Next]_vars => IInv'
BY StartCallIInv, LeaveCallsIInv, HookCancelledIInv, HookBlocksIInv,
   HookAllowsIInv, ExecEndsIInv, ExecPanicsIInv, AwaitIInv, DrainCancelledIInv,
   ReturnResultsIInv, TaskIInv, CancelIInv, StutterIInv
   DEF Next, Loop, Sequentially, InParallel, Finished

-----------------------------------------------------------------------------
(***************************************************************************)
(* IInv holds of every step of every batch: the executors' progress, the   *)
(* outcomes collected, the events sent and the states of the tasks stay in *)
(* step whatever the hook, the tools and the canceller do.                 *)
(***************************************************************************)
THEOREM BatchInvariant == Spec => []IInv
BY InitIInv, NextIInv, PTL DEF Spec

(***************************************************************************)
(* Every variable of a batch keeps its type; in particular every entry     *)
(* and every outcome the executors collect is about a call of the message. *)
(***************************************************************************)
THEOREM TypeCorrect == Spec => []TypeOK
<1>1. IInv => TypeOK
  BY DEF IInv
<1> QED
  BY <1>1, BatchInvariant, PTL

(***************************************************************************)
(* What execute_tool_batch returns, and the start and end events it has    *)
(* emitted, always agree, for any number of calls and permits.             *)
(***************************************************************************)
THEOREM ResultsAgree == Spec => []StartsEndsAndResultsAgree
<1>1. IInv => StartsEndsAndResultsAgree
  <2> SUFFICES ASSUME IInv, pc = "returned" PROVE StartsEndsAndResultsAgree
    BY DEF StartsEndsAndResultsAgree
  <2>1. Len(finalized) \in Nat /\ Len(entries) \in Nat /\ cur \in Nat
    BY DEF IInv, TypeOK
  <2>2. Begun = Len(finalized)
        /\ (Len(finalized) = NumCalls \/ cancelled)
    <3>1. CASE mode = "sequential"
      BY <2>1, <3>1 DEF IInv, Progress, Begun
    <3>2. CASE mode = "parallel"
      BY <2>1, <3>2 DEF IInv, Progress, Begun
    <3> QED
      BY <3>1, <3>2 DEF IInv, TypeOK
  <2>3. started = 1..Len(finalized)
    BY <2>2 DEF IInv, Starts
  <2>4. \A c \in Calls : Ended(c) <=> c <= Len(finalized)
    <3>1. CASE mode = "sequential"
      BY <3>1 DEF Ended
    <3>2. CASE mode = "parallel"
      BY <2>1, <3>2 DEF Ended, IInv, Progress
    <3> QED
      BY <3>1, <3>2 DEF IInv, TypeOK
  <2> QED
    BY <2>1, <2>2, <2>3, <2>4
       DEF StartsEndsAndResultsAgree, IInv, InOrder, Ends
<1> QED
  BY <1>1, BatchInvariant, PTL

(***************************************************************************)
(* When run_loop has the results every spawned task was joined or told to  *)
(* abort, for any number of tasks and permits.                             *)
(***************************************************************************)
THEOREM NoneOutlives == Spec => []NoToolOutlivesItsBatch
<1>1. IInv => NoToolOutlivesItsBatch
  <2> SUFFICES ASSUME IInv, pc \in {"returned", "crashed"}, NEW c \in Calls
               PROVE  task[c] \notin Active
    BY DEF NoToolOutlivesItsBatch
  <2>1. CASE mode = "sequential"
    BY <2>1 DEF IInv, Tasks
  <2>2. CASE mode = "parallel"
    <3>1. pc = "returned" /\ Len(finalized) = Len(entries) /\ Len(entries) \in Nat
      BY <2>2 DEF IInv, TypeOK, Places, Progress
    <3>2. task[c] \in Active => c > Len(finalized) /\ c <= Len(entries)
      BY <2>2 DEF IInv, Tasks, Active
    <3> QED
      BY <3>1, <3>2
  <2> QED
    BY <2>1, <2>2 DEF IInv, TypeOK
<1> QED
  BY <1>1, BatchInvariant, PTL

(***************************************************************************)
(* A Sequential tool never runs beside another tool of its batch.          *)
(***************************************************************************)
THEOREM RunsAlone == Spec => []SequentialToolRunsAlone
<1>1. IInv => SequentialToolRunsAlone
  BY DEF IInv, Places, Tasks, SequentialToolRunsAlone
<1> QED
  BY <1>1, BatchInvariant, PTL

(***************************************************************************)
(* An update after a call's end comes only from an aborted parallel call.  *)
(***************************************************************************)
THEOREM LateOnlyAfterAbort == Spec => []LateUpdatesOnlyAfterAbort
<1>1. IInv => LateUpdatesOnlyAfterAbort
  <2> SUFFICES ASSUME IInv, NEW c \in late
               PROVE  cancelled /\ mode = "parallel" /\ task[c] \notin Active
    BY DEF LateUpdatesOnlyAfterAbort
  <2>1. mode = "parallel" /\ cancelled /\ c <= Len(finalized)
        /\ c \in Calls /\ Len(finalized) \in Nat
    BY DEF IInv, TypeOK, Late
  <2> QED
    BY <2>1 DEF IInv, Tasks
<1> QED
  BY <1>1, BatchInvariant, PTL

(***************************************************************************)
(* What run_loop may rely on once it has the results, for every number of  *)
(* calls and permits: nothing of the batch still runs.                     *)
(***************************************************************************)
THEOREM ToolsEnd == Spec => []ToolsEndInTime
<1>1. TypeOK /\ NoToolOutlivesItsBatch /\ LateUpdatesOnlyAfterAbort => ToolsEndInTime
  BY DEF ToolsEndInTime
<1> QED
  BY <1>1, TypeCorrect, NoneOutlives, LateOnlyAfterAbort, PTL

-----------------------------------------------------------------------------
(***************************************************************************)
(* What the loop's own steps show of the contract: nothing, until it       *)
(* returns the results or panics.                                          *)
(***************************************************************************)
LEMMA LoopKeepsContract ==
  ASSUME IInv, IInv', Loop
  PROVE  [Contract!ContractNext]_(Contract!contractVars)
<1>1. pc \notin {"returned", "crashed"} /\ cancelled' = cancelled
  BY DEF Loop, Sequentially, InParallel, StartCall, LeaveCalls, HookCancelled,
         HookBlocks, HookAllows, ExecCancelled, ExecReturns, ExecPanics,
         FinishSequential, AwaitImmediate, AwaitJoined, DrainCancelled,
         ReturnResults
<1>2. CASE pc' \notin {"returned", "crashed"}
  BY <1>1, <1>2 DEF Contract!contractVars
<1>3. CASE pc' = "crashed"
  BY <1>1, <1>3 DEF Contract!ContractNext, Contract!LoseBatch
<1>4. CASE pc' = "returned"
  <2> DEFINE n == Len(finalized')
             told == [k \in 1..n |-> finalized'[k].call]
  <2>1. /\ finalized' \in Seq(Finalized) /\ n \in Nat
        /\ n <= NumCalls
        /\ n = NumCalls \/ cancelled
    <3>1. finalized' \in Seq(Finalized) /\ n \in Nat /\ cur' \in 1..(NumCalls + 1)
      BY DEF IInv, TypeOK
    <3>2. CASE mode' = "sequential"
      BY <1>1, <1>4, <3>1, <3>2 DEF IInv, Progress
    <3>3. CASE mode' = "parallel"
      BY <1>1, <1>4, <3>1, <3>3 DEF IInv, Progress
    <3> QED
      BY <3>1, <3>2, <3>3 DEF IInv, TypeOK
  <2>2. told = [k \in 1..n |-> k]
    BY <1>4 DEF IInv, InOrder
  <2>3. told \in Contract!Answers(NumCalls, cancelled)
    BY <2>1, <2>2 DEF Contract!Answers
  <2>4. ShouldTerminateBatch(finalized)' \in BOOLEAN
        /\ (ShouldTerminateBatch(finalized)' => told # <<>>)
    BY <2>1 DEF ShouldTerminateBatch
  <2> QED
    BY <1>1, <1>4, <2>3, <2>4 DEF Contract!ContractNext, Contract!ReturnBatch
<1> QED
  BY <1>2, <1>3, <1>4

(***************************************************************************)
(* A batch implements BatchContract: whatever the hooks, the tools, the    *)
(* tasks and the canceller do, run_loop gets the results of a prefix of    *)
(* the calls in source order, and of the whole batch unless it cancelled.  *)
(***************************************************************************)
THEOREM BatchKeepsContract == Spec => KeepsContract
<1>1. Init => Contract!ContractInit
  BY DEF Init, Contract!ContractInit
<1>2. IInv /\ IInv' /\ [Next]_vars
        => [Contract!ContractNext]_(Contract!contractVars)
  <2> SUFFICES ASSUME IInv, IInv', [Next]_vars
               PROVE  [Contract!ContractNext]_(Contract!contractVars)
    OBVIOUS
  <2>1. CASE Loop
    BY <2>1, LoopKeepsContract
  <2>2. CASE Cancel
    BY <2>2 DEF Cancel, loopVars, Contract!ContractNext, Contract!Signal,
                ShouldTerminateBatch
  <2>3. CASE \E c \in Calls : Task(c)
    BY <2>3 DEF Task, TaskStarts, TaskReturns, TaskPanics, TaskDropped,
                TaskUpdates, SetTask, loopVars, Contract!contractVars,
                ShouldTerminateBatch
  <2>4. CASE UNCHANGED vars
    BY <2>4 DEF vars, Contract!contractVars, ShouldTerminateBatch
  <2> QED
    BY <2>1, <2>2, <2>3, <2>4 DEF Next, Finished
<1> QED
  BY <1>1, <1>2, BatchInvariant, PTL DEF Spec, KeepsContract, Contract!ContractSpec
=============================================================================
