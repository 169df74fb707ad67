------------------------------ MODULE FileTools ------------------------------
(***************************************************************************)
(* The write and edit tools of crates/rozsa-app/src/tools, whose calls may *)
(* run in parallel: a lock for each path as it was spelled, a temporary    *)
(* file `path.with_extension("tmp")`, and a rename over the file.          *)
(*                                                                         *)
(* A place of the directory names a file by its number, so that a rename   *)
(* moves what others still hold open.  A text is the set of the calls that *)
(* contributed to it, and Scrap where a part is missing.  An aborted call  *)
(* gives its lock back at once, but a file operation that has been handed  *)
(* to the blocking pool is carried out.                                    *)
(***************************************************************************)
EXTENDS Absent, Integers

CONSTANTS
  FileCalls, \* the calls of write and edit
  Spellings, \* paths as they are spelled in the calls
  FileAt,    \* the file a spelling stands for
  Temporary, \* its temporary file
  MaxMishaps \* bound on failed operations and aborts

Scrap == "scrap"
Targets == {FileAt[p] : p \in Spellings}
Places == Targets \cup {Temporary[p] : p \in Spellings}
Numbers == Targets \cup FileCalls
Texts == SUBSET (FileCalls \cup Targets \cup {Scrap})

ASSUME FileToolsAssumption ==
  /\ None \notin FileCalls \cup Targets
  /\ Scrap \notin FileCalls \cup Targets
  /\ FileCalls \cap Targets = {}
  /\ MaxMishaps \in Nat

VARIABLES
  disk,    \* the number of the file at a place, or None
  text,    \* what the file of a number holds
  holder,  \* FILE_LOCKS: the call that holds the lock of a spelling
  call,    \* tool, path, at, aborted, read (the text an edit has read), file (what it has open)
  mishaps

fileVars == <<disk, text, holder, call, mishaps>>

Held(p) == IF disk[p] = None THEN None ELSE text[disk[p]]
File(c) == FileAt[call[c].path]

\* Faulty variant: the text is written into the file itself.
TempInPlace(c) == File(c)

Temp(c) == Temporary[call[c].path]

FilesInit ==
  /\ disk \in {d \in [Places -> Targets \cup {None}] :
                 \A p \in Places : d[p] = None \/ (p \in Targets /\ d[p] = p)}
  /\ text = [n \in Numbers |-> IF n \in Targets THEN {n} ELSE {}]
  /\ holder = [p \in Spellings |-> None]
  /\ call \in [FileCalls -> [tool : {"write", "edit"}, path : Spellings, at : {"asked"},
                             aborted : {FALSE}, read : {{}}, file : {None}]]
  /\ mishaps = 0

Moves(c, at) == call' = [call EXCEPT ![c].at = at]
LeavesLock(c) == holder' = [p \in Spellings |-> IF holder[p] = c THEN None ELSE holder[p]]
Mishap == mishaps < MaxMishaps /\ mishaps' = mishaps + 1

(***************************************************************************)
(* with_file_lock.                                                         *)
(***************************************************************************)
\* Faulty variant: every call has a lock of its own.
LockUnshared(c) ==
  /\ call[c].at = "asked"
  /\ holder' = [holder EXCEPT ![call[c].path] = c]
  /\ Moves(c, "locked")
  /\ UNCHANGED <<disk, text, mishaps>>

Lock(c) ==
  /\ call[c].at = "asked" /\ holder[call[c].path] = None
  /\ holder' = [holder EXCEPT ![call[c].path] = c]
  /\ Moves(c, "locked")
  /\ UNCHANGED <<disk, text, mishaps>>

Fails(c) == Moves(c, IF call[c].aborted THEN "gone" ELSE "failed") /\ LeavesLock(c)

(***************************************************************************)
(* edit reads the file and works on what it read.  The text to replace may *)
(* be there or not; in a scrap as well.                                    *)
(***************************************************************************)
ReadFile(c) ==
  /\ call[c].at = "locked" /\ call[c].tool = "edit" /\ ~call[c].aborted
  /\ \/ Held(File(c)) # None /\ UNCHANGED holder
        /\ call' = [call EXCEPT ![c].at = "read", ![c].read = Held(File(c))]
     \/ Fails(c)
  /\ UNCHANGED <<disk, text, mishaps>>

NewText(c, before) == IF call[c].tool = "edit" THEN before \cup {c} ELSE {c}

(***************************************************************************)
(* fs::write opens the temporary file, empties it and fills it; when       *)
(* another call has filled it meanwhile, its end may stand behind ours.    *)
(***************************************************************************)
OpenTemp(c) ==
  /\ call[c].at = (IF call[c].tool = "edit" THEN "read" ELSE "locked")
  /\ LET n == IF disk[Temp(c)] = None THEN c ELSE disk[Temp(c)] IN
     /\ disk' = [disk EXCEPT ![Temp(c)] = n]
     /\ text' = [text EXCEPT ![n] = {Scrap}]
     /\ call' = [call EXCEPT ![c].at = "open", ![c].file = n]
  /\ UNCHANGED <<holder, mishaps>>

FillTemp(c) ==
  LET n == call[c].file  mine == NewText(c, call[c].read) IN
  /\ call[c].at = "open"
  /\ \E new \in {mine, mine \cup {Scrap}} :
       /\ text[n] = {Scrap} => new = mine
       /\ text' = [text EXCEPT ![n] = new]
  /\ Moves(c, IF call[c].aborted THEN "gone" ELSE "filled")
  /\ UNCHANGED <<disk, holder, mishaps>>

\* The operation fails: the emptied file stays where it is.
WriteFails(c) ==
  /\ call[c].at \in {"locked", "read", "open"}
  /\ call[c].tool = "edit" => call[c].at # "locked"
  /\ Mishap /\ Fails(c)
  /\ UNCHANGED <<disk, text>>

(***************************************************************************)
(* The rename moves what is at the temporary place by now.                 *)
(***************************************************************************)
Rename(c) ==
  /\ call[c].at = "filled" /\ disk[Temp(c)] # None
  /\ disk' = IF File(c) = Temp(c) THEN disk
             ELSE [disk EXCEPT ![File(c)] = disk[Temp(c)], ![Temp(c)] = None]
  /\ Moves(c, IF call[c].aborted THEN "gone" ELSE "done")
  /\ LeavesLock(c)
  /\ UNCHANGED <<text, mishaps>>

RenameFails(c) ==
  /\ call[c].at = "filled"
  /\ IF disk[Temp(c)] = None THEN UNCHANGED mishaps ELSE Mishap
  /\ disk' = IF call[c].aborted THEN disk ELSE [disk EXCEPT ![Temp(c)] = None]
  /\ Fails(c)
  /\ UNCHANGED text

(***************************************************************************)
(* The task of the call is aborted at an await: the operation in hand is   *)
(* carried out, or there was none yet.                                     *)
(***************************************************************************)
NothingInHand(c) ==
  \/ call[c].at = "asked"
  \/ call[c].at = "locked" /\ call[c].tool = "edit"
CutOff(c) ==
  /\ call[c].at \in {"asked", "locked", "read", "open", "filled"} /\ ~call[c].aborted
  /\ \E at \in {"gone", call[c].at} :
       /\ call[c].at = "open" => at = "open"
       /\ NothingInHand(c) => at = "gone"
       /\ call' = [call EXCEPT ![c].aborted = TRUE, ![c].at = at]
  /\ Mishap

Abort(c) == CutOff(c) /\ LeavesLock(c) /\ UNCHANGED <<disk, text>>

FilesNext ==
  \E c \in FileCalls :
    \/ Lock(c) \/ ReadFile(c) \/ OpenTemp(c) \/ FillTemp(c) \/ WriteFails(c)
    \/ Rename(c) \/ RenameFails(c) \/ Abort(c)
FilesSpec == FilesInit /\ [][FilesNext]_fileVars

-----------------------------------------------------------------------------
\* Every variable has its type, and a lock is held by a call that is at work under it
\* (file_lock.rs: the guard is dropped with the call's future, however it ends).
FilesTypeOK ==
  /\ disk \in [Places -> Numbers \cup {None}]
  /\ text \in [Numbers -> Texts]
  /\ holder \in [Spellings -> FileCalls \cup {None}]
  /\ mishaps \in 0..MaxMishaps
  /\ \A c \in FileCalls :
       /\ call[c].at \in {"asked", "locked", "read", "open", "filled", "done", "failed", "gone"}
       /\ (\E p \in Spellings : holder[p] = c) <=>
            call[c].at \in {"locked", "read", "open", "filled"} /\ ~call[c].aborted

\* The calls of c's file all spell it like c, no other file has its temporary file, nor is the
\* file its own (`x.tmp` is), and none of them has been aborted: outside of these the lock does
\* not protect.
OnlySpelling(c) ==
  /\ Temporary[call[c].path] # File(c)
  /\ \A d \in FileCalls :
       /\ call[d].path # call[c].path => {File(d), Temp(d)} \cap {File(c), Temp(c)} = {}
       /\ call[d].path = call[c].path => ~call[d].aborted

\* A file that is always spelled one way holds a whole text at every moment, whichever calls
\* are under way, fail or are cut off there (edit.rs and write.rs: "atomic write").
FilesAreWhole ==
  \A c \in FileCalls : OnlySpelling(c) /\ Held(File(c)) # None => Scrap \notin Held(File(c))

(***************************************************************************)
(* A reader of a project file that is always spelled one way never meets a *)
(* half-written text, whatever fails or is aborted between the steps of    *)
(* write and edit.                                                         *)
(***************************************************************************)
FilesInvariant ==
  /\ FilesTypeOK
  /\ FilesAreWhole

\* Such a file changes only when a call on it succeeds, and the call that does replaces what is
\* there at that moment: of two edits none is lost, and a failed call leaves the file as it was
\* (file_lock.rs: read, write and rename of one path are one critical section).
EditsKeepWhatIsThere ==
  [][\A c \in FileCalls : OnlySpelling(c)' =>
       \/ Held(File(c))' = Held(File(c)) /\ (call[c].at # "done" => call[c].at' # "done")
       \/ \E d \in FileCalls :
            /\ File(d) = File(c) /\ call[d].at # "done" /\ call[d].at' = "done"
            /\ Held(File(c))' =
                 NewText(d, IF Held(File(c)) = None THEN {} ELSE Held(File(c)))]_fileVars
=============================================================================
