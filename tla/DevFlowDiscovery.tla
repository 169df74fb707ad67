-------------------------- MODULE DevFlowDiscovery --------------------------
(***************************************************************************)
(* Which `dow` the dev-flow integration adopts, and which project and      *)
(* availability a directory has: pure operators for discovery.rs and the   *)
(* project resolution of registry.rs.                                      *)
(*                                                                         *)
(* A machine is what discovery sees of it: for each source, in the order   *)
(* of the search, the executables its places lead to once links are        *)
(* followed (what brew and npm answer is part of their source's places);   *)
(* where other paths lead; and the executables that answer `dow --version` *)
(* in time with `dow` and a semantic version.  A directory is what git and *)
(* the file system say of it.                                              *)
(***************************************************************************)
EXTENDS Naturals, SequencesExt

CONSTANT None  \* no value: None of the code, or an error
Adopted(exe, source) == [exe |-> exe, source |-> source]
Answers(machine, exe) == exe \in machine.works

\* A configured path is taken or refused, never replaced.
Custom(path, machine) ==
  IF path \in DOMAIN machine.links /\ Answers(machine, machine.links[path])
  THEN Adopted(machine.links[path], "custom") ELSE None

\* An executable two places lead to is asked once: it would answer the same.
Searched(machine) ==
  LET works(source) == \E exe \in ToSet(source.places) : Answers(machine, exe)
      first == SelectInSeq(machine.sources, works) IN
  IF first = 0 THEN None
  ELSE LET places == machine.sources[first].places IN
       Adopted(places[SelectInSeq(places, LAMBDA exe : Answers(machine, exe))],
               machine.sources[first].name)

DiscoverDow(path, machine) ==
  IF path # None THEN Custom(path, machine) ELSE Searched(machine)

-----------------------------------------------------------------------------
(***************************************************************************)
(* resolve_project_with: a project is a root and a revision.  None stands  *)
(* for its errors: git cannot be run, a name that is no path inside        *)
(* .dev-doc, neither a branch nor a commit.                                *)
(***************************************************************************)
Project(root, kind, name) == [root |-> root, kind |-> kind, name |-> name]

ProjectOf(dir) ==
  CASE dir.git = "fails"                      -> None
    [] dir.git = "no"                         -> Project(dir.root, "non-git", None)
    [] dir.git = "yes" /\ dir.branch # None   ->
         IF dir.branch \notin dir.names THEN None
         ELSE Project(dir.root, IF dir.commit # None THEN "branch" ELSE "unborn", dir.branch)
    [] OTHER                                  ->
         IF dir.commit = None THEN None ELSE Project(dir.root, "detached", dir.commit)

\* probe_project: the status file of the revision, and what `dow status` prints.
Readable(dir) == {name \in DOMAIN dir.files : dir.files[name] = "readable"}

StatusFile(dir, project) ==
  CASE project.kind = "detached" -> "unsupported"
    [] project.kind = "non-git"  ->
         (CASE Readable(dir) = {}                    -> "not initialized"
            [] \E name \in Readable(dir) :
                 Readable(dir) = {name}              -> "found"
            [] OTHER                                 -> "ambiguous")
    [] OTHER                     ->
         IF project.name \notin DOMAIN dir.files THEN "not initialized"
         ELSE IF project.name \in Readable(dir) THEN "found" ELSE "unreadable"

AvailabilityOf(dir, project) ==
  IF StatusFile(dir, project) # "found" THEN StatusFile(dir, project)
  ELSE IF dir.status = "object" THEN "ready" ELSE "probe failed"
=============================================================================
