--------------------------- MODULE DashboardFeed ---------------------------
(***************************************************************************)
(* What keeps the snapshot of one dashboard fresh: run_connection_loop of  *)
(* rozsa-gui/src/dev_flow.rs, over the client, the event stream and the    *)
(* decoder of rozsa-app/src/dev_flow/dashboard.rs.                         *)
(*                                                                         *)
(* The dashboard's data is a version number; the three documents of a      *)
(* snapshot are fetched one by one, each at the version of that moment.    *)
(* The dashboard itself is external: it writes an update to every open     *)
(* stream when its data changes, and may greet a new stream with one.      *)
(* Lines stand for the bytes of the wire; a read takes any number.         *)
(***************************************************************************)
EXTENDS Naturals, Sequences

CONSTANTS
  MaxChanges,   \* bound on changes of the data
  MaxFaults     \* bound on connections lost, refused or garbled, and restarts

ASSUME FeedAssumption == {MaxChanges, MaxFaults} \subseteq Nat

VARIABLES
  data,       \* version of the dashboard's data
  life,       \* which dashboard of the project this is
  published,  \* the snapshot the handle shares: revision, documents, stale
  revision,   \* the client's counter
  wire,       \* lines sent on the open stream and not read
  decoder,    \* of the stream: the event named, its data lines
  pending,    \* updates decoded and not acted on
  loop,       \* "subscribing", "listening", "fetching", "waiting", "ended"
  documents,  \* fetched so far
  attempt,    \* of the backoff
  lost,       \* disconnected_since is set
  told,       \* error_reported; the error is shown
  seen,       \* what the sidebar showed when the user asked for a detail
  missed,     \* history: the data changed while no stream was open
  faults

streamVars == <<wire, decoder, pending>>
lossVars == <<attempt, lost, told>>
feedVars == <<data, life, published, revision, streamVars, loop, documents, lossVars, seen,
              missed, faults>>

Update == <<"event: update", "data", "">>
Fresh == [event |-> FALSE, data |-> FALSE]
Snapshot(rev, docs, stale) == [revision |-> rev, documents |-> docs, stale |-> stale]
Fault == faults < MaxFaults /\ faults' = faults + 1

\* The loop is started with the snapshot the start of the child has fetched.
FeedInit ==
  /\ data = 1 /\ life = 1 /\ revision = 1
  /\ published = Snapshot(1, <<1, 1, 1>>, FALSE)
  /\ wire = <<>> /\ decoder = Fresh /\ pending = 0
  /\ loop = "subscribing" /\ documents = <<>>
  /\ attempt = 0 /\ lost = FALSE /\ told = FALSE
  /\ seen = [life |-> 1, revision |-> 1, documents |-> <<1, 1, 1>>]
  /\ missed = FALSE /\ faults = 0

Open == loop \in {"listening", "fetching"}

\* External: the data changes.
Change ==
  /\ data <= MaxChanges /\ data' = data + 1
  /\ IF Open THEN wire' = wire \o Update /\ UNCHANGED missed
     ELSE missed' = TRUE /\ UNCHANGED wire
  /\ UNCHANGED <<life, published, revision, decoder, pending, loop, documents, lossVars, seen, faults>>

-----------------------------------------------------------------------------
(***************************************************************************)
(* process_line: a blank line ends an event; it is an update when it is    *)
(* named so and has data.                                                  *)
(***************************************************************************)
Line(d, line) ==
  CASE line = "event: update" -> [d EXCEPT !.decoder.event = TRUE]
    [] line = "data"          -> [d EXCEPT !.decoder.data = TRUE]
    [] line = ""              ->
         [decoder |-> Fresh,
          updates |-> d.updates + (IF d.decoder.event /\ d.decoder.data THEN 1 ELSE 0)]
    [] OTHER                  -> d

\* push, of some lines.
RECURSIVE Decoded(_, _)
Decoded(d, lines) ==
  IF lines = <<>> THEN d ELSE Decoded(Line(d, Head(lines)), Tail(lines))

Read ==
  /\ loop = "listening" /\ pending = 0
  /\ \E n \in 1..Len(wire) :
       LET d == Decoded([decoder |-> decoder, updates |-> 0], SubSeq(wire, 1, n)) IN
       /\ decoder' = d.decoder /\ pending' = d.updates
       /\ wire' = SubSeq(wire, n + 1, Len(wire))
  /\ UNCHANGED <<data, life, published, revision, loop, documents, lossVars, seen, missed, faults>>

\* Faulty variant: a snapshot answers for all the updates decoded before it.
FetchForAll ==
  /\ loop = "fetching" /\ Len(documents) = 3
  /\ revision' = revision + 1 /\ published' = Snapshot(revision', documents, FALSE)
  /\ loop' = "listening" /\ documents' = <<>> /\ attempt' = 0 /\ lost' = FALSE /\ told' = FALSE
  /\ pending' = 0 /\ wire' = <<>> /\ missed' = FALSE
  /\ UNCHANGED <<data, life, decoder, seen, faults>>

\* An update is taken, and the three documents fetched in turn.
Hear ==
  /\ loop = "listening" /\ pending > 0 /\ pending' = pending - 1 /\ loop' = "fetching"
  /\ missed' = FALSE
  /\ UNCHANGED <<data, life, published, revision, wire, decoder, documents, lossVars, seen, faults>>

FetchDocument ==
  /\ loop = "fetching" /\ Len(documents) < 3 /\ documents' = Append(documents, data)
  /\ UNCHANGED <<data, life, published, revision, streamVars, loop, lossVars, seen, missed, faults>>

\* The snapshot is numbered and published; what was lost is found.
Fetched ==
  /\ loop = "fetching" /\ Len(documents) = 3
  /\ revision' = revision + 1 /\ published' = Snapshot(revision', documents, FALSE)
  /\ loop' = "listening" /\ documents' = <<>> /\ attempt' = 0 /\ lost' = FALSE /\ told' = FALSE
  /\ UNCHANGED <<data, life, streamVars, seen, missed, faults>>

-----------------------------------------------------------------------------
(***************************************************************************)
(* next_delay and maybe_report_connection_error, after every loss: the     *)
(* error is shown from the third attempt on, or when seven seconds have    *)
(* passed, which slow refusals reach at the second.                        *)
(***************************************************************************)
Retries ==
  /\ loop' = "waiting"
  /\ attempt' = (IF attempt < 3 THEN attempt + 1 ELSE 3)
  /\ lost' = TRUE
  /\ \E long \in {FALSE} \cup {lost} : told' = (told \/ attempt' = 3 \/ long)

\* The stream ends, stalls or is garbled, or a document cannot be fetched.
Lose ==
  /\ Open /\ Fault /\ Retries
  /\ published' = [published EXCEPT !.stale = TRUE]
  /\ wire' = <<>> /\ decoder' = Fresh /\ pending' = 0 /\ documents' = <<>>
  /\ UNCHANGED <<data, life, revision, seen, missed>>

Refused ==
  /\ loop = "subscribing" /\ Fault /\ Retries
  /\ UNCHANGED <<data, life, published, revision, streamVars, documents, seen, missed>>

Wait ==
  /\ loop = "waiting" /\ loop' = "subscribing"
  /\ UNCHANGED <<data, life, published, revision, streamVars, documents, lossVars, seen, missed, faults>>

Subscribed ==
  /\ loop = "subscribing" /\ loop' = "listening"
  /\ wire' \in {<<>>, Update, <<": keep-alive">> \o Update}
  /\ UNCHANGED <<data, life, published, revision, decoder, pending, documents, lossVars, seen, missed, faults>>

\* The service is shut down: the loop ends where it is, and marks nothing.
EndLoop ==
  /\ loop # "ended" /\ Fault /\ loop' = "ended"
  /\ wire' = <<>> /\ decoder' = Fresh /\ pending' = 0 /\ documents' = <<>>
  /\ UNCHANGED <<data, life, published, revision, lossVars, seen, missed>>

\* Another dashboard of the project: another handle, client and loop.
Restart ==
  /\ loop = "ended" /\ life' = life + 1 /\ loop' = "subscribing"
  /\ revision' = 1 /\ published' = Snapshot(1, <<data, data, data>>, FALSE)
  /\ attempt' = 0 /\ lost' = FALSE /\ told' = FALSE /\ missed' = FALSE
  /\ UNCHANGED <<data, streamVars, documents, seen, faults>>

-----------------------------------------------------------------------------
(* The user looks at the sidebar, and asks for a detail of what it showed. *)

See ==
  /\ seen' = [life |-> life, revision |-> published.revision, documents |-> published.documents]
  /\ seen' # seen
  /\ UNCHANGED <<data, life, published, revision, streamVars, loop, documents, lossVars, missed, faults>>

\* validate_detail_request: the project, which is the same here, and the revision.
DetailAccepted == seen.revision = published.revision

FeedNext ==
  \/ Change \/ Read \/ Hear \/ FetchDocument \/ Fetched \/ Lose \/ Refused \/ Wait
  \/ Subscribed \/ EndLoop \/ Restart \/ See

-----------------------------------------------------------------------------
\* The documents of a published snapshot are versions the dashboard had, and the connection loop
\* is at one of its awaits (run_connection_loop).
FeedTypeOK ==
  /\ data \in 1..MaxChanges + 1 /\ life \in 1..MaxFaults + 1 /\ revision \in Nat
  /\ published.documents \in [1..3 -> 1..data] /\ published.stale \in BOOLEAN
  /\ loop \in {"subscribing", "listening", "fetching", "waiting", "ended"}
  /\ Len(documents) <= 3 /\ Len(wire) <= 3 * data + 4
  /\ attempt \in 0..3 /\ {lost, told, missed} \subseteq BOOLEAN

(***************************************************************************)
(* A snapshot that is not marked stale shows one state of the dashboard,   *)
(* the latest, unless an update is on its way, is being fetched for, or    *)
(* came when nobody listened: three documents fetched while the data       *)
(* changes are corrected by the update the change has sent.                *)
(***************************************************************************)
UnmarkedIsCurrent ==
  (loop # "ended" /\ ~published.stale /\ ~missed /\ wire = <<>> /\ pending = 0
     /\ loop # "fetching")
  => published.documents = <<data, data, data>>

(***************************************************************************)
(* The error of a lost connection is over once a snapshot has come; it is  *)
(* never shown for one that was not lost.                                  *)
(***************************************************************************)
ErrorIsOfALoss == (told \/ attempt > 0) => lost

(***************************************************************************)
(* A detail the user opens is of the work the sidebar showed: one          *)
(* dashboard never publishes two snapshots with one revision.              *)
(***************************************************************************)
DetailIsOfWhatWasSeen ==
  (DetailAccepted /\ seen.life = life) => seen.documents = published.documents

(***************************************************************************)
(* What the front end shows of a dashboard: without a mark it is current,  *)
(* an error is told only of a connection that was lost, and a detail       *)
(* belongs to the version it was opened from.                              *)
(***************************************************************************)
FeedInvariant ==
  /\ FeedTypeOK
  /\ UnmarkedIsCurrent
  /\ ErrorIsOfALoss
  /\ DetailIsOfWhatWasSeen

=============================================================================
