------------------------------ MODULE Credentials ------------------------------
(***************************************************************************)
(* The stored OAuth credentials of crates/rozsa-model: auth.json and its   *)
(* lock file (credentials.rs), the refresh of an expired access token and  *)
(* the browser login (oauth/openai_codex.rs, oauth/callback_server.rs), as *)
(* the agent session, the GUI's commands and the rate limits call them.    *)
(* Any of these, in this process or another, is a call.                    *)
(*                                                                         *)
(* Tokens are numbers in the order in which the servers issue them; a      *)
(* refresh may rotate the refresh token, and then the old one is dead.     *)
(* A read, the step that creates the lock and empties the file, the write  *)
(* and the release are steps; a network exchange is one.                   *)
(***************************************************************************)
EXTENDS Absent, Integers, FiniteSets

CONSTANTS
  Calls,
  Providers,     \* the providers whose credentials auth.json may hold
  LoginProvider, \* the one the GUI logs in to
  MaxIssued,     \* bound on the tokens issued
  MaxFaults      \* bound on lost replies, failed writes, crashes and logouts

Tokens == [access : 1..MaxIssued, refresh : 1..MaxIssued]

ASSUME CredAssumption ==
  /\ IsFiniteSet(Providers) /\ LoginProvider \in Providers /\ None \notin Providers \cup Tokens
  /\ {MaxIssued, MaxFaults} \subseteq Nat /\ MaxIssued >= Cardinality(Providers)

VARIABLES
  authFile, \* "missing", "whole", or "torn": empty, or cut short
  auth,     \* what it held when it was last whole: credentials by provider
  lock,     \* whether auth.json.lock exists
  calls,    \* the calls that run
  served,   \* the servers: the refresh tokens that work, the access tokens gone stale
  issued,   \* number of the last token
  pages,    \* browser pages that wait for the user, by the call that opened them
  faults,
  crashed,  \* history: the process died in the middle of a call
  spent     \* history: providers whose newest refresh token was lost on its way

credVars == <<authFile, auth, lock, calls, served, issued, pages, faults, crashed, spent>>

Nobody == [p \in Providers |-> None]
Waiting ==
  [job |-> None, provider |-> LoginProvider, step |-> "idle", copy |-> Nobody,
   token |-> None, code |-> None, behind |-> {}]

\* One pair per provider; the access token of a credential may be stale already.
CredInit ==
  /\ \E known \in SUBSET Providers, number \in [Providers -> 1..Cardinality(Providers)] :
       /\ \A p, q \in Providers : number[p] = number[q] => p = q
       /\ auth = [p \in Providers |->
                    IF p \in known THEN [access |-> number[p], refresh |-> number[p]] ELSE None]
       /\ \E stale \in SUBSET {number[p] : p \in known} :
            served = [live |-> {number[p] : p \in known}, stale |-> stale]
       /\ authFile \in IF known = {} THEN {"missing", "whole"} ELSE {"whole"}
  /\ lock = FALSE /\ calls = [c \in Calls |-> Waiting]
  /\ issued = Cardinality(Providers) /\ pages = {} /\ faults = 0
  /\ crashed = FALSE /\ spent = {}

Fault == faults < MaxFaults /\ faults' = faults + 1
Becomes(c, call) == calls' = [calls EXCEPT ![c] = call]
Ends(c) == Becomes(c, Waiting)
Held == [p \in Providers |-> IF authFile = "missing" THEN None ELSE auth[p]]

\* A refresh that fails with the new token in its hands loses it.
Carries(c) == calls[c].job = "request" /\ calls[c].token # None
Loses(c) == spent' = IF Carries(c) THEN spent \cup {calls[c].provider} ELSE spent
-----------------------------------------------------------------------------
(***************************************************************************)
(* resolve_auth_json_api_key, after the configured keys and the            *)
(* environment gave none: a file that cannot be parsed is an error, a      *)
(* fresh access token is handed out, a stale one is refreshed first.       *)
(***************************************************************************)
Request(c, p) ==
  /\ calls[c].step = "idle" /\ authFile = "whole" /\ auth[p] # None
  /\ auth[p].access \in served.stale
  /\ Becomes(c, [Waiting EXCEPT !.job = "request", !.provider = p, !.step = "refresh",
                                !.copy = auth])
  /\ UNCHANGED <<authFile, auth, lock, served, issued, pages, faults, spent, crashed>>

\* Faulty variant: the refresh token that was sent is kept.
OldRefreshKept(old, n, rotates) == [access |-> n, refresh |-> old.refresh]

Refreshed(old, n, rotates) ==
  [access |-> n, refresh |-> IF rotates THEN n ELSE old.refresh]

Issues(old, n, rotates) ==
  /\ issued < MaxIssued /\ issued' = n
  /\ served' = IF rotates THEN [served EXCEPT !.live = (@ \ {old}) \cup {n}] ELSE served

\* The token endpoint's answer, that the call waits for without a lock.  The
\* new credential goes into the map as it was read before.
Refresh(c) ==
  LET call == calls[c]
      old == call.copy[call.provider]
      n == issued + 1
  IN /\ call.step = "refresh"
     /\ \E rotates \in BOOLEAN :
          /\ old.refresh \in served.live /\ Issues(old.refresh, n, rotates)
          /\ LET new == Refreshed(old, n, rotates)
             IN Becomes(c, [call EXCEPT !.step = "lock", !.token = new,
                                        !.copy = [@ EXCEPT ![call.provider] = new]])
     /\ UNCHANGED <<authFile, auth, lock, pages, faults, spent, crashed>>

\* The server refuses the token, cannot be reached, or its answer is lost.
RefreshFails(c) ==
  LET call == calls[c]
      old == call.copy[call.provider].refresh
  IN /\ call.step = "refresh"
     /\ Ends(c)
     /\ \/ old \notin served.live /\ UNCHANGED <<served, issued, faults, spent>>
        \/ Fault /\ UNCHANGED <<served, issued, spent>>
        \/ /\ old \in served.live /\ Fault /\ Issues(old, issued + 1, TRUE)
           /\ spent' = spent \cup {call.provider}
     /\ UNCHANGED <<authFile, auth, lock, pages, crashed>>

\* Time passes over an access token.
Expire ==
  /\ \E p \in Providers :
       auth[p] # None /\ auth[p].access \notin served.stale
       /\ served' = [served EXCEPT !.stale = @ \cup {auth[p].access}]
  /\ UNCHANGED <<authFile, auth, lock, calls, issued, pages, faults, spent, crashed>>
-----------------------------------------------------------------------------
(***************************************************************************)
(* auth_login: the page is opened before the port is bound; the first      *)
(* connection decides; the GUI neither cancels nor times it out.  The      *)
(* caller's name stands for the login's random state and its verifier.     *)
(***************************************************************************)
PortTaken == \E c \in Calls : calls[c].step = "listen"

Login(c) ==
  /\ calls[c].step = "idle" /\ c \notin pages
  /\ pages' = pages \cup {c}
  /\ IF PortTaken THEN UNCHANGED calls
     ELSE Becomes(c, [Waiting EXCEPT !.job = "login", !.step = "listen"])
  /\ UNCHANGED <<authFile, auth, lock, served, issued, faults, spent, crashed>>

StateMatches(c, page) == c = page

\* The user allows the page: the browser brings its code and its state to the
\* port, where another login may be the one that listens.
Callback(page) ==
  /\ page \in pages /\ pages' = pages \ {page}
  /\ \/ \E c \in Calls :
          /\ calls[c].step = "listen"
          /\ IF StateMatches(c, page)
               THEN Becomes(c, [calls[c] EXCEPT !.step = "exchange", !.code = page])
               ELSE Ends(c)
     \/ ~PortTaken /\ UNCHANGED calls
  /\ UNCHANGED <<authFile, auth, lock, served, issued, faults, spent, crashed>>

\* A connection without a code: the user declines, or the browser connects
\* and asks for something else.
Stray ==
  /\ Fault
  /\ \E c \in Calls : calls[c].step = "listen" /\ Ends(c)
  /\ UNCHANGED <<authFile, auth, lock, served, issued, pages, spent, crashed>>

\* exchange_code: the server binds a code to its page's challenge.
Exchange(c) ==
  LET n == issued + 1
      new == [access |-> n, refresh |-> n]
  IN /\ calls[c].step = "exchange" /\ issued < MaxIssued
     /\ IF calls[c].code = c
          THEN /\ issued' = n /\ served' = [served EXCEPT !.live = @ \cup {n}]
               /\ Becomes(c, [calls[c] EXCEPT !.step = "read", !.token = new])
          ELSE Ends(c) /\ UNCHANGED <<issued, served>>
     /\ UNCHANGED <<authFile, auth, lock, pages, faults, spent, crashed>>
-----------------------------------------------------------------------------
WithLogin(p, token) == [Held EXCEPT ![p] = token]

\* store_oauth_credentials, up to the lock.
StoreReads(c) ==
  LET call == calls[c]
  IN /\ call.step = "read"
     /\ IF authFile = "torn"
          THEN Ends(c)
          ELSE Becomes(c, [call EXCEPT !.step = "lock", !.behind = {},
                                       !.copy = WithLogin(call.provider, call.token)])
     /\ UNCHANGED <<authFile, auth, lock, served, issued, pages, faults, spent, crashed>>

\* remove_stored_credentials: nothing is written when there is none.
Logout(c) ==
  /\ calls[c].step = "idle" /\ Fault
  /\ authFile = "whole" /\ auth[LoginProvider] # None
  /\ Becomes(c, [Waiting EXCEPT !.job = "logout", !.step = "lock",
                                !.copy = [auth EXCEPT ![LoginProvider] = None]])
  /\ UNCHANGED <<authFile, auth, lock, served, issued, pages, spent, crashed>>

LockFree == ~lock

\* write_auth_json: the lock is never waited for; fs::write empties the file.
Locks(c) ==
  /\ calls[c].step = "lock"
  /\ IF LockFree
       THEN /\ lock' = TRUE /\ authFile' = "torn"
            /\ Becomes(c, [calls[c] EXCEPT !.step = "write"]) /\ UNCHANGED spent
       ELSE Ends(c) /\ Loses(c) /\ UNCHANGED <<lock, authFile>>
  /\ UNCHANGED <<auth, served, issued, pages, faults, crashed>>

\* What the write replaces that its call has not seen; the other calls fall
\* behind on what it changes.
Changed(c) == {p \in Providers : calls[c].copy[p] # auth[p]}

Writes(c) ==
  LET call == calls[c]
  IN /\ call.step = "write"
     /\ authFile' = "whole" /\ auth' = call.copy
     /\ calls' = [d \in Calls |->
                    IF d = c THEN [call EXCEPT !.step = "release"]
                    ELSE IF calls[d].step \in {"refresh", "lock"}
                           THEN [calls[d] EXCEPT !.behind = @ \cup Changed(c)]
                           ELSE calls[d]]
     /\ spent' = (spent \cup (Changed(c) \cap call.behind))
                   \ (IF call.token # None /\ call.token.refresh \in served.live
                        THEN {call.provider} ELSE {})
     /\ UNCHANGED <<lock, served, issued, pages, faults, crashed>>

AfterFailedWrite(c) == [calls[c] EXCEPT !.step = "release"]

WriteFails(c) ==
  /\ calls[c].step = "write" /\ Fault
  /\ Becomes(c, AfterFailedWrite(c)) /\ Loses(c)
  /\ UNCHANGED <<authFile, auth, lock, served, issued, pages, crashed>>

Releases(c) ==
  /\ calls[c].step = "release"
  /\ lock' = FALSE /\ Ends(c)
  /\ UNCHANGED <<authFile, auth, served, issued, pages, faults, spent, crashed>>

\* The process dies; its lock file stays.
CredCrash ==
  /\ Fault /\ \E c \in Calls : calls[c].step # "idle"
  /\ calls' = [c \in Calls |-> Waiting] /\ crashed' = TRUE
  /\ spent' = spent \cup {calls[c].provider : c \in {d \in Calls :
                                                Carries(d) /\ calls[d].step # "release"}}
  /\ UNCHANGED <<authFile, auth, lock, served, issued, pages>>

CredStep(c) ==
  \/ \E p \in Providers : Request(c, p)
  \/ Refresh(c) \/ RefreshFails(c) \/ Login(c) \/ Callback(c) \/ Exchange(c) \/ StoreReads(c)
  \/ Logout(c) \/ Locks(c) \/ Writes(c) \/ WriteFails(c) \/ Releases(c)

CredNext == (\E c \in Calls : CredStep(c)) \/ Expire \/ Stray \/ CredCrash

CredSpec == CredInit /\ [][CredNext]_credVars
-----------------------------------------------------------------------------
Stored == [Providers -> Tokens \cup {None}]

\* auth.json holds tokens that were issued, and is cut short while a writer is at work on it
\* (write_auth_json).
CredTypeOK ==
  /\ authFile \in {"missing", "whole", "torn"} /\ auth \in Stored /\ lock \in BOOLEAN
  /\ \A c \in Calls :
       /\ calls[c].job \in {None, "request", "login", "logout"} /\ calls[c].provider \in Providers
       /\ calls[c].step \in {"idle", "refresh", "listen", "exchange", "read", "lock", "write",
                             "release"}
       /\ calls[c].copy \in Stored /\ calls[c].token \in Tokens \cup {None}
       /\ calls[c].code \in Calls \cup {None} /\ calls[c].behind \subseteq Providers
  /\ served.live \subseteq 1..issued /\ served.stale \subseteq 1..issued
  /\ crashed \in BOOLEAN /\ issued \in 1..MaxIssued /\ pages \subseteq Calls /\ faults \in 0..MaxFaults
  /\ spent \subseteq Providers
  /\ (\E c \in Calls : calls[c].step = "write") => authFile = "torn"

\* The provider's newest token is with a call that has yet to write it.
OnItsWay(p) ==
  \E c \in Calls : calls[c].provider = p /\ calls[c].token # None /\ calls[c].step # "release"

\* The user logs in once: the refresh token on file works through any number
\* of refreshes, unless a rotated one was lost on its way to the file.
StoredRefreshWorks ==
  authFile = "whole" =>
    \A p \in Providers \ spent : auth[p] = None \/ auth[p].refresh \in served.live \/ OnItsWay(p)

Writing(c) == calls[c].step \in {"write", "release"}

\* auth.json.lock is there only as long as somebody writes, and then for one
\* writer; left behind, it would refuse every later refresh, login and logout.
LockIsReleased ==
  /\ lock => crashed \/ \E c \in Calls : Writing(c)
  /\ \A c, d \in Calls : Writing(c) /\ Writing(d) => c = d

\* A write changes another provider's credential only where it was behind: it
\* takes its map from the file, and adds its own provider to it.
OnlyStaleWritersLose ==
  [][\A c \in Calls : calls[c].step = "write" /\ calls'[c].step = "release" =>
       \A p \in Providers \ {calls[c].provider} :
         auth'[p] # auth[p] => p \in calls[c].behind]_credVars

\* A login sends its verifier only with the code of its own page.
OnlyItsOwnCodeIsExchanged == \A c \in Calls : calls[c].step = "exchange" => calls[c].code = c

(***************************************************************************)
(* The refresh token in auth.json works unless a write of a rotated one    *)
(* failed, the lock does not outlive its calls but in a crash, and a login *)
(* exchanges no code but the one its own browser page brought.             *)
(***************************************************************************)
CredentialsInvariant ==
  /\ CredTypeOK
  /\ StoredRefreshWorks
  /\ LockIsReleased
  /\ OnlyItsOwnCodeIsExchanged

=============================================================================
