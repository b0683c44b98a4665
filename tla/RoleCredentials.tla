--------------------------- MODULE RoleCredentials ---------------------------
(***************************************************************************)
(* Role credentials and the sign-out that has to end them: role::credentials*)
(* by several processes, one role per session, against `gac logout` of any *)
(* sessions, which revokes and deletes their tokens one by one and then    *)
(* sweeps the cache that gac shares with the AWS CLI.                      *)
(*                                                                         *)
(* A token is the number of the grant it came from; TokenCache has what is *)
(* left out here.  An AWS CLI that fetches credentials does what a process *)
(* of this module does.                                                    *)
(***************************************************************************)
EXTENDS Integers, FiniteSets

CONSTANTS
  Procs,
  Sessions,
  Nobody,     \* no session
  MaxGrants   \* bound on the tokens the service issues

ASSUME GrantAssumption == MaxGrants \in Nat
ASSUME SessionAssumption == Nobody \notin Sessions

VARIABLES
  token,    \* the cached token of each session, 0 when there is none
  live,     \* the tokens that are not revoked
  issued,   \* how many it has issued
  cache,    \* the file with the credentials of each session's role
  pc,
  session,  \* the session a process works for
  held,     \* the token it presents
  left,     \* the sessions a sign-out has yet to sign out
  todo,     \* the files a sweep has yet to look at
  since,    \* sessions with an entry that is newer than a sweep (history)
  quiet,    \* sessions signed out with no call under way (history)
  missed,   \* sessions with an entry that a sweep could not read (history)
  out       \* sessions whose sign-out is over and not undone (history)

service == <<token, live, issued>>
history == <<since, quiet, missed, out>>
vars == <<service, cache, pc, session, held, left, todo, history>>

Entry == {"none", "usable", "stale", "unreadable"}

Fetching == {"fetch", "store"}
Signing == {"revoke", "delete"}
PC == {"idle", "token", "sessions", "sweep"} \cup Fetching \cup Signing

Init ==
  /\ token = [s \in Sessions |-> 0]
  /\ live = {}
  /\ issued = 0
  /\ cache = [s \in Sessions |-> "none"]
  /\ pc = [p \in Procs |-> "idle"]
  /\ session = [p \in Procs |-> Nobody]
  /\ held = [p \in Procs |-> 0]
  /\ left = [p \in Procs |-> {}]
  /\ todo = [p \in Procs |-> {}]
  /\ since = [p \in Procs |-> {}]
  /\ quiet = [p \in Procs |-> {}]
  /\ missed = {}
  /\ out = {}

Go(p, at) == pc' = [pc EXCEPT ![p] = at]

Forget(p) ==
  /\ session' = [session EXCEPT ![p] = Nobody]
  /\ held' = [held EXCEPT ![p] = 0]
  /\ left' = [left EXCEPT ![p] = {}]
  /\ todo' = [todo EXCEPT ![p] = {}]

End(p) == Go(p, "idle") /\ Forget(p) /\ quiet' = [quiet EXCEPT ![p] = {}]

\* The call returns before its last step is done.
Quit(p) == End(p) /\ since' = [since EXCEPT ![p] = {}] /\ UNCHANGED <<missed, out>>

\* The sidecar lock of a session's token.
LockFree(s) == \A q \in Procs : ~(pc[q] \in Signing /\ session[q] = s)

\* A call for the session is between its look at the token and its end.
UnderWay(s) == \E q \in Procs : pc[q] \in Fetching /\ session[q] = s

-----------------------------------------------------------------------------
\* role::credentials

\* Credentials in the cache are returned while they last.
Answered(s) == cache[s] = "usable"

Credentials(p) ==
  \E s \in Sessions :
    /\ pc[p] = "idle"
    /\ ~Answered(s)
    /\ Go(p, "token")
    /\ session' = [session EXCEPT ![p] = s]
    /\ UNCHANGED <<service, cache, held, left, todo, history>>

Grant(s) ==
  /\ issued < MaxGrants
  /\ LockFree(s)
  /\ issued' = issued + 1
  /\ token' = [token EXCEPT ![s] = issued']
  /\ live' = live \cup {issued'}

\* usable_token: the cached token, refreshed first when it is due.
UseToken(p) ==
  /\ pc[p] = "token"
  /\ token[session[p]] # 0
  /\ Grant(session[p]) \/ UNCHANGED service
  /\ held' = [held EXCEPT ![p] = token'[session[p]]]
  /\ Go(p, "fetch")
  /\ UNCHANGED <<cache, session, left, todo, history>>

\* No token, an expired one, or no lock to refresh it under.
LoginRequired(p) ==
  /\ pc[p] = "token"
  /\ Quit(p)
  /\ UNCHANGED <<service, cache>>

GetRoleCredentials(p) ==
  /\ pc[p] = "fetch"
  /\ held[p] \in live
  /\ Go(p, "store")
  /\ UNCHANGED <<service, cache, session, held, left, todo, history>>

\* The token is revoked or has expired, or the call is lost.
FetchFails(p) ==
  /\ pc[p] = "fetch"
  /\ Quit(p)
  /\ UNCHANGED <<service, cache>>

Store(p) ==
  /\ pc[p] = "store"
  /\ cache' = [cache EXCEPT ![session[p]] = "usable"]
  /\ since' = [q \in Procs |-> IF pc[q] = "sweep" THEN since[q] \cup {session[p]}
                              ELSE since[q]]
  /\ missed' = missed \ {session[p]}
  /\ End(p)
  /\ UNCHANGED <<service, out>>

\* Without the cache entry the command fails, although it has credentials.
StoreFails(p) ==
  /\ pc[p] = "store"
  /\ Quit(p)
  /\ UNCHANGED <<service, cache>>

\* An AWS CLI dies half way through the write, which it does in place.
StoreBreaks(p) ==
  /\ pc[p] = "store"
  /\ cache' = [cache EXCEPT ![session[p]] = "unreadable"]
  /\ Quit(p)
  /\ UNCHANGED service

-----------------------------------------------------------------------------
\* gac logout

Logout(p) ==
  /\ pc[p] = "idle"
  /\ \E asked \in SUBSET Sessions : left' = [left EXCEPT ![p] = asked]
  /\ Go(p, "sessions")
  /\ UNCHANGED <<service, cache, session, held, todo, history>>

LogoutNext(p) ==
  /\ pc[p] = "sessions"
  /\ \E s \in left[p] :
       /\ LockFree(s)
       /\ session' = [session EXCEPT ![p] = s]
       /\ left' = [left EXCEPT ![p] = @ \ {s}]
       /\ quiet' = [quiet EXCEPT ![p] = @ \cup {s}]
  /\ Go(p, "revoke")
  /\ UNCHANGED <<service, cache, held, todo, since, missed, out>>

\* sso:Logout may fail, and is left out for a token that is missing, expired or
\* cannot be read.
Revoke(p) ==
  /\ pc[p] = "revoke"
  /\ live' \in {live, live \ {token[session[p]]}}
  /\ Go(p, "delete")
  /\ UNCHANGED <<token, issued, cache, session, held, left, todo, history>>

\* Mutant: a token that could not be revoked is kept.
DeletedIfRevoked(t, s) == IF t[s] \in live THEN t ELSE [t EXCEPT ![s] = 0]

Deleted(t, s) == [t EXCEPT ![s] = 0]

Delete(p) ==
  /\ pc[p] = "delete"
  /\ token' = Deleted(token, session[p])
  /\ session' = [session EXCEPT ![p] = Nobody]
  /\ Go(p, "sessions")
  /\ UNCHANGED <<live, issued, cache, held, left, todo, history>>

\* The lock is not to be had, or a deletion fails: no further session is signed
\* out, and nothing is swept.
LogoutFails(p) ==
  /\ pc[p] \in {"sessions", "delete", "sweep"}
  /\ Quit(p)
  /\ UNCHANGED <<service, cache>>

\* Mutant: only the sessions that were named are swept.
ListedAlone(p) == {s \in Sessions : cache[s] # "none" /\ s \in quiet[p]}

Listed(p) == {s \in Sessions : cache[s] # "none"}

\* Mutant: the sweep does not wait for the sessions that are left.
StartSweepEarly(p) ==
  /\ pc[p] = "sessions"
  /\ todo' = [todo EXCEPT ![p] = Listed(p)]
  /\ since' = [since EXCEPT ![p] = {}]
  /\ quiet' = [quiet EXCEPT ![p] = {s \in @ : ~UnderWay(s)}]
  /\ Go(p, "sweep")
  /\ UNCHANGED <<service, cache, session, held, left, missed, out>>

StartSweep(p) ==
  /\ pc[p] = "sessions"
  /\ left[p] = {}
  /\ todo' = [todo EXCEPT ![p] = Listed(p)]
  /\ since' = [since EXCEPT ![p] = {}]
  /\ quiet' = [quiet EXCEPT ![p] = {s \in @ : ~UnderWay(s)}]
  /\ Go(p, "sweep")
  /\ UNCHANGED <<service, cache, session, held, left, missed, out>>

\* Entries whose JSON says that they came from an SSO token.
IsEntry(s) == cache[s] \in {"usable", "stale"}

\* A file is read, and deleted if it is an entry.
Swept(f) ==
  /\ cache' = IF IsEntry(f) THEN [cache EXCEPT ![f] = "none"] ELSE cache
  /\ missed' = missed \ {f}

\* A file whose read fails is passed over, entry or not, and the sweep goes on.
Skipped(f) == UNCHANGED cache /\ missed' = missed \cup {f}

SweepOne(p) ==
  /\ pc[p] = "sweep"
  /\ \E f \in todo[p] :
       /\ todo' = [todo EXCEPT ![p] = @ \ {f}]
       /\ Swept(f) \/ Skipped(f)
  /\ UNCHANGED <<service, pc, session, held, left, since, quiet, out>>

EndSweep(p) ==
  /\ pc[p] = "sweep"
  /\ todo[p] = {}
  /\ out' = out \cup quiet[p]
  /\ since' = [since EXCEPT ![p] = {}]
  /\ End(p)
  /\ UNCHANGED <<service, cache, missed>>

-----------------------------------------------------------------------------
\* What happens besides

SignIn ==
  \E s \in Sessions :
    /\ Grant(s)
    /\ quiet' = [p \in Procs |-> quiet[p] \ {s}]
    /\ out' = out \ {s}
    /\ UNCHANGED <<cache, pc, session, held, left, todo, since, missed>>

\* Credentials come near their end.
Age ==
  /\ \E s \in Sessions :
       cache[s] = "usable" /\ cache' = [cache EXCEPT ![s] = "stale"]
  /\ UNCHANGED <<service, pc, session, held, left, todo, history>>

Die(p) == pc[p] # "idle" /\ Quit(p) /\ UNCHANGED <<service, cache>>

-----------------------------------------------------------------------------
Step(p) ==
  \/ Credentials(p) \/ UseToken(p) \/ LoginRequired(p) \/ GetRoleCredentials(p)
  \/ FetchFails(p) \/ Store(p) \/ StoreFails(p) \/ StoreBreaks(p)
  \/ Logout(p) \/ LogoutNext(p) \/ Revoke(p) \/ Delete(p) \/ LogoutFails(p)
  \/ StartSweep(p) \/ SweepOne(p) \/ EndSweep(p) \/ Die(p)

Next == SignIn \/ Age \/ \E p \in Procs : Step(p)

Spec == Init /\ [][Next]_vars

-----------------------------------------------------------------------------
TypeOK ==
  /\ token \in [Sessions -> 0 .. issued]
  /\ live \subseteq 1 .. issued
  /\ issued \in Nat
  /\ cache \in [Sessions -> Entry]
  /\ pc \in [Procs -> PC]
  /\ session \in [Procs -> Sessions \cup {Nobody}]
  /\ held \in [Procs -> 0 .. issued]
  /\ left \in [Procs -> SUBSET Sessions]
  /\ todo \in [Procs -> SUBSET Sessions]
  /\ since \in [Procs -> SUBSET Sessions]
  /\ quiet \in [Procs -> SUBSET Sessions]
  /\ missed \subseteq Sessions
  /\ out \subseteq Sessions
  /\ \A p \in Procs :
       /\ pc[p] \in {"token"} \cup Fetching \cup Signing => session[p] \in Sessions
       /\ left[p] # {} => pc[p] \in {"sessions"} \cup Signing

\* Cached credentials in a file that no sweep failed to read since it was
\* stored: a read that fails is not an error of `gac logout`
\* (auth/mod.rs:320-322).
Stray(s) == IsEntry(s) /\ s \notin missed

\* Signing out ends access on this machine: once a sign-out is over, and no
\* call for the session was under way when its sweep began, there is no token,
\* no call that could bring credentials back, and none cached but in a file a
\* sweep could not read, whether or not the service revoked the token
\* (logout.rs:1-2, auth/mod.rs:294-302).
SignedOutMeansOut ==
  \A s \in out : token[s] = 0 /\ ~Stray(s) /\ ~UnderWay(s)

\* Of every session, a sweep leaves behind it only what was stored since it
\* began and what it could not read, whatever is stored, deleted and swept at
\* the same time (auth/mod.rs:306-310).
SweepMissesNothing ==
  \A p \in Procs : pc[p] = "sweep" =>
    \A s \in Sessions : Stray(s) => s \in todo[p] \cup since[p]

=============================================================================
