------------------------------ MODULE TokenCache ------------------------------
(***************************************************************************)
(* The SSO token of one session: the cache file that gac processes, the    *)
(* AWS CLI and the SDKs share, its sidecar lock, and the calls gac makes   *)
(* about it: `usable_token`, `login` and `logout` (src/auth/mod.rs) over   *)
(* the `SsoCache` store (src/auth/token.rs).                               *)
(*                                                                         *)
(* Every process runs one call after another.  An action is the code       *)
(* between two points where another process, the service or the clock can  *)
(* be observed: a read or a write of the file, a step of the lock, a       *)
(* request at the service.  Ctrl-C (cli/mod.rs drops the command's future  *)
(* at its next await) and a killed process are the same step here: the     *)
(* call ends where it is and its lock is released.                         *)
(***************************************************************************)
EXTENDS Naturals

CONSTANTS
  Procs,          \* gac processes
  Nobody,         \* no process holds the lock
  NoToken,        \* the cache file does not exist
  Unreadable,     \* the cache file does not parse as a token
  Lifetime,       \* ticks from a grant to the expiry of its access token
  RefreshWindow,  \* REFRESH_WINDOW, in ticks
  Registrations,  \* when a client registration may expire
  Faults,         \* what may go wrong: a subset of FaultKinds
  MaxGrants,      \* bound on the grants the service issues
  Horizon         \* bound on the clock

FaultKinds == {"crash", "network", "disk", "foreign"}

ASSUME ProcAssumption == Nobody \notin Procs

ASSUME TimeAssumption ==
  /\ Lifetime \in Nat
  /\ RefreshWindow \in Nat
  /\ Registrations \subseteq Nat
  /\ MaxGrants \in Nat
  /\ Horizon \in Nat

ASSUME FaultAssumption == Faults \subseteq FaultKinds

(***************************************************************************)
(* A token names the grant its access token came with and the refresh      *)
(* token it carries (itself named by the grant that issued it; 0 is none). *)
(* A client registration that is absent counts as expired at 0.            *)
(***************************************************************************)
CachedToken ==
  [access : Nat, refresh : Nat, expires : Nat, registration : Nat]

ASSUME FileAssumption ==
  /\ NoToken # Unreadable
  /\ NoToken \notin CachedToken
  /\ Unreadable \notin CachedToken

VARIABLES
  file,      \* the token cache file
  lock,      \* the process that holds the sidecar lock
  pc,        \* where each process is in its call
  held,      \* what a process read last, while its call goes on
  asof,      \* the `now` a process captured with that read
  grant,     \* the token a process was granted and has not saved yet
  result,    \* how the call that ended last did
  now,       \* the clock
  issued,    \* the number of grants the service made
  spent,     \* refresh tokens the service rotated away
  revoked,   \* access tokens the service signed out
  orphaned,  \* refresh tokens rotated away whose successor was never saved
  foreign    \* the token the AWS CLI was granted and has not written yet

service == <<issued, spent, revoked>>
vars == <<file, lock, pc, held, asof, grant, result, now, service, orphaned,
          foreign>>

\* Tokens made of the grants that were issued.
Granted == [access : 1 .. issued, refresh : 0 .. issued, expires : Nat,
            registration : Nat]

Content == Granted \cup {NoToken, Unreadable}

Waiting == {"use_wait", "login_wait", "logout_wait"}
Locked == {"use_locked", "use_refresh", "use_granted", "login_save",
           "logout_locked", "logout_revoke", "logout_delete"}
Pc == {"idle"} \cup Waiting \cup Locked

\* A process holds a grant it has not saved yet.
Unsaved == {"use_granted", "login_wait", "login_save"}

Results == {"none", "ok", "login_required", "config_error", "io_error",
            "timed_out", "interrupted", "signed_in", "signed_out"}

TypeOK ==
  /\ file \in Content
  /\ lock \in Procs \cup {Nobody}
  /\ pc \in [Procs -> Pc]
  /\ held \in [Procs -> Content]
  /\ asof \in [Procs -> Nat]
  /\ grant \in [Procs -> Granted \cup {NoToken}]
  /\ \A p \in Procs : grant[p] # NoToken <=> pc[p] \in Unsaved
  /\ result \in Results
  /\ now \in Nat
  /\ issued \in Nat
  /\ spent \subseteq 1 .. issued
  /\ revoked \subseteq 1 .. issued
  /\ orphaned \subseteq spent
  /\ foreign \in Granted \cup {NoToken}

Init ==
  /\ file = NoToken
  /\ lock = Nobody
  /\ pc = [p \in Procs |-> "idle"]
  /\ held = [p \in Procs |-> NoToken]
  /\ asof = [p \in Procs |-> 0]
  /\ grant = [p \in Procs |-> NoToken]
  /\ result = "none"
  /\ now = 0
  /\ issued = 0
  /\ spent = {}
  /\ revoked = {}
  /\ orphaned = {}
  /\ foreign = NoToken

-------------------------------------------------------------------------------
(* The token, as CachedToken's methods see it.                             *)

IsToken(c) == c \notin {NoToken, Unreadable}

Expired(t, at) == t.expires <= at
Valid(t, at) == t.expires > at /\ t.expires - at >= RefreshWindow
IsRefreshable(t, at) == t.refresh # 0 /\ t.registration > at

\* usable_token's early return: nothing to refresh, or no way to.
Settled(t, at) == Valid(t, at) \/ ~IsRefreshable(t, at)

\* Mutated: a token that is due for a refresh counts as expired.
UsableResultStrict(t, at) == IF Valid(t, at) THEN "ok" ELSE "login_required"

\* usable: the token itself, unless it has expired.
UsableResult(t, at) == IF Expired(t, at) THEN "login_required" ELSE "ok"

-------------------------------------------------------------------------------
(* How a call moves on, and how it ends: the guard of the lock is dropped. *)

Goto(p, label) == pc' = [pc EXCEPT ![p] = label]

Forget(p) ==
  /\ held' = [held EXCEPT ![p] = NoToken]
  /\ asof' = [asof EXCEPT ![p] = 0]
  /\ grant' = [grant EXCEPT ![p] = NoToken]

Finish(p, outcome) ==
  /\ Goto(p, "idle")
  /\ lock' = IF lock = p THEN Nobody ELSE lock
  /\ result' = outcome
  /\ Forget(p)

\* The replacement of the refresh token that p just had rotated is lost.
Orphan(p) ==
  orphaned' = IF pc[p] = "use_granted" THEN orphaned \cup ({held[p].refresh} \cap spent)
                                       ELSE orphaned

\* load_token, then the decision usable_token makes twice: before the lock and under it.
Examine(p, label) ==
  /\ \/ /\ file = NoToken
        /\ Finish(p, "login_required")
     \/ /\ file = Unreadable
        /\ Finish(p, "config_error")
     \/ /\ "disk" \in Faults
        /\ Finish(p, "io_error")
     \/ /\ IsToken(file) /\ Settled(file, now)
        /\ Finish(p, UsableResult(file, now))
     \/ /\ IsToken(file) /\ ~Settled(file, now)
        /\ Goto(p, label)
        /\ held' = [held EXCEPT ![p] = file]
        /\ asof' = [asof EXCEPT ![p] = now]
        /\ UNCHANGED <<lock, result, grant>>
  /\ UNCHANGED <<file, now, service, orphaned, foreign>>

-------------------------------------------------------------------------------
(* The sidecar lock: FileLock::acquire polls it until a deadline.          *)

LockedLabel == [use_wait |-> "use_locked", login_wait |-> "login_save",
                logout_wait |-> "logout_locked"]

\* Mutated: a try never fails, as when every sign-out unlinks the lock file.
LockFreeAlways == TRUE

LockFree == lock = Nobody

Acquire(p) ==
  /\ pc[p] \in Waiting
  /\ LockFree
  /\ lock' = p
  /\ Goto(p, LockedLabel[pc[p]])
  /\ UNCHANGED <<file, held, asof, grant, result, now, service, orphaned, foreign>>

\* Mutated: the lock is waited for without a deadline.
LockTimeoutNever(p) == FALSE

\* The deadline is looked at only after a failed try.
LockTimeout(p) ==
  /\ pc[p] \in Waiting
  /\ ~LockFree
  /\ Finish(p, "timed_out")
  /\ UNCHANGED <<file, now, service, orphaned, foreign>>

-------------------------------------------------------------------------------
(* usable_token                                                            *)

UseToken(p) ==
  /\ pc[p] = "idle"
  /\ Examine(p, "use_wait")

\* Mutated: the cache is not read again under the lock.
RecheckSkipped(p) ==
  /\ pc[p] = "use_locked"
  /\ Goto(p, "use_refresh")
  /\ UNCHANGED <<file, lock, held, asof, grant, result, now, service, orphaned, foreign>>

Recheck(p) ==
  /\ pc[p] = "use_locked"
  /\ Examine(p, "use_refresh")

\* Mutated: the old refresh token is kept even when the service rotated it.
RefreshedKeepsOld(t, at, g, rotates) ==
  [access |-> g, refresh |-> t.refresh, expires |-> at + Lifetime,
   registration |-> t.registration]

\* The token a refresh makes of t: the client is kept, and so is the refresh
\* token when the service does not rotate it.
Refreshed(t, at, g, rotates) ==
  [access |-> g, refresh |-> IF rotates THEN g ELSE t.refresh,
   expires |-> at + Lifetime, registration |-> t.registration]

ServeRefresh(p) ==
  /\ pc[p] = "use_refresh"
  /\ held[p].refresh \notin spent
  /\ issued < MaxGrants
  /\ issued' = issued + 1
  /\ \E rotates \in BOOLEAN :
       /\ spent' = IF rotates THEN spent \cup {held[p].refresh} ELSE spent
       /\ grant' = [grant EXCEPT ![p] = Refreshed(held[p], asof[p], issued', rotates)]
  /\ Goto(p, "use_granted")
  /\ UNCHANGED <<file, lock, held, asof, result, now, revoked, orphaned, foreign>>

\* Mutated: a refresh that failed is taken for one that was granted, and saved.
RefreshFailsSaved(p) ==
  /\ pc[p] = "use_refresh"
  /\ held[p].refresh \in spent \/ issued >= MaxGrants \/ "network" \in Faults
  /\ Goto(p, "use_granted")
  /\ UNCHANGED <<file, lock, held, asof, grant, result, now, service, orphaned, foreign>>

\* The refresh failed: the token is returned as it was if it had not expired.
RefreshFails(p) ==
  /\ \/ pc[p] = "use_refresh" /\ held[p].refresh \in spent       \* invalid_grant
     \/ pc[p] = "use_refresh" /\ issued >= MaxGrants
     \/ pc[p] \in {"use_refresh", "use_granted"} /\ "network" \in Faults
  /\ Orphan(p)
  /\ Finish(p, UsableResult(held[p], asof[p]))
  /\ UNCHANGED <<file, now, service, foreign>>

SaveRefreshed(p) ==
  /\ pc[p] = "use_granted"
  /\ file' = grant[p]
  /\ Finish(p, "ok")
  /\ UNCHANGED <<now, service, orphaned, foreign>>

-------------------------------------------------------------------------------
(* login: the sign-in comes first, the lock only guards the save.          *)

\* Only a session that registered sso:account:access gets a refresh token.
LoginToken(g, refreshable, registration) ==
  [access |-> g, refresh |-> IF refreshable THEN g ELSE 0,
   expires |-> now + Lifetime, registration |-> registration]

SignIn(p) ==
  /\ pc[p] = "idle"
  /\ issued < MaxGrants
  /\ issued' = issued + 1
  /\ \E refreshable \in BOOLEAN, registration \in Registrations :
       grant' = [grant EXCEPT ![p] = LoginToken(issued', refreshable, registration)]
  /\ Goto(p, "login_wait")
  /\ held' = [held EXCEPT ![p] = NoToken]
  /\ UNCHANGED <<file, lock, asof, result, now, spent, revoked, orphaned, foreign>>

SaveLogin(p) ==
  /\ pc[p] = "login_save"
  /\ file' = grant[p]
  /\ Finish(p, "signed_in")
  /\ UNCHANGED <<now, service, orphaned, foreign>>

-------------------------------------------------------------------------------
(* logout                                                                  *)

\* Mutated: the token is read and deleted without the lock.
LogoutUnlocked(p) ==
  /\ pc[p] = "idle"
  /\ Goto(p, "logout_locked")
  /\ held' = [held EXCEPT ![p] = NoToken]
  /\ UNCHANGED <<file, lock, asof, grant, result, now, service, orphaned, foreign>>

Logout(p) ==
  /\ pc[p] = "idle"
  /\ Goto(p, "logout_wait")
  /\ held' = [held EXCEPT ![p] = NoToken]
  /\ UNCHANGED <<file, lock, asof, grant, result, now, service, orphaned, foreign>>

\* Only a token that can be read and has not expired is revoked.
LogoutRead(p) ==
  /\ pc[p] = "logout_locked"
  /\ \/ /\ IsToken(file) /\ ~Expired(file, now)
        /\ held' = [held EXCEPT ![p] = file]
        /\ Goto(p, "logout_revoke")
     \/ /\ \/ IsToken(file) => Expired(file, now)
           \/ "disk" \in Faults                    \* the read failed
        /\ Goto(p, "logout_delete")
        /\ UNCHANGED held
  /\ UNCHANGED <<file, lock, asof, grant, result, now, service, orphaned, foreign>>

\* sso:Logout.  An answer that is lost may follow a request that was served,
\* and the file is deleted either way.
Revoke(p) ==
  /\ pc[p] = "logout_revoke"
  /\ \/ revoked' = revoked \cup {held[p].access}
     \/ "network" \in Faults /\ revoked' = revoked
  /\ Goto(p, "logout_delete")
  /\ UNCHANGED <<file, lock, held, asof, grant, result, now, issued, spent, orphaned,
                 foreign>>

DeleteToken(p) ==
  /\ pc[p] = "logout_delete"
  /\ file' = NoToken
  /\ Finish(p, "signed_out")
  /\ UNCHANGED <<now, service, orphaned, foreign>>

-------------------------------------------------------------------------------
(* Failures, the clock and the AWS CLI.                                    *)

\* The lock file cannot be opened, or a save or a delete fails; the cache file is as it was.
DiskFails(p) ==
  /\ "disk" \in Faults
  /\ pc[p] \in Waiting \cup {"use_granted", "login_save", "logout_delete"}
  /\ Orphan(p)
  /\ Finish(p, "io_error")
  /\ UNCHANGED <<file, now, service, foreign>>

\* Ctrl-C, or a killed process: the operating system releases the lock.
Interrupt(p) ==
  /\ "crash" \in Faults
  /\ pc[p] # "idle"
  /\ Orphan(p)
  /\ Finish(p, "interrupted")
  /\ UNCHANGED <<file, now, service, foreign>>

Tick ==
  /\ now < Horizon
  /\ now' = now + 1
  /\ UNCHANGED <<file, lock, pc, held, asof, grant, result, service, orphaned, foreign>>

\* The AWS CLI takes no lock: it signs in or refreshes ...
ForeignGrant ==
  /\ "foreign" \in Faults
  /\ foreign = NoToken
  /\ issued < MaxGrants
  /\ issued' = issued + 1
  /\ \E registration \in Registrations :
       \/ /\ foreign' = LoginToken(issued', TRUE, registration)
          /\ UNCHANGED spent
       \/ /\ IsToken(file) /\ IsRefreshable(file, now)
          /\ file.refresh \notin spent
          /\ foreign' = Refreshed(file, now, issued', TRUE)
          /\ spent' = spent \cup {file.refresh}
  /\ UNCHANGED <<file, lock, pc, held, asof, grant, result, now, revoked, orphaned>>

\* ... and writes the file some time later.
ForeignSave ==
  /\ foreign # NoToken
  /\ file' = foreign
  /\ foreign' = NoToken
  /\ UNCHANGED <<lock, pc, held, asof, grant, result, now, service, orphaned>>

\* It may also sign out, or be seen while it writes in place.
ForeignDamage ==
  /\ "foreign" \in Faults
  /\ file' \in {NoToken, Unreadable}
  /\ UNCHANGED <<lock, pc, held, asof, grant, result, now, service, orphaned, foreign>>

-------------------------------------------------------------------------------
\* What a process does by itself once its call has begun ...
Local(p) ==
  \/ Acquire(p) \/ LockTimeout(p)
  \/ Recheck(p) \/ SaveLogin(p)
  \/ LogoutRead(p) \/ DeleteToken(p)

\* ... and what it does once the service answers its request, or refuses it.
Answer(p) ==
  \/ ServeRefresh(p) \/ RefreshFails(p) \/ SaveRefreshed(p)
  \/ Revoke(p)

Continue(p) == Local(p) \/ Answer(p)

Begin(p) == UseToken(p) \/ SignIn(p) \/ Logout(p)

Next ==
  \/ \E p \in Procs : Begin(p) \/ Continue(p) \/ DiskFails(p) \/ Interrupt(p)
  \/ Tick
  \/ ForeignGrant \/ ForeignSave \/ ForeignDamage

Spec == Init /\ [][Next]_vars

\* The scheduler runs every process.  The service owes no answer: sdk.rs sets no
\* timeout, so a request may hang for ever, with the lock held.
FairSpec == Spec /\ \A p \in Procs : WF_vars(Local(p))

-------------------------------------------------------------------------------
(***************************************************************************)
(* Properties.  "foreign" in Faults weakens what the lock can promise, as  *)
(* the AWS CLI does not take it.                                           *)
(***************************************************************************)

\* At most one process is inside the section the sidecar lock guards.
MutualExclusion ==
  \A p \in Procs : pc[p] \in Locked => lock = p

\* What a process read under the lock is still what the file holds when it
\* refreshes, saves or revokes: usable_token's re-read and logout's read
\* cannot go stale before they are acted on.
LockedReadIsCurrent ==
  \A p \in Procs :
    pc[p] \in {"use_refresh", "use_granted", "logout_revoke"}
      => file = held[p]

\* Parallel gac processes refresh once: no process presents a refresh token
\* the service already rotated away, unless the successor was lost to a
\* failure between the service's answer and the save.
RefreshOnce ==
  \A p \in Procs :
    pc[p] = "use_refresh" => held[p].refresh \notin spent \ orphaned

\* A new sign-in is asked for only when the cache holds nothing that works:
\* neither a failed refresh nor another process's refresh takes a token away
\* that could still be used.
LoginRequiredIsTrue ==
  [][\A p \in Procs :
       (pc[p] # "idle" /\ pc'[p] = "idle" /\ result' = "login_required")
         => (IsToken(file) => Expired(file, now))]_vars

\* A refresh that was under way when the session was signed out does not bring
\* it back: only a sign-in puts a token where there was none.
OnlySignInFillsEmptyCache ==
  [][(file = NoToken /\ file' # NoToken)
       => \E p \in Procs : pc[p] = "login_save" /\ file' = grant[p]]_vars

\* A call whose own requests are answered comes to an end, however the others
\* behave, and though another's request hangs for ever while it holds the lock:
\* the lock is polled with a deadline and never waited for.
CallsEnd ==
  \A p \in Procs : WF_vars(Answer(p)) => (pc[p] # "idle" ~> pc[p] = "idle")

\* A refresh token is spent, as the cache's users see it, once the process that
\* had it rotated has saved the successor or lost it.
SettledSpent == spent \ {held[p].refresh : p \in {q \in Procs : pc[q] = "use_granted"}}

Ledger == INSTANCE TokenLedger WITH cached <- file, spent <- SettledSpent

\* The lock, the re-read and the save together make a refresh one atomic step
\* of the ledger; sign-ins and sign-outs are single steps between refreshes.
ImplementsLedger == Ledger!Spec

\* "a token another process (or the AWS CLI) already rotated is used as it is"
\* (auth/mod.rs, usable_token): when the service refuses a refresh token
\* because it was rotated, and the cache holds the live token it was rotated
\* to, that token is returned.
RotatedTokenIsUsed ==
  [][\A p \in Procs :
       (/\ pc[p] = "use_refresh" /\ pc'[p] = "idle" /\ result' # "interrupted"
        /\ held[p].refresh \in spent
        /\ IsToken(file) /\ file # held[p] /\ ~Expired(file, now))
         => result' = "ok"]_vars

===============================================================================
