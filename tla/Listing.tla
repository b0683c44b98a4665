------------------------------- MODULE Listing -------------------------------
(***************************************************************************)
(* The listing of accounts and roles of one session: Context::accounts with*)
(* the inventory cache it reads and writes without a lock, and the portal's*)
(* fan-out of one ListAccountRoles call per account, by several processes. *)
(*                                                                         *)
(* A scope stands for start URL, region and token lineage.  Answers of the *)
(* service are told apart by account, and listings by the state, a number, *)
(* that the user's assignments were in when they began.                    *)
(***************************************************************************)
EXTENDS Integers, FiniteSets, Sequences

CONSTANTS
  Procs,
  Scopes,
  Nobody,       \* no scope
  Accounts,     \* numbered by name, as the listing is sorted
  FanOut,       \* calls at a time
  MaxVersion    \* bound on the changes of the assignments

ASSUME ListingAssumption ==
  /\ Nobody \notin Scopes
  /\ Accounts \subseteq Nat \ {0}
  /\ FanOut \in Nat \ {0} /\ MaxVersion \in Nat \ {0}

VARIABLES
  version,     \* the state of the user's assignments
  inventory,   \* the cache file
  fresh,       \* whether its stamp is in the last hour by the clock
  pc,
  refresh,     \* whether a call passes the cache by
  mine,        \* the scope of a call
  accounts,    \* the accounts that were listed, and whose roles each has
  task,        \* the state of the call for each of them
  answer,      \* and whose roles it returned
  asked,       \* the version that the listing began in
  permits,     \* what is left of the semaphore of a listing
  floor,       \* how recent a listing was stored, by scope (history)
  base         \* what floor was when a call began (history)

file == <<inventory, fresh>>
fanout == <<accounts, task, answer, permits, asked>>
history == <<floor, base>>
vars == <<version, file, pc, refresh, mine, fanout, history>>

None == [scope |-> Nobody]

Task == {"waiting", "calling", "answered", "failed", "joined"}

Init ==
  /\ version = 1
  /\ inventory = None
  /\ fresh = FALSE
  /\ pc = [p \in Procs |-> "idle"]
  /\ refresh = [p \in Procs |-> FALSE]
  /\ mine = [p \in Procs |-> Nobody]
  /\ accounts = [p \in Procs |-> <<>>]
  /\ task = [p \in Procs |-> <<>>]
  /\ answer = [p \in Procs |-> <<>>]
  /\ permits = [p \in Procs |-> FanOut]
  /\ asked = [p \in Procs |-> 0]
  /\ floor = [s \in Scopes |-> 0]
  /\ base = [p \in Procs |-> 0]

Go(p, at) == pc' = [pc EXCEPT ![p] = at]

\* Mutant: the calls that are left over run on.
AbortLater(t) == t

\* Dropping the JoinSet aborts what it still holds.
Abort(t) == <<>>

Return(p) ==
  /\ Go(p, "idle")
  /\ mine' = [mine EXCEPT ![p] = Nobody]
  /\ refresh' = [refresh EXCEPT ![p] = FALSE]
  /\ accounts' = [accounts EXCEPT ![p] = <<>>]
  /\ task' = [task EXCEPT ![p] = Abort(@)]
  /\ answer' = [answer EXCEPT ![p] = <<>>]
  /\ permits' = [permits EXCEPT ![p] = FanOut]
  /\ asked' = [asked EXCEPT ![p] = 0]
  /\ base' = [base EXCEPT ![p] = 0]

Leave(p) == Return(p) /\ UNCHANGED <<version, file, floor>>

-----------------------------------------------------------------------------
\* Context::accounts

Begin(p) ==
  /\ pc[p] = "idle"
  /\ refresh' \in {[refresh EXCEPT ![p] = r] : r \in BOOLEAN}
  /\ Go(p, "token")
  /\ UNCHANGED <<version, file, mine, fanout, history>>

\* Whoever is signed in by then, wherever the config says: sign-ins, refreshes
\* that rotate and other start URLs come between any two steps.
UseToken(p) ==
  /\ pc[p] = "token"
  /\ \E s \in Scopes :
       /\ mine' = [mine EXCEPT ![p] = s]
       /\ base' = [base EXCEPT ![p] = floor[s]]
  /\ Go(p, "look")
  /\ UNCHANGED <<version, file, refresh, fanout, floor>>

LoginRequired(p) == pc[p] = "token" /\ Leave(p)

\* Mutant: the file is the session's, so its scope need not be looked at.
LoadedAnyway(s) == inventory

Loaded(s) == IF inventory.scope = s THEN inventory ELSE None

Served(p) == ~refresh[p] /\ fresh /\ Loaded(mine[p]) # None

FromCache(p) ==
  /\ pc[p] = "look"
  /\ Served(p)
  /\ Leave(p)

Snapshot(p) == [scope |-> mine[p], asked |-> asked[p], items |-> accounts[p]]

\* Mutant: a snapshot that is still fresh is not written again.
StoredIfDue(p) == IF fresh /\ Loaded(mine[p]) # None THEN inventory ELSE Snapshot(p)

Stored(p) == Snapshot(p)

Store(p) ==
  /\ pc[p] = "store"
  /\ inventory' = Stored(p)
  /\ fresh' = TRUE
  /\ floor' = IF \A q \in Procs \ {p} : pc[q] \notin {"roles", "store"}
              THEN [floor EXCEPT ![mine[p]] = asked[p]]
              ELSE floor
  /\ Return(p)
  /\ UNCHANGED version

StoreFails(p) == pc[p] = "store" /\ Leave(p)

-----------------------------------------------------------------------------
\* Portal::accounts_with_roles

\* Accounts in the order of their names.
Sorted ==
  {s \in UNION {[1 .. n -> Accounts] : n \in 0 .. Cardinality(Accounts)} :
     \A i, j \in DOMAIN s : i < j => s[i] < s[j]}

\* ListAccounts, and a task for each account.
ListAccounts(p) ==
  /\ pc[p] = "look"
  /\ ~Served(p)
  /\ \E listed \in Sorted :
       /\ accounts' = [accounts EXCEPT ![p] =
            [i \in DOMAIN listed |-> [id |-> listed[i], roles |-> 0]]]
       /\ task' = [task EXCEPT ![p] = [i \in DOMAIN listed |-> "waiting"]]
       /\ answer' = [answer EXCEPT ![p] = [i \in DOMAIN listed |-> 0]]
  /\ asked' = [asked EXCEPT ![p] = version]
  /\ base' = [base EXCEPT ![p] = 0]
  /\ refresh' = [refresh EXCEPT ![p] = FALSE]
  /\ Go(p, "roles")
  /\ UNCHANGED <<version, file, mine, permits, floor>>

ListFails(p) == pc[p] = "look" /\ ~Served(p) /\ Leave(p)

Becomes(p, i, state) == task' = [task EXCEPT ![p][i] = state]

Acquire(p, i) ==
  /\ task[p][i] = "waiting"
  /\ permits[p] > 0
  /\ permits' = [permits EXCEPT ![p] = @ - 1]
  /\ Becomes(p, i, "calling")
  /\ UNCHANGED <<accounts, answer>>

\* Mutant: a permit is given back by the task and again with its answer.
ReleasedTwice(n) == n + 2

Released(n) == n + 1

\* The permit goes with the task, which ends with its answer.
ListAccountRoles(p, i) ==
  /\ task[p][i] = "calling"
  /\ permits' = [permits EXCEPT ![p] = Released(@)]
  /\ \/ /\ answer' = [answer EXCEPT ![p][i] = accounts[p][i].id]
        /\ Becomes(p, i, "answered")
     \/ Becomes(p, i, "failed") /\ UNCHANGED answer
  /\ UNCHANGED accounts

\* Mutant: roles go to the accounts in the order they arrive in.
PlaceOfArrival(p, i) ==
  1 + Cardinality({j \in DOMAIN task[p] : task[p][j] = "joined"})

Place(p, i) == i

JoinNext(p, i) ==
  /\ task[p][i] = "answered"
  /\ accounts' = [accounts EXCEPT ![p][Place(p, i)].roles = answer[p][i]]
  /\ Becomes(p, i, "joined")
  /\ UNCHANGED <<answer, permits>>

Roles(p) ==
  /\ pc[p] = "roles"
  /\ \E i \in DOMAIN task[p] : Acquire(p, i) \/ ListAccountRoles(p, i) \/ JoinNext(p, i)
  /\ UNCHANGED <<version, file, pc, refresh, mine, asked, history>>

\* The first call that failed fails the listing.
JoinFails(p) ==
  /\ pc[p] = "roles"
  /\ \E i \in DOMAIN task[p] : task[p][i] = "failed"
  /\ Leave(p)

AllListed(p) ==
  /\ pc[p] = "roles"
  /\ \A i \in DOMAIN task[p] : task[p][i] = "joined"
  /\ Go(p, "store")
  /\ UNCHANGED <<version, file, refresh, mine, fanout, history>>

-----------------------------------------------------------------------------
\* What happens besides

AssignmentsChange ==
  /\ version < MaxVersion
  /\ version' = version + 1
  /\ UNCHANGED <<file, pc, refresh, mine, fanout, history>>

\* An hour passes, or the clock is set.
Clock ==
  /\ inventory # None
  /\ fresh' = ~fresh
  /\ UNCHANGED <<version, inventory, pc, refresh, mine, fanout, history>>

Die(p) == pc[p] # "idle" /\ Leave(p)

-----------------------------------------------------------------------------
Step(p) ==
  \/ Begin(p) \/ UseToken(p) \/ LoginRequired(p) \/ FromCache(p)
  \/ ListAccounts(p) \/ ListFails(p) \/ Roles(p) \/ JoinFails(p) \/ AllListed(p)
  \/ Store(p) \/ StoreFails(p) \/ Die(p)

Next == AssignmentsChange \/ Clock \/ \E p \in Procs : Step(p)

Spec == Init /\ [][Next]_vars

-----------------------------------------------------------------------------
Answer == Accounts \cup {0}
Listed == Seq([id : Accounts, roles : Answer])

TypeOK ==
  /\ version \in 1 .. MaxVersion
  /\ inventory \in {None} \cup [scope : Scopes, asked : 1 .. version, items : Listed]
  /\ fresh \in BOOLEAN
  /\ pc \in [Procs -> {"idle", "token", "look", "roles", "store"}]
  /\ refresh \in [Procs -> BOOLEAN]
  /\ mine \in [Procs -> Scopes \cup {Nobody}]
  /\ accounts \in [Procs -> Listed]
  /\ task \in [Procs -> Seq(Task)]
  /\ answer \in [Procs -> Seq(Answer)]
  /\ permits \in [Procs -> 0 .. FanOut]
  /\ asked \in [Procs -> 0 .. version]
  /\ floor \in [Scopes -> 0 .. version]
  /\ base \in [Procs -> 0 .. version]

\* A listing that is stored has the roles of every account it names, each at
\* its own account, in whatever order the calls ended: `gac sync` prunes the
\* profiles of what a listing does not have (portal.rs:53-71).
ListingIsWhole ==
  inventory # None =>
    \A i \in DOMAIN inventory.items : inventory.items[i].roles = inventory.items[i].id

\* What a call is about to take from the cache was listed for its own start URL,
\* region and sign-in, whoever signs in beside it, and is no older than a
\* listing that was stored, with no other under way, before the call began:
\* the inventory needs no lock (context.rs:103-127, inventory.rs:12-13).
CacheIsCurrent ==
  \A p \in Procs :
    pc[p] = "look" /\ Served(p) =>
      inventory.scope = mine[p] /\ inventory.asked >= base[p]

Calling(p) == {i \in DOMAIN task[p] : task[p][i] = "calling"}

\* A listing makes FanOut calls at most, a task that waits for a permit waits
\* for a call that is under way, and a listing that is over has no call under
\* way, however it ended (portal.rs:19-21, 53-72).
CallsAreContained ==
  \A p \in Procs :
    /\ Cardinality(Calling(p)) <= FanOut
    /\ Calling(p) # {} => pc[p] = "roles"
    /\ (\E i \in DOMAIN task[p] : task[p][i] = "waiting")
         => permits[p] > 0 \/ Calling(p) # {}

=============================================================================
