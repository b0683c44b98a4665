------------------------------- MODULE SignIn --------------------------------
(***************************************************************************)
(* `gac login` by several processes: the cache of client registrations, the*)
(* wait for the browser's redirect on a loopback port, the polling for a   *)
(* device code, and the token that is saved.                               *)
(*                                                                         *)
(* An attempt's number stands for its state, verifier or device code, and  *)
(* for the code that a browser brings back from it.  Time runs in steps,   *)
(* for each process by itself.                                             *)
(***************************************************************************)
EXTENDS Integers, Sequences

CONSTANTS
  Procs,
  Sessions,
  Legacy,        \* profiles with an inline start URL
  Ports,
  Conns,         \* bound on the connections of a wait at a time
  Intervals,     \* what the service may ask for between polls
  Lifetimes,     \* of a device code
  DefaultInterval, SlowDownStep, PkceTimeout,
  None,
  MaxAttempts,   \* bound on the requests to sign in
  MaxClients     \* bound on the registrations

\* An outcome is served once the browser has the answer to it, or its connection
\* is lost (history).
Outcomes == [of : 1 .. MaxAttempts, result : {"code", "error"}, served : BOOLEAN]

ASSUME SignInAssumption ==
  /\ Legacy \subseteq Sessions
  /\ None \notin Sessions \cup Ports
  /\ None \notin Outcomes
  /\ Intervals \subseteq Nat /\ Lifetimes \subseteq Nat
  /\ {DefaultInterval, SlowDownStep, PkceTimeout} \subseteq Nat \ {0}
  /\ MaxAttempts \in Nat /\ MaxClients \in Nat

VARIABLES
  registration,  \* the cached client of each grant and session, 0 if none
  clients,       \* what each client was registered for
  stale,         \* the clients with 15 minutes left or less
  token,         \* the token file of each session
  attempts,      \* the requests to sign in, with their port and client
  pc,
  grant,         \* the flow of a login
  session,
  client,
  attempt,       \* its request, 0 before it
  left,          \* time until the deadline of its wait
  conn,          \* the connections of a loopback and what each brought
  channel,       \* the outcome on its way to the loop
  napping,       \* whether the loop sleeps after a failed accept
  code,          \* what the wait ended with, 0 before
  interval,      \* between two polls
  wait,          \* what is left of the sleep
  since,         \* time since the last answer (history)
  need           \* what the service asked for by then (history)

files == <<registration, clients, stale, token>>
who == <<grant, session, client>>
loopback == <<conn, channel, napping, code>>
polling == <<interval, wait, since, need>>
vars == <<files, attempts, pc, who, attempt, left, loopback, polling>>

Grants == {"authorization_code", "device_code"}
Keys == [grant : Grants, session : Sessions]
Closed == [at |-> "closed", outcome |-> None]

Init ==
  /\ registration = [k \in Keys |-> 0]
  /\ clients = <<>>
  /\ stale = {}
  /\ token = [s \in Sessions |-> None]
  /\ attempts = <<>>
  /\ pc = [p \in Procs |-> "idle"]
  /\ grant = [p \in Procs |-> None]
  /\ session = [p \in Procs |-> None]
  /\ client = [p \in Procs |-> 0]
  /\ attempt = [p \in Procs |-> 0]
  /\ left = [p \in Procs |-> 0]
  /\ conn = [p \in Procs |-> [c \in Conns |-> Closed]]
  /\ channel = [p \in Procs |-> None]
  /\ napping = [p \in Procs |-> FALSE]
  /\ code = [p \in Procs |-> 0]
  /\ interval = [p \in Procs |-> 0]
  /\ wait = [p \in Procs |-> 0]
  /\ since = [p \in Procs |-> 0]
  /\ need = [p \in Procs |-> 0]

Go(p, at) == pc' = [pc EXCEPT ![p] = at]

\* A command that ends takes its listener, connections and timers with it.
Return(p) ==
  /\ Go(p, "idle")
  /\ grant' = [grant EXCEPT ![p] = None]
  /\ session' = [session EXCEPT ![p] = None]
  /\ client' = [client EXCEPT ![p] = 0]
  /\ attempt' = [attempt EXCEPT ![p] = 0]
  /\ left' = [left EXCEPT ![p] = 0]
  /\ conn' = [conn EXCEPT ![p] = [c \in Conns |-> Closed]]
  /\ channel' = [channel EXCEPT ![p] = None]
  /\ napping' = [napping EXCEPT ![p] = FALSE]
  /\ code' = [code EXCEPT ![p] = 0]
  /\ interval' = [interval EXCEPT ![p] = 0]
  /\ wait' = [wait EXCEPT ![p] = 0]
  /\ since' = [since EXCEPT ![p] = 0]
  /\ need' = [need EXCEPT ![p] = 0]

Leave(p) == Return(p) /\ UNCHANGED <<files, attempts>>

-----------------------------------------------------------------------------
\* auth::login and registration::obtain

\* A legacy profile has no scopes to name in an /authorize request.
Begin(p) ==
  /\ pc[p] = "idle"
  /\ \E g \in Grants, s \in Sessions :
       /\ ~(g = "authorization_code" /\ s \in Legacy)
       /\ grant' = [grant EXCEPT ![p] = g]
       /\ session' = [session EXCEPT ![p] = s]
  /\ Go(p, "obtain")
  /\ UNCHANGED <<files, attempts, client, attempt, left, loopback, polling>>

Key(p) == [grant |-> grant[p], session |-> session[p]]

Request(p) == IF grant[p] = "device_code" THEN "start" ELSE "listen"

UseCached(p) ==
  /\ pc[p] = "obtain"
  /\ registration[Key(p)] \notin {0} \cup stale
  /\ client' = [client EXCEPT ![p] = registration[Key(p)]]
  /\ Go(p, Request(p))
  /\ UNCHANGED <<files, attempts, grant, session, attempt, left, loopback, polling>>

\* Nothing locks the cache: processes may register side by side.
Register(p) ==
  /\ pc[p] = "obtain"
  /\ registration[Key(p)] \in {0} \cup stale
  /\ Len(clients) < MaxClients
  /\ clients' = Append(clients, Key(p))
  /\ client' = [client EXCEPT ![p] = Len(clients) + 1]
  /\ Go(p, "cache")
  /\ UNCHANGED <<registration, stale, token, attempts, grant, session, attempt,
                 left, loopback, polling>>

Cache(p) ==
  /\ pc[p] = "cache"
  /\ registration' = [registration EXCEPT ![Key(p)] = client[p]]
  /\ Go(p, Request(p))
  /\ UNCHANGED <<clients, stale, token, attempts, who, attempt, left, loopback, polling>>

\* Mutant: the client is looked up again for the token.
CarriedFromCache(p) == registration[Key(p)]

Carried(p) == client[p]

\* The lock of the token, and what it holds, are in TokenCache.
Save(p) ==
  /\ pc[p] = "save"
  /\ token' = [token EXCEPT ![session[p]] =
       [client |-> Carried(p), issued |-> attempts[attempt[p]].client]]
  /\ Return(p)
  /\ UNCHANGED <<registration, clients, stale, attempts>>

\* What `?` hands on: a file, a port, a lock or a request that failed.
Fail(p) ==
  /\ pc[p] \in {"obtain", "cache", "listen", "start", "exchange", "save"}
  /\ Leave(p)

-----------------------------------------------------------------------------
\* pkce::login and Loopback

Asks(p, port, within) ==
  /\ Len(attempts) < MaxAttempts
  /\ attempts' = Append(attempts, [port |-> port, client |-> client[p]])
  /\ attempt' = [attempt EXCEPT ![p] = Len(attempts) + 1]
  /\ left' = [left EXCEPT ![p] = within]

Port(p) == attempts[attempt[p]].port

\* The port of a command that ended may serve the next one.
Listen(p) ==
  /\ pc[p] = "listen"
  /\ \E n \in Ports :
       /\ \A q \in Procs : pc[q] = "wait" => Port(q) # n
       /\ Asks(p, n, PkceTimeout)
  /\ Go(p, "wait")
  /\ UNCHANGED <<files, who, loopback, polling>>

\* Mutant: a connection is served in the loop that accepts the next one.
LoopingAlone(p) ==
  pc[p] = "wait" /\ ~napping[p] /\ \A c \in Conns : conn[p][c].at \notin {"open", "answering"}

Looping(p) == pc[p] = "wait" /\ ~napping[p]

Becomes(p, c, at, outcome) ==
  conn' = [conn EXCEPT ![p][c] = [at |-> at, outcome |-> outcome]]

Accept(p, c) ==
  /\ Looping(p)
  /\ conn[p][c].at = "closed"
  /\ Becomes(p, c, "open", None)
  /\ UNCHANGED <<files, attempts, pc, who, attempt, left, channel, napping, code, polling>>

AcceptFails(p) ==
  /\ Looping(p)
  /\ napping' = [napping EXCEPT ![p] = TRUE]
  /\ UNCHANGED <<files, attempts, pc, who, attempt, left, conn, channel, code, polling>>

EndNap(p) ==
  /\ napping[p]
  /\ napping' = [napping EXCEPT ![p] = FALSE]
  /\ UNCHANGED <<files, attempts, pc, who, attempt, left, conn, channel, code, polling>>

\* Mutant: whatever comes to the port answers the login.
ExpectedAny(p, a) == TRUE

Expected(p, a) == a = attempt[p]

\* A connection may bring the redirect of any request that named this port, a
\* reload too, or something that is answered and ignored, or nothing for ever.
Handle(p, c) ==
  /\ conn[p][c].at = "open"
  /\ \/ Becomes(p, c, "closed", None)
     \/ \E a \in DOMAIN attempts, r \in {"code", "error"} :
          /\ attempts[a].port = Port(p)
          /\ Expected(p, a)
          /\ Becomes(p, c, "answering", [of |-> a, result |-> r, served |-> FALSE])
  /\ UNCHANGED <<files, attempts, pc, who, attempt, left, channel, napping, code, polling>>

\* The response is written, or the browser is gone and it cannot be: what
\* serve_connection returns is dropped, and the outcome reported either way.
Served(p, c) ==
  /\ conn[p][c].at = "answering"
  /\ Becomes(p, c, "reporting", [conn[p][c].outcome EXCEPT !.served = TRUE])
  /\ UNCHANGED <<files, attempts, pc, who, attempt, left, channel, napping, code, polling>>

\* Mutant: the outcome is sent by the handler.
ReportingEarly(p, c) == conn[p][c].outcome # None

Reporting(p, c) == conn[p][c].at = "reporting"

\* The channel holds one outcome.
Report(p, c) ==
  /\ Reporting(p, c)
  /\ channel[p] = None
  /\ channel' = [channel EXCEPT ![p] = conn[p][c].outcome]
  /\ Becomes(p, c, "closed", None)
  /\ UNCHANGED <<files, attempts, pc, who, attempt, left, napping, code, polling>>

\* Connections that are left can no longer report.
ReceiveCode(p) ==
  /\ Looping(p)
  /\ channel[p] # None
  /\ channel[p].result = "code"
  /\ code' = [code EXCEPT ![p] = channel[p].of]
  /\ channel' = [channel EXCEPT ![p] = None]
  /\ conn' = [conn EXCEPT ![p] = [c \in Conns |-> Closed]]
  /\ Go(p, "exchange")
  /\ UNCHANGED <<files, attempts, who, attempt, left, napping, polling>>

ReceiveError(p) ==
  /\ Looping(p)
  /\ channel[p] # None
  /\ channel[p].result = "error"
  /\ Leave(p)

\* One of the loop's branches that are ready is taken, whichever.
Deadline(p) ==
  /\ Looping(p)
  /\ left[p] = 0
  /\ Leave(p)

\* The service compares the verifier with the challenge of the code's request.
Exchange(p) ==
  /\ pc[p] = "exchange"
  /\ code[p] = attempt[p]
  /\ Go(p, "save")
  /\ UNCHANGED <<files, attempts, who, attempt, left, loopback, polling>>

-----------------------------------------------------------------------------
\* device::login and device_poll::poll

Sleep(p, n) ==
  /\ wait' = [wait EXCEPT ![p] = n]
  /\ since' = [since EXCEPT ![p] = 0]
  /\ Go(p, "sleep")

Start(p) ==
  /\ pc[p] = "start"
  /\ \E i \in Intervals, life \in Lifetimes :
       LET n == IF i = 0 THEN DefaultInterval ELSE i IN
       /\ Asks(p, None, life)
       /\ interval' = [interval EXCEPT ![p] = n]
       /\ need' = [need EXCEPT ![p] = n]
       /\ Sleep(p, n)
  /\ UNCHANGED <<files, who, loopback>>

Attempt(p) ==
  /\ pc[p] = "sleep"
  /\ wait[p] = 0
  /\ left[p] > 0
  /\ Go(p, "poll")
  /\ UNCHANGED <<files, attempts, who, attempt, left, loopback, polling>>

Expire(p) ==
  /\ pc[p] = "sleep"
  /\ wait[p] = 0
  /\ left[p] = 0
  /\ Leave(p)

\* Mutant: the sleep ends just before the deadline, though that may be past: the
\* difference of the two is no Duration.
PauseUnderflows(p, n) == IF left[p] <= n THEN left[p] - 1 ELSE n

\* Mutant: the last sleep is cut short so that one more attempt fits in.
PauseInTime(p, n) == IF left[p] > 0 /\ left[p] <= n THEN left[p] - 1 ELSE n

Pause(p, n) == n

Pending(p) ==
  /\ pc[p] = "poll"
  /\ Sleep(p, Pause(p, interval[p]))
  /\ UNCHANGED <<files, attempts, who, attempt, left, loopback, interval, need>>

SlowDown(p) ==
  /\ pc[p] = "poll"
  /\ interval' = [interval EXCEPT ![p] = @ + SlowDownStep]
  /\ need' = [need EXCEPT ![p] = @ + SlowDownStep]
  /\ Sleep(p, Pause(p, interval[p] + SlowDownStep))
  /\ UNCHANGED <<files, attempts, who, attempt, left, loopback>>

Ready(p) ==
  /\ pc[p] = "poll"
  /\ Go(p, "save")
  /\ UNCHANGED <<files, attempts, who, attempt, left, loopback, polling>>

\* The code expired at the service, was denied, or the request failed.
Refused(p) == pc[p] = "poll" /\ Leave(p)

-----------------------------------------------------------------------------
\* What happens besides

\* The clock, which the code reads and compares with a deadline: here it is the
\* time left, and it is enough to know that there is none.
Less(n) == IF n = 0 THEN 0 ELSE n - 1

Tick(p) ==
  /\ pc[p] \in {"wait", "sleep", "poll"}
  /\ left[p] > 0 \/ wait[p] > 0
  /\ left' = [left EXCEPT ![p] = Less(@)]
  /\ wait' = [wait EXCEPT ![p] = Less(@)]
  /\ since' = [since EXCEPT ![p] = IF @ < need[p] THEN @ + 1 ELSE @]
  /\ UNCHANGED <<files, attempts, pc, who, attempt, loopback, interval, need>>

\* A client has 15 minutes left, which shows once it is cached.
ClientAges ==
  /\ \E k \in Keys : /\ registration[k] \notin {0} \cup stale
                     /\ stale' = stale \cup {registration[k]}
  /\ UNCHANGED <<registration, clients, token, attempts, pc, who, attempt, left,
                 loopback, polling>>

Die(p) == pc[p] # "idle" /\ Leave(p)

-----------------------------------------------------------------------------
Connection(p, c) ==
  Accept(p, c) \/ Handle(p, c) \/ Served(p, c) \/ Report(p, c)

\* A process waits for the answer to a request that has no timeout (sdk.rs).
Awaiting == {"obtain", "start", "exchange", "poll"}

\* Steps that a process takes by itself, in its turn ...
Local(p) ==
  \/ UseCached(p) \/ Cache(p) \/ Listen(p) \/ Save(p)
  \/ EndNap(p) \/ ReceiveCode(p) \/ ReceiveError(p) \/ Attempt(p) \/ Expire(p)
  \/ pc[p] \notin Awaiting /\ Fail(p)

\* ... and those it takes when the service answers its request or refuses it.
Answer(p) ==
  \/ Register(p) \/ Start(p) \/ Exchange(p)
  \/ Pending(p) \/ SlowDown(p) \/ Ready(p) \/ Refused(p)
  \/ pc[p] \in Awaiting /\ Fail(p)

Proceed(p) == Local(p) \/ Answer(p)

Step(p) ==
  \/ Begin(p) \/ Proceed(p) \/ AcceptFails(p) \/ Deadline(p) \/ Tick(p) \/ Die(p)
  \/ \E c \in Conns : Connection(p, c)

Next == ClientAges \/ \E p \in Procs : Step(p)

Spec == Init /\ [][Next]_vars

\* Time passes, and of the branches that are ready again and again `select!`,
\* which draws among them, takes each at some time.  The service owes nothing.
FairSpec ==
  /\ Spec
  /\ \A p \in Procs : WF_vars(Local(p)) /\ WF_vars(Tick(p)) /\ SF_vars(Deadline(p))

-----------------------------------------------------------------------------
States == {"idle", "obtain", "cache", "listen", "wait", "exchange", "start", "sleep",
           "poll", "save"}

Connections == [at : {"closed", "open", "answering", "reporting"},
                outcome : Outcomes \cup {None}]

TypeOK ==
  /\ clients \in Seq(Keys) /\ Len(clients) <= MaxClients
  /\ registration \in [Keys -> 0 .. Len(clients)]
  /\ stale \subseteq 1 .. Len(clients)
  /\ token \in [Sessions -> [client : 1 .. Len(clients), issued : 1 .. Len(clients)] \cup {None}]
  /\ attempts \in Seq([port : Ports \cup {None}, client : 1 .. Len(clients)])
  /\ Len(attempts) <= MaxAttempts
  /\ pc \in [Procs -> States]
  /\ grant \in [Procs -> Grants \cup {None}]
  /\ session \in [Procs -> Sessions \cup {None}]
  /\ client \in [Procs -> 0 .. Len(clients)]
  /\ attempt \in [Procs -> 0 .. Len(attempts)]
  /\ conn \in [Procs -> [Conns -> Connections]]
  /\ channel \in [Procs -> Outcomes \cup {None}]
  /\ napping \in [Procs -> BOOLEAN]
  /\ code \in [Procs -> 0 .. Len(attempts)]
  /\ left \in [Procs -> Nat] /\ interval \in [Procs -> Nat] /\ wait \in [Procs -> Nat]
  /\ since \in [Procs -> Nat] /\ need \in [Procs -> Nat]

\* What a wait ends with is the answer to its own request: not a redirect of an
\* earlier login that had the port, whose tab is still open, nor a stray
\* (loopback.rs:1-3, 145-150).
WaitEndsWithItsOwn ==
  \A p \in Procs :
    /\ channel[p] # None => channel[p].of = attempt[p]
    /\ pc[p] = "exchange" => code[p] = attempt[p]

\* The command hears an outcome, and goes on with it or fails and takes its
\* tasks with it, only when the browser has had its answer or the connection to
\* it was lost: never while the answer is being written (loopback.rs:96-103).
AnswerComesFirst == \A p \in Procs : channel[p] # None => channel[p].served

\* A token is kept with the client it was issued to, which is registered for
\* its session, whichever client another login cached meanwhile: else no
\* refresh of it would be served (auth/mod.rs:147-182).
TokenKeepsItsClient ==
  \A s \in Sessions :
    token[s] # None =>
      /\ token[s].client = token[s].issued
      /\ clients[token[s].client].session = s

\* No poll comes sooner after the last answer than the service asked for, each
\* slow_down counted, and none after the device code has expired
\* (device_poll.rs:9-10, 29).
PollsArePaced ==
  [][\A p \in Procs : pc[p] = "sleep" /\ pc'[p] = "poll" => since[p] >= need[p] /\ left[p] > 0]_vars

\* Every login whose requests the service answers comes to an end: connections
\* that never send a request, accepts that fail and a service that answers
\* `pending` for ever do not keep it (loopback.rs:76-89, 108; device_poll.rs:47).
LoginsEnd ==
  \A p \in Procs : WF_vars(Answer(p)) => (pc[p] # "idle" ~> pc[p] = "idle")

=============================================================================
