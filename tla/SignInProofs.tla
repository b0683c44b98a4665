----------------------------- MODULE SignInProofs -----------------------------
(***************************************************************************)
(* Theorems about SignIn, for any processes, sessions, ports, connections  *)
(* and intervals.                                                          *)
(***************************************************************************)
EXTENDS SignIn, TLAPS

USE SignInAssumption

\* What a login has by then.
HasClient == States \ {"idle", "obtain"}
HasAsked == {"wait", "exchange", "sleep", "poll", "save"}

Bound(p) ==
  /\ pc[p] # "idle" => Key(p) \in Keys
  /\ pc[p] \in HasClient => client[p] \in 1 .. Len(clients) /\ clients[client[p]] = Key(p)
  /\ pc[p] \in HasAsked => /\ attempt[p] \in 1 .. Len(attempts)
                           /\ attempts[attempt[p]].client = client[p]

\* An outcome that a connection of p brought, and one that it may report.
Own(p, o) == o.of = attempt[p]
Reportable(p, o) == o # None /\ Own(p, o) /\ o.served

\* What a wait has heard so far.
HeardBy(p, c) ==
  /\ conn[p][c].outcome # None => Own(p, conn[p][c].outcome)
  /\ conn[p][c].at = "answering" => conn[p][c].outcome # None
  /\ conn[p][c].at = "reporting" => Reportable(p, conn[p][c].outcome)

Heard(p) ==
  /\ pc[p] # "wait" => channel[p] = None /\ \A c \in Conns : conn[p][c] = Closed
  /\ \A c \in Conns : HeardBy(p, c)
  /\ channel[p] # None => Reportable(p, channel[p])
  /\ pc[p] \notin {"exchange", "save"} => code[p] = 0
  /\ pc[p] = "exchange" => code[p] = attempt[p]

Paced(p) ==
  /\ pc[p] \in {"sleep", "poll"} => need[p] = interval[p]
  /\ pc[p] = "sleep" => wait[p] + since[p] >= need[p]

Registered == \A k \in Keys : registration[k] # 0 => clients[registration[k]] = k

Inv ==
  /\ TypeOK
  /\ \A p \in Procs : Bound(p) /\ Heard(p) /\ Paced(p)
  /\ Registered
  /\ TokenKeepsItsClient

-----------------------------------------------------------------------------
\* The types of what a process has of its own, and of what all share.
OwnTyped ==
  /\ pc \in [Procs -> States]
  /\ grant \in [Procs -> Grants \cup {None}]
  /\ session \in [Procs -> Sessions \cup {None}]
  /\ client \in [Procs -> 0 .. Len(clients)]
  /\ attempt \in [Procs -> 0 .. Len(attempts)]
  /\ conn \in [Procs -> [Conns -> Connections]]
  /\ channel \in [Procs -> Outcomes \cup {None}]
  /\ napping \in [Procs -> BOOLEAN]
  /\ code \in [Procs -> 0 .. Len(attempts)]
  /\ left \in [Procs -> Nat] /\ interval \in [Procs -> Nat] /\ wait \in [Procs -> Nat]
  /\ since \in [Procs -> Nat] /\ need \in [Procs -> Nat]

FilesTyped ==
  /\ clients \in Seq(Keys) /\ Len(clients) <= MaxClients
  /\ registration \in [Keys -> 0 .. Len(clients)]
  /\ stale \subseteq 1 .. Len(clients)
  /\ token \in [Sessions -> [client : 1 .. Len(clients), issued : 1 .. Len(clients)] \cup {None}]
  /\ attempts \in Seq([port : Ports \cup {None}, client : 1 .. Len(clients)])
  /\ Len(attempts) <= MaxAttempts

LEMMA TypeParts == TypeOK <=> OwnTyped /\ FilesTyped
BY DEF TypeOK, OwnTyped, FilesTyped

\* A step of p leaves alone what is another's.
Frame(p) ==
  \A q \in Procs \ {p} :
    /\ pc'[q] = pc[q] /\ grant'[q] = grant[q] /\ session'[q] = session[q]
    /\ client'[q] = client[q] /\ attempt'[q] = attempt[q]
    /\ conn'[q] = conn[q] /\ channel'[q] = channel[q] /\ code'[q] = code[q]
    /\ interval'[q] = interval[q] /\ wait'[q] = wait[q]
    /\ since'[q] = since[q] /\ need'[q] = need[q]

\* And what it leaves of its own, but pc.
SameWho(p) == client'[p] = client[p] /\ grant'[p] = grant[p] /\ session'[p] = session[p]

LEMMA GoType ==
  ASSUME NEW p \in Procs, NEW at \in States, pc \in [Procs -> States], Go(p, at)
  PROVE  /\ pc' \in [Procs -> States] /\ pc'[p] = at
         /\ \A q \in Procs \ {p} : pc'[q] = pc[q]
BY DEF Go

LEMMA ReturnType ==
  ASSUME NEW p \in Procs, OwnTyped, Return(p), Len(clients) \in Nat, Len(attempts) \in Nat,
         Len(clients') = Len(clients), Len(attempts') = Len(attempts)
  PROVE  /\ OwnTyped' /\ Frame(p)
         /\ pc'[p] = "idle" /\ channel'[p] = None /\ code'[p] = 0
         /\ \A c \in Conns : conn'[p][c] = Closed
<1> DEFINE closed == [c \in Conns |-> Closed]
<1>1. closed \in [Conns -> Connections]
  BY DEF Closed, Connections
<1>2. \A c \in Conns : closed[c] = Closed
  OBVIOUS
<1>3. conn' = [conn EXCEPT ![p] = closed]
  BY DEF Return
<1> HIDE DEF closed
<1>4. conn' \in [Procs -> [Conns -> Connections]] /\ conn'[p] = closed
      /\ \A q \in Procs \ {p} : conn'[q] = conn[q]
  BY <1>1, <1>3 DEF OwnTyped
<1>5. pc' \in [Procs -> States] /\ pc'[p] = "idle" /\ \A q \in Procs \ {p} : pc'[q] = pc[q]
  BY GoType DEF Return, OwnTyped, States
<1>6. /\ grant' \in [Procs -> Grants \cup {None}] /\ session' \in [Procs -> Sessions \cup {None}]
      /\ client' \in [Procs -> 0 .. Len(clients)] /\ attempt' \in [Procs -> 0 .. Len(attempts)]
      /\ code' \in [Procs -> 0 .. Len(attempts)] /\ code'[p] = 0
      /\ \A q \in Procs \ {p} : /\ grant'[q] = grant[q] /\ session'[q] = session[q]
                                /\ client'[q] = client[q] /\ attempt'[q] = attempt[q]
                                /\ code'[q] = code[q]
  BY DEF Return, OwnTyped
<1>7. /\ channel' \in [Procs -> Outcomes \cup {None}] /\ channel'[p] = None
      /\ napping' \in [Procs -> BOOLEAN]
      /\ \A q \in Procs \ {p} : channel'[q] = channel[q]
  BY DEF Return, OwnTyped
<1>8. /\ left' \in [Procs -> Nat] /\ interval' \in [Procs -> Nat] /\ wait' \in [Procs -> Nat]
      /\ since' \in [Procs -> Nat] /\ need' \in [Procs -> Nat]
      /\ \A q \in Procs \ {p} : /\ interval'[q] = interval[q] /\ wait'[q] = wait[q]
                                /\ since'[q] = since[q] /\ need'[q] = need[q]
  BY DEF Return, OwnTyped
<1> QED
  BY <1>2, <1>4, <1>5, <1>6, <1>7, <1>8 DEF OwnTyped, Frame

-----------------------------------------------------------------------------
\* What is registered and asked for stays what it is.
Grows ==
  /\ Len(clients) <= Len(clients') /\ Len(attempts) <= Len(attempts')
  /\ \A c \in 1 .. Len(clients) : clients'[c] = clients[c]
  /\ \A a \in 1 .. Len(attempts) : attempts'[a] = attempts[a]

FilesKept == FilesTyped' /\ Grows /\ Registered' /\ TokenKeepsItsClient'

LEMMA Lengths ==
  ASSUME FilesTyped
  PROVE  Len(clients) \in Nat /\ Len(attempts) \in Nat
BY DEF FilesTyped

LEMMA Combine ==
  ASSUME Inv, NEW p \in Procs, Frame(p), OwnTyped', FilesKept, Bound(p)', Heard(p)', Paced(p)'
  PROVE  Inv'
<1>1. ASSUME NEW q \in Procs \ {p} PROVE Bound(q)'
  <2>1. Bound(q) /\ client[q] \in Int /\ attempt[q] \in Int
    BY TypeParts DEF Inv, OwnTyped
  <2>2. Key(q)' = Key(q)
    BY DEF Frame, Key
  <2> QED
    BY <2>1, <2>2, Lengths, TypeParts DEF Bound, Frame, FilesKept, Grows, Inv
<1>2. ASSUME NEW q \in Procs \ {p} PROVE Heard(q)' /\ Paced(q)'
  <2>1. Heard(q) /\ Paced(q)
    BY DEF Inv
  <2>2. Heard(q)'
    BY <2>1 DEF Heard, HeardBy, Own, Reportable, Frame
  <2>3. Paced(q)'
    BY <2>1 DEF Paced, Frame
  <2> QED
    BY <2>2, <2>3
<1>3. TypeOK'
  BY DEF FilesKept, OwnTyped, FilesTyped, TypeOK
<1> QED
  BY <1>1, <1>2, <1>3 DEF Inv, FilesKept

LEMMA FilesStay ==
  ASSUME Inv, UNCHANGED <<files, attempts>>
  PROVE  /\ FilesKept /\ Len(clients) \in Nat /\ Len(attempts) \in Nat
         /\ Len(clients') = Len(clients) /\ Len(attempts') = Len(attempts)
         /\ clients' = clients /\ attempts' = attempts /\ OwnTyped
<1> USE DEF files
<1>1. TypeOK /\ Registered /\ TokenKeepsItsClient
  BY DEF Inv
<1>2. FilesTyped /\ OwnTyped
  BY <1>1, TypeParts
<1>3. FilesTyped'
  BY <1>2 DEF FilesTyped
<1>4. Registered' /\ TokenKeepsItsClient'
  BY <1>1 DEF Registered, TokenKeepsItsClient
<1> QED
  BY <1>2, <1>3, <1>4, Lengths DEF FilesKept, Grows

LEMMA HeardNothing ==
  ASSUME NEW p \in Procs, pc'[p] \notin {"wait", "exchange"}, channel'[p] = None, code'[p] = 0,
         \A c \in Conns : conn'[p][c] = Closed
  PROVE  Heard(p)'
BY DEF Heard, HeardBy, Own, Reportable, Closed

LEMMA LeaveKept ==
  ASSUME Inv, NEW p \in Procs, Leave(p)
  PROVE  Inv'
<1>1. FilesKept /\ OwnTyped' /\ Frame(p) /\ pc'[p] = "idle" /\ channel'[p] = None
        /\ code'[p] = 0 /\ \A c \in Conns : conn'[p][c] = Closed
  BY FilesStay, ReturnType DEF Leave
<1>2. Heard(p)'
  BY <1>1, HeardNothing
<1>3. Bound(p)' /\ Paced(p)'
  BY <1>1 DEF Bound, Paced, HasClient, HasAsked
<1> QED
  BY <1>1, <1>2, <1>3, Combine

-----------------------------------------------------------------------------
\* auth::login and registration::obtain

LEMMA BeginKept ==
  ASSUME Inv, NEW p \in Procs, Begin(p)
  PROVE  Inv'
<1> USE DEF loopback, polling
<1>1. FilesKept /\ OwnTyped /\ clients' = clients /\ attempts' = attempts
  BY FilesStay DEF Begin
<1>2. PICK g \in Grants, s \in Sessions : /\ grant' = [grant EXCEPT ![p] = g]
                                         /\ session' = [session EXCEPT ![p] = s]
  BY DEF Begin
<1>3. pc' \in [Procs -> States] /\ pc'[p] = "obtain" /\ \A q \in Procs \ {p} : pc'[q] = pc[q]
  BY <1>1, GoType DEF Begin, OwnTyped, States
<1>4. /\ grant' \in [Procs -> Grants \cup {None}] /\ session' \in [Procs -> Sessions \cup {None}]
      /\ grant'[p] = g /\ session'[p] = s
      /\ \A q \in Procs \ {p} : grant'[q] = grant[q] /\ session'[q] = session[q]
  BY <1>1, <1>2 DEF OwnTyped
<1>5. UNCHANGED <<client, attempt, left, conn, channel, napping, code,
                  interval, wait, since, need>> /\ pc[p] = "idle"
  BY DEF Begin
<1>6. OwnTyped' /\ Frame(p)
  BY <1>1, <1>3, <1>4, <1>5 DEF OwnTyped, Frame
<1>7. Bound(p)' /\ Paced(p)'
  BY <1>3, <1>4 DEF Bound, Paced, HasClient, HasAsked, Key, Keys
<1>8. Heard(p)
  BY DEF Inv
<1>9. Heard(p)'
  BY <1>3, <1>5, <1>8 DEF Heard, HeardBy, Own, Reportable
<1> QED
  BY <1>1, <1>6, <1>7, <1>9, Combine

\* A step that moves on and changes no more than pc.
LEMMA MoveKept ==
  ASSUME Inv, NEW p \in Procs, NEW at \in States, Go(p, at),
         UNCHANGED <<files, attempts, who, attempt, left, loopback, polling>>,
         at \in HasClient => pc[p] \in HasClient, at \in HasAsked => pc[p] \in HasAsked,
         pc[p] # "idle", pc[p] # "wait", at \notin {"wait", "exchange", "sleep"},
         pc[p] \in {"exchange", "save"} => at = "save",
         at = "poll" => pc[p] = "sleep"
  PROVE  Inv'
<1> USE DEF loopback, polling, who
<1>1. FilesKept /\ OwnTyped /\ clients' = clients /\ attempts' = attempts
  BY FilesStay
<1>2. pc' \in [Procs -> States] /\ pc'[p] = at /\ \A q \in Procs \ {p} : pc'[q] = pc[q]
  BY <1>1, GoType DEF OwnTyped
<1>3. OwnTyped' /\ Frame(p)
  BY <1>1, <1>2 DEF OwnTyped, Frame
<1>4. Bound(p) /\ Heard(p) /\ Paced(p)
  BY DEF Inv
<1>5. Key(p)' = Key(p)
  BY DEF Key
<1>6. Bound(p)'
  BY <1>1, <1>2, <1>4, <1>5 DEF Bound
<1>7. Heard(p)'
  BY <1>2, <1>4 DEF Heard, HeardBy, Own, Reportable
<1>8. Paced(p)'
  BY <1>2, <1>4 DEF Paced
<1> QED
  BY <1>1, <1>3, <1>6, <1>7, <1>8, Combine

LEMMA StepOnKept ==
  ASSUME Inv, NEW p \in Procs, Exchange(p) \/ Attempt(p) \/ Ready(p)
  PROVE  Inv'
<1>2. CASE Exchange(p)
  BY <1>2, MoveKept DEF Exchange, States, HasClient, HasAsked
<1>3. CASE Attempt(p)
  BY <1>3, MoveKept DEF Attempt, States, HasClient, HasAsked
<1>4. CASE Ready(p)
  BY <1>4, MoveKept DEF Ready, States, HasClient, HasAsked
<1> QED
  BY <1>2, <1>3, <1>4

LEMMA RequestType ==
  ASSUME NEW p \in Procs
  PROVE  Request(p) \in {"start", "listen"}
BY DEF Request

\* The client that is cached is one that was registered for its key.
LEMMA UseCachedKept ==
  ASSUME Inv, NEW p \in Procs, UseCached(p)
  PROVE  Inv'
<1> USE DEF loopback, polling
<1>1. /\ FilesKept /\ OwnTyped /\ clients' = clients /\ attempts' = attempts
      /\ Len(clients) \in Nat
  BY FilesStay DEF UseCached
<1>2. Bound(p) /\ Heard(p) /\ Registered /\ FilesTyped
  BY TypeParts DEF Inv
<1> DEFINE new == registration[Key(p)]
<1>3. Key(p) \in Keys /\ pc[p] = "obtain" /\ new # 0
  BY <1>2 DEF Bound, UseCached
<1>4. new \in 1 .. Len(clients) /\ clients[new] = Key(p)
  BY <1>1, <1>2, <1>3 DEF Registered, FilesTyped
<1> HIDE DEF new
<1>5. client' = [client EXCEPT ![p] = new]
  BY DEF UseCached, new
<1>6. client' \in [Procs -> 0 .. Len(clients)] /\ client'[p] = new
      /\ \A q \in Procs \ {p} : client'[q] = client[q]
  BY <1>1, <1>4, <1>5 DEF OwnTyped
<1>7. /\ pc' \in [Procs -> States] /\ pc'[p] \in {"start", "listen"}
      /\ \A q \in Procs \ {p} : pc'[q] = pc[q]
  BY <1>1, GoType, RequestType DEF UseCached, OwnTyped, States
<1>8. UNCHANGED <<grant, session, attempt, left, conn, channel, napping, code,
                  interval, wait, since, need>>
  BY DEF UseCached
<1>9. OwnTyped' /\ Frame(p)
  BY <1>1, <1>6, <1>7, <1>8 DEF OwnTyped, Frame
<1>10. Key(p)' = Key(p)
  BY <1>8 DEF Key
<1>11. Bound(p)' /\ Paced(p)'
  BY <1>1, <1>3, <1>4, <1>6, <1>7, <1>10 DEF Bound, Paced, HasClient, HasAsked
<1>12. Heard(p)'
  BY <1>2, <1>3, <1>7, <1>8 DEF Heard, HeardBy, Own, Reportable
<1> QED
  BY <1>1, <1>9, <1>11, <1>12, Combine

LEMMA SeqWider ==
  ASSUME NEW S, NEW T, S \subseteq T, NEW s \in Seq(S)
  PROVE  s \in Seq(T)
OBVIOUS

LEMMA RegisterKept ==
  ASSUME Inv, NEW p \in Procs, Register(p)
  PROVE  Inv'
<1> USE DEF loopback, polling
<1>1. /\ OwnTyped /\ FilesTyped /\ Bound(p) /\ Heard(p) /\ Registered /\ TokenKeepsItsClient
      /\ Len(clients) \in Nat /\ Len(attempts) \in Nat
  BY TypeParts, Lengths DEF Inv
<1> DEFINE new == Len(clients) + 1
<1>2. Key(p) \in Keys /\ pc[p] = "obtain" /\ clients \in Seq(Keys)
  BY <1>1 DEF Bound, Register, FilesTyped
<1>3. clients' = Append(clients, Key(p)) /\ new <= MaxClients
  BY <1>1 DEF Register
<1>4. /\ clients' \in Seq(Keys) /\ Len(clients') = new /\ clients'[new] = Key(p)
      /\ \A c \in 1 .. Len(clients) : clients'[c] = clients[c]
  BY <1>2, <1>3
<1>5. UNCHANGED <<registration, stale, token, attempts, grant, session, attempt, left,
                  conn, channel, napping, code, interval, wait, since, need>>
  BY DEF Register
<1>6. FilesTyped'
  <2>1. 0 .. Len(clients) \subseteq 0 .. new /\ 1 .. Len(clients) \subseteq 1 .. new
    BY <1>1
  <2>2. registration' \in [Keys -> 0 .. new] /\ stale' \subseteq 1 .. new
    BY <1>1, <1>5, <2>1 DEF FilesTyped
  <2>3. token' \in [Sessions -> [client : 1 .. new, issued : 1 .. new] \cup {None}]
    BY <1>1, <1>5, <2>1 DEF FilesTyped
  <2>4. attempts' \in Seq([port : Ports \cup {None}, client : 1 .. new])
    <3>1. [port : Ports \cup {None}, client : 1 .. Len(clients)]
            \subseteq [port : Ports \cup {None}, client : 1 .. new]
      BY <2>1
    <3>2. attempts \in Seq([port : Ports \cup {None}, client : 1 .. Len(clients)])
      BY <1>1 DEF FilesTyped
    <3> QED
      BY <1>5, <3>1, <3>2, SeqWider
  <2> QED
    BY <1>1, <1>3, <1>4, <1>5, <2>2, <2>3, <2>4 DEF FilesTyped
<1>7. Grows
  BY <1>1, <1>4, <1>5 DEF Grows
<1>8. Registered'
  BY <1>1, <1>4, <1>5 DEF Registered, FilesTyped
<1>9. TokenKeepsItsClient'
  <2>1. ASSUME NEW s \in Sessions, token[s] # None PROVE token[s].client \in 1 .. Len(clients)
    BY <1>1, <2>1 DEF FilesTyped
  <2> QED
    BY <1>1, <1>4, <1>5, <2>1 DEF TokenKeepsItsClient
<1>10. client' = [client EXCEPT ![p] = new]
  BY DEF Register
<1>11. 0 .. Len(clients) \subseteq 0 .. new /\ new \in 0 .. new /\ new \in 1 .. new
  BY <1>1
<1>12. Len(clients') = new
  BY <1>4
<1> HIDE DEF new
<1>13. client' \in [Procs -> 0 .. new] /\ client'[p] = new
       /\ \A q \in Procs \ {p} : client'[q] = client[q]
  BY <1>1, <1>10, <1>11 DEF OwnTyped
<1>14. pc' \in [Procs -> States] /\ pc'[p] = "cache" /\ \A q \in Procs \ {p} : pc'[q] = pc[q]
  BY <1>1, GoType DEF Register, OwnTyped, States
<1>15. OwnTyped' /\ Frame(p)
  BY <1>1, <1>5, <1>12, <1>13, <1>14 DEF OwnTyped, Frame
<1>16. Key(p)' = Key(p)
  BY <1>5 DEF Key
<1>17. Bound(p)' /\ Paced(p)'
  BY <1>2, <1>4, <1>11, <1>12, <1>13, <1>14, <1>16 DEF Bound, Paced, HasClient, HasAsked
<1>18. Heard(p)'
  BY <1>1, <1>2, <1>5, <1>14 DEF Heard, HeardBy, Own, Reportable
<1> QED
  BY <1>6, <1>7, <1>8, <1>9, <1>15, <1>17, <1>18, Combine DEF FilesKept

LEMMA CacheKept ==
  ASSUME Inv, NEW p \in Procs, Cache(p)
  PROVE  Inv'
<1> USE DEF loopback, polling, who
<1>1. /\ OwnTyped /\ FilesTyped /\ Bound(p) /\ Heard(p) /\ Registered /\ TokenKeepsItsClient
      /\ Len(clients) \in Nat /\ Len(attempts) \in Nat
  BY TypeParts, Lengths DEF Inv
<1>2. /\ pc[p] = "cache" /\ registration' = [registration EXCEPT ![Key(p)] = client[p]]
      /\ UNCHANGED <<clients, stale, token, attempts, grant, session, client, attempt, left,
                     conn, channel, napping, code, interval, wait, since, need>>
  BY DEF Cache
<1>3. Key(p) \in Keys /\ client[p] \in 1 .. Len(clients) /\ clients[client[p]] = Key(p)
  BY <1>1, <1>2 DEF Bound, HasClient, States
<1>4. registration' \in [Keys -> 0 .. Len(clients)]
  BY <1>1, <1>2, <1>3 DEF FilesTyped
<1>5. FilesTyped' /\ Grows /\ TokenKeepsItsClient'
  BY <1>1, <1>2, <1>4 DEF FilesTyped, Grows, TokenKeepsItsClient
<1>6. Registered'
  BY <1>1, <1>2, <1>3 DEF Registered, FilesTyped
<1>7. /\ pc' \in [Procs -> States] /\ pc'[p] \in {"start", "listen"}
      /\ \A q \in Procs \ {p} : pc'[q] = pc[q]
  BY <1>1, GoType, RequestType DEF Cache, OwnTyped, States
<1>8. OwnTyped' /\ Frame(p)
  BY <1>1, <1>2, <1>7 DEF OwnTyped, Frame
<1>9. Key(p)' = Key(p)
  BY <1>2 DEF Key
<1>10. Bound(p)' /\ Paced(p)'
  BY <1>2, <1>3, <1>7, <1>9 DEF Bound, Paced, HasClient, HasAsked
<1>11. Heard(p)'
  BY <1>1, <1>2, <1>7 DEF Heard, HeardBy, Own, Reportable
<1> QED
  BY <1>5, <1>6, <1>8, <1>10, <1>11, Combine DEF FilesKept

LEMMA SaveKept ==
  ASSUME Inv, NEW p \in Procs, Save(p)
  PROVE  Inv'
<1>1. /\ OwnTyped /\ FilesTyped /\ Bound(p) /\ Registered /\ TokenKeepsItsClient
      /\ Len(clients) \in Nat /\ Len(attempts) \in Nat
  BY TypeParts, Lengths DEF Inv
<1> DEFINE new == [client |-> client[p], issued |-> attempts[attempt[p]].client]
<1>2. /\ token' = [token EXCEPT ![session[p]] = new] /\ pc[p] = "save" /\ Return(p)
      /\ UNCHANGED <<registration, clients, stale, attempts>>
  BY DEF Save, Carried
<1>3. /\ client[p] \in 1 .. Len(clients) /\ clients[client[p]] = Key(p) /\ Key(p) \in Keys
      /\ attempts[attempt[p]].client = client[p]
  BY <1>1, <1>2 DEF Bound, HasClient, HasAsked, States
<1>4. session[p] \in Sessions /\ clients[client[p]].session = session[p]
  BY <1>3 DEF Key, Keys
<1>5. /\ new \in [client : 1 .. Len(clients), issued : 1 .. Len(clients)]
      /\ new.client = client[p] /\ new.issued = client[p]
  BY <1>3
<1> HIDE DEF new
<1>6. FilesTyped' /\ Grows /\ Registered'
  <2>1. token' \in [Sessions -> [client : 1 .. Len(clients), issued : 1 .. Len(clients)] \cup {None}]
    BY <1>1, <1>2, <1>5 DEF FilesTyped
  <2>2. FilesTyped'
    BY <1>1, <1>2, <2>1 DEF FilesTyped
  <2> QED
    BY <1>1, <1>2, <2>2 DEF Grows, Registered
<1>7. TokenKeepsItsClient'
  <2> SUFFICES ASSUME NEW s \in Sessions, token'[s] # None
               PROVE  /\ token'[s].client = token'[s].issued
                      /\ clients'[token'[s].client].session = s
    BY DEF TokenKeepsItsClient
  <2>1. CASE s = session[p]
    BY <1>1, <1>2, <1>4, <1>5, <2>1 DEF FilesTyped
  <2>2. CASE s # session[p]
    BY <1>1, <1>2, <2>2 DEF FilesTyped, TokenKeepsItsClient
  <2> QED
    BY <2>1, <2>2
<1>8. /\ OwnTyped' /\ Frame(p) /\ pc'[p] = "idle" /\ channel'[p] = None
      /\ code'[p] = 0 /\ \A c \in Conns : conn'[p][c] = Closed
  BY <1>1, <1>2, ReturnType
<1>9. Heard(p)'
  BY <1>8, HeardNothing
<1>10. Bound(p)' /\ Paced(p)'
  BY <1>8 DEF Bound, Paced, HasClient, HasAsked
<1> QED
  BY <1>6, <1>7, <1>8, <1>9, <1>10, Combine DEF FilesKept

-----------------------------------------------------------------------------
\* pkce::login and Loopback

LEMMA AsksType ==
  ASSUME Inv, NEW p \in Procs, NEW n \in Ports \cup {None}, NEW within \in Nat,
         Asks(p, n, within), UNCHANGED files, pc[p] \in HasClient
  PROVE  /\ FilesKept
         /\ Len(attempts) \in Nat /\ Len(attempts') = Len(attempts) + 1
         /\ attempt' \in [Procs -> 0 .. Len(attempts')] /\ attempt'[p] = Len(attempts')
         /\ attempts'[Len(attempts')].client = client[p]
         /\ left' \in [Procs -> Nat]
         /\ \A q \in Procs \ {p} : attempt'[q] = attempt[q]
<1> USE DEF files
<1>1. /\ OwnTyped /\ FilesTyped /\ Bound(p) /\ Registered /\ TokenKeepsItsClient
      /\ Len(clients) \in Nat /\ Len(attempts) \in Nat
  BY TypeParts, Lengths DEF Inv
<1> DEFINE entry == [port |-> n, client |-> client[p]]
           m == Len(attempts) + 1
<1>2. /\ attempts' = Append(attempts, entry) /\ m <= MaxAttempts
      /\ attempt' = [attempt EXCEPT ![p] = m] /\ left' = [left EXCEPT ![p] = within]
  BY <1>1 DEF Asks
<1>3. client[p] \in 1 .. Len(clients)
  BY <1>1 DEF Bound
<1>4. entry \in [port : Ports \cup {None}, client : 1 .. Len(clients)] /\ entry.client = client[p]
  BY <1>3
<1> HIDE DEF entry
<1>5. attempts \in Seq([port : Ports \cup {None}, client : 1 .. Len(clients)])
  BY <1>1 DEF FilesTyped
<1>6. /\ attempts' \in Seq([port : Ports \cup {None}, client : 1 .. Len(clients)])
      /\ Len(attempts') = m /\ attempts'[m] = entry
      /\ \A a \in 1 .. Len(attempts) : attempts'[a] = attempts[a]
  BY <1>2, <1>4, <1>5
<1>7. FilesTyped' /\ Grows
  BY <1>1, <1>2, <1>6 DEF FilesTyped, Grows
<1>8. Registered' /\ TokenKeepsItsClient'
  BY <1>1 DEF Registered, TokenKeepsItsClient
<1>9. 0 .. Len(attempts) \subseteq 0 .. m /\ m \in 0 .. m
  BY <1>1
<1> HIDE DEF m
<1>10. /\ attempt' \in [Procs -> 0 .. m] /\ attempt'[p] = m /\ left' \in [Procs -> Nat]
       /\ \A q \in Procs \ {p} : attempt'[q] = attempt[q]
  BY <1>1, <1>2, <1>9 DEF OwnTyped
<1> QED
  BY <1>1, <1>4, <1>6, <1>7, <1>8, <1>10 DEF FilesKept, m

\* A request is made with the client its login has.
LEMMA AskedBound ==
  ASSUME Inv, NEW p \in Procs, pc[p] \in HasClient, clients' = clients, SameWho(p),
         Len(attempts) \in Nat, Len(attempts') = Len(attempts) + 1,
         attempt'[p] = Len(attempts'), attempts'[Len(attempts')].client = client[p]
  PROVE  Bound(p)'
<1>1. Bound(p) /\ Key(p)' = Key(p)
  BY DEF Inv, SameWho, Key
<1>2. pc[p] # "idle"
  BY DEF HasClient
<1> QED
  BY <1>1, <1>2 DEF Bound, SameWho

LEMMA FunctionWider ==
  ASSUME NEW S, NEW T, S \subseteq T, NEW f \in [Procs -> S]
  PROVE  f \in [Procs -> T]
OBVIOUS

LEMMA ListenKept ==
  ASSUME Inv, NEW p \in Procs, Listen(p)
  PROVE  Inv'
<1> USE DEF loopback, polling, who
<1>1. /\ pc[p] = "listen" /\ Go(p, "wait")
      /\ UNCHANGED <<files, grant, session, client, conn, channel, napping, code,
                     interval, wait, since, need>>
  BY DEF Listen
<1>2. PICK n \in Ports : Asks(p, n, PkceTimeout)
  BY DEF Listen
<1>3. pc[p] \in HasClient /\ clients' = clients
  BY <1>1 DEF HasClient, States, files
<1>4. /\ FilesKept
      /\ Len(attempts) \in Nat /\ Len(attempts') = Len(attempts) + 1
      /\ attempt' \in [Procs -> 0 .. Len(attempts')] /\ attempt'[p] = Len(attempts')
      /\ attempts'[Len(attempts')].client = client[p]
      /\ left' \in [Procs -> Nat]
      /\ \A q \in Procs \ {p} : attempt'[q] = attempt[q]
  BY <1>1, <1>2, <1>3, AsksType
<1>5. OwnTyped /\ Heard(p)
  BY TypeParts DEF Inv
<1>6. pc' \in [Procs -> States] /\ pc'[p] = "wait" /\ \A q \in Procs \ {p} : pc'[q] = pc[q]
  BY <1>1, <1>5, GoType DEF OwnTyped, States
<1>7. OwnTyped' /\ Frame(p)
  <2>1. code \in [Procs -> 0 .. Len(attempts')]
    <3>1. 0 .. Len(attempts) \subseteq 0 .. Len(attempts')
      BY <1>4
    <3>2. code \in [Procs -> 0 .. Len(attempts)]
      BY <1>5 DEF OwnTyped
    <3> QED
      BY <3>1, <3>2, FunctionWider
  <2> QED
    BY <1>1, <1>3, <1>4, <1>5, <1>6, <2>1 DEF OwnTyped, Frame
<1>8. Bound(p)'
  BY <1>1, <1>3, <1>4, AskedBound DEF SameWho
<1>9. Heard(p)'
  BY <1>1, <1>5, <1>6 DEF Heard, HeardBy, Own, Reportable, Closed
<1>10. Paced(p)'
  BY <1>6 DEF Paced
<1> QED
  BY <1>4, <1>7, <1>8, <1>9, <1>10, Combine

LEMMA StartKept ==
  ASSUME Inv, NEW p \in Procs, Start(p)
  PROVE  Inv'
<1> USE DEF loopback, who
<1>1. PICK i \in Intervals, life \in Lifetimes :
        LET n == IF i = 0 THEN DefaultInterval ELSE i IN
        /\ Asks(p, None, life)
        /\ interval' = [interval EXCEPT ![p] = n]
        /\ need' = [need EXCEPT ![p] = n]
        /\ Sleep(p, n)
  BY DEF Start
<1>2. PICK n \in Nat : /\ Asks(p, None, life) /\ Sleep(p, n)
                       /\ interval' = [interval EXCEPT ![p] = n]
                       /\ need' = [need EXCEPT ![p] = n]
  BY <1>1
<1>3. /\ pc[p] = "start"
      /\ UNCHANGED <<files, grant, session, client, conn, channel, napping, code>>
  BY DEF Start
<1>4. pc[p] \in HasClient /\ clients' = clients
  BY <1>3 DEF HasClient, States, files
<1>5. /\ FilesKept
      /\ Len(attempts) \in Nat /\ Len(attempts') = Len(attempts) + 1
      /\ attempt' \in [Procs -> 0 .. Len(attempts')] /\ attempt'[p] = Len(attempts')
      /\ attempts'[Len(attempts')].client = client[p]
      /\ left' \in [Procs -> Nat]
      /\ \A q \in Procs \ {p} : attempt'[q] = attempt[q]
  BY <1>2, <1>3, <1>4, AsksType
<1>6. OwnTyped /\ Heard(p)
  BY TypeParts DEF Inv
<1>7. pc' \in [Procs -> States] /\ pc'[p] = "sleep" /\ \A q \in Procs \ {p} : pc'[q] = pc[q]
  BY <1>2, <1>6, GoType DEF OwnTyped, States, Sleep
<1>8. /\ interval' \in [Procs -> Nat] /\ need' \in [Procs -> Nat]
      /\ wait' \in [Procs -> Nat] /\ since' \in [Procs -> Nat]
      /\ interval'[p] = n /\ need'[p] = n /\ wait'[p] = n /\ since'[p] = 0
      /\ \A q \in Procs \ {p} : /\ interval'[q] = interval[q] /\ need'[q] = need[q]
                                /\ wait'[q] = wait[q] /\ since'[q] = since[q]
  BY <1>2, <1>6 DEF OwnTyped, Sleep
<1>9. OwnTyped' /\ Frame(p)
  <2>1. code \in [Procs -> 0 .. Len(attempts')]
    <3>1. 0 .. Len(attempts) \subseteq 0 .. Len(attempts')
      BY <1>5
    <3>2. code \in [Procs -> 0 .. Len(attempts)]
      BY <1>6 DEF OwnTyped
    <3> QED
      BY <3>1, <3>2, FunctionWider
  <2> QED
    BY <1>3, <1>4, <1>5, <1>6, <1>7, <1>8, <2>1 DEF OwnTyped, Frame
<1>10. Bound(p)'
  BY <1>3, <1>4, <1>5, AskedBound DEF SameWho
<1>11. Heard(p)'
  BY <1>3, <1>6, <1>7 DEF Heard, HeardBy, Own, Reportable, Closed
<1>12. Paced(p)'
  BY <1>7, <1>8 DEF Paced
<1> QED
  BY <1>5, <1>9, <1>10, <1>11, <1>12, Combine

\* A step of the loop, or of a connection, on what it may touch.
LEMMA LoopStep ==
  ASSUME Inv, NEW p \in Procs,
         UNCHANGED <<files, attempts, pc, who, attempt, left, code, polling>>,
         conn' \in [Procs -> [Conns -> Connections]],
         channel' \in [Procs -> Outcomes \cup {None}],
         napping' \in [Procs -> BOOLEAN],
         \A q \in Procs \ {p} : /\ conn'[q] = conn[q] /\ channel'[q] = channel[q],
         Heard(p)'
  PROVE  Inv'
<1> USE DEF who, polling
<1>1. FilesKept /\ OwnTyped /\ clients' = clients /\ attempts' = attempts
  BY FilesStay
<1>2. OwnTyped' /\ Frame(p)
  BY <1>1 DEF OwnTyped, Frame
<1>3. Bound(p) /\ Paced(p)
  BY DEF Inv
<1>4. Key(p)' = Key(p)
  BY DEF Key
<1>5. Bound(p)' /\ Paced(p)'
  BY <1>1, <1>3, <1>4 DEF Bound, Paced
<1> QED
  BY <1>1, <1>2, <1>5, Combine

LEMMA BecomesType ==
  ASSUME Inv, NEW p \in Procs, NEW c \in Conns,
         NEW at \in {"closed", "open", "answering", "reporting"},
         NEW outcome \in Outcomes \cup {None}, Becomes(p, c, at, outcome)
  PROVE  /\ conn' \in [Procs -> [Conns -> Connections]]
         /\ \A q \in Procs \ {p} : conn'[q] = conn[q]
         /\ conn'[p][c].at = at /\ conn'[p][c].outcome = outcome
         /\ \A d \in Conns \ {c} : conn'[p][d] = conn[p][d]
<1> DEFINE entry == [at |-> at, outcome |-> outcome]
           row == [conn[p] EXCEPT ![c] = entry]
<1>1. conn \in [Procs -> [Conns -> Connections]]
  BY DEF Inv, TypeOK
<1>2. entry \in Connections /\ entry.at = at /\ entry.outcome = outcome
  BY DEF Connections
<1>3. conn' = [conn EXCEPT ![p] = row]
  BY DEF Becomes
<1> HIDE DEF entry
<1>4. row \in [Conns -> Connections] /\ row[c] = entry
      /\ \A d \in Conns \ {c} : row[d] = conn[p][d]
  BY <1>1, <1>2
<1> HIDE DEF row
<1>5. /\ conn' \in [Procs -> [Conns -> Connections]] /\ conn'[p] = row
      /\ \A q \in Procs \ {p} : conn'[q] = conn[q]
  BY <1>1, <1>3, <1>4
<1> QED
  BY <1>2, <1>4, <1>5

\* What a wait hears on one of its connections leaves the others as they were.
LEMMA HeardOn ==
  ASSUME NEW p \in Procs, NEW c \in Conns, Heard(p), pc[p] = "wait",
         pc' = pc, attempt' = attempt, code' = code,
         \A d \in Conns \ {c} : conn'[p][d] = conn[p][d],
         HeardBy(p, c)', channel'[p] # None => Reportable(p, channel'[p])
  PROVE  Heard(p)'
<1>1. ASSUME NEW d \in Conns PROVE HeardBy(p, d)'
  <2>1. CASE d = c
    BY <2>1
  <2>2. CASE d # c
    BY <2>2 DEF Heard, HeardBy, Own, Reportable
  <2> QED
    BY <2>1, <2>2
<1> QED
  BY <1>1 DEF Heard, Own, Reportable

LEMMA ConnectionKept ==
  ASSUME Inv, NEW p \in Procs, NEW c \in Conns, Connection(p, c)
  PROVE  Inv'
<1> USE DEF loopback
<1> DEFINE At == {"closed", "open", "answering", "reporting"}
<1>1. /\ channel \in [Procs -> Outcomes \cup {None}]
      /\ napping \in [Procs -> BOOLEAN] /\ conn \in [Procs -> [Conns -> Connections]]
      /\ attempts \in Seq([port : Ports \cup {None}, client : 1 .. Len(clients)])
      /\ Len(attempts) <= MaxAttempts
      /\ Heard(p)
  BY DEF Inv, TypeOK
<1>2. conn[p][c].outcome \in Outcomes \cup {None}
  BY <1>1 DEF Connections
<1>3. None \in Outcomes \cup {None}
  OBVIOUS
<1>4. /\ UNCHANGED <<files, attempts, pc, who, attempt, left, code, napping, polling>>
      /\ pc' = pc /\ attempt' = attempt /\ code' = code
  BY DEF Connection, Accept, Handle, Served, Report
<1>5. pc[p] = "wait"
  BY <1>1 DEF Connection, Accept, Handle, Served, Report, Looping, Reporting, Heard, Closed
<1>6. HeardBy(p, c) /\ (channel[p] # None => Reportable(p, channel[p]))
  BY <1>1 DEF Heard, HeardBy, Own, Reportable
<1>7. PICK at \in At, outcome \in Outcomes \cup {None} :
        /\ Becomes(p, c, at, outcome)
        /\ outcome # None => Own(p, outcome)
        /\ at = "answering" => outcome # None
        /\ at = "reporting" => Reportable(p, outcome)
  <2>1. CASE Accept(p, c)
    BY <1>3, <2>1 DEF Accept
  <2>2. CASE Handle(p, c)
    <3>1. CASE Becomes(p, c, "closed", None)
      BY <1>3, <3>1
    <3>2. CASE ~Becomes(p, c, "closed", None)
      <4>1. PICK a \in DOMAIN attempts, res \in {"code", "error"} :
              /\ Expected(p, a)
              /\ Becomes(p, c, "answering", [of |-> a, result |-> res, served |-> FALSE])
        BY <2>2, <3>2 DEF Handle
      <4> DEFINE o == [of |-> a, result |-> res, served |-> FALSE]
      <4>2. a \in 1 .. MaxAttempts
        BY <1>1
      <4>3. o \in Outcomes /\ o.of = a
        BY <4>2 DEF Outcomes
      <4>4. Becomes(p, c, "answering", o) /\ Own(p, o)
        BY <4>1, <4>3 DEF Expected, Own
      <4> HIDE DEF o
      <4> QED
        BY <4>3, <4>4
    <3> QED
      BY <3>1, <3>2
  <2>3. CASE Served(p, c)
    <3> DEFINE o == [conn[p][c].outcome EXCEPT !.served = TRUE]
    <3>1. conn[p][c].outcome # None /\ Own(p, conn[p][c].outcome)
      BY <1>6, <2>3 DEF Served, HeardBy
    <3>2. conn[p][c].outcome \in Outcomes
      BY <1>2, <3>1
    <3>3. o \in Outcomes /\ o.of = conn[p][c].outcome.of /\ o.served
      BY <3>2 DEF Outcomes
    <3>4. Becomes(p, c, "reporting", o)
      BY <2>3 DEF Served
    <3> HIDE DEF o
    <3>5. o # None
      BY <3>3
    <3> QED
      BY <3>1, <3>3, <3>4, <3>5 DEF Own, Reportable
  <2>4. CASE Report(p, c)
    BY <1>3, <2>4 DEF Report
  <2> QED
    BY <2>1, <2>2, <2>3, <2>4 DEF Connection
<1>8. /\ conn' \in [Procs -> [Conns -> Connections]]
      /\ \A q \in Procs \ {p} : conn'[q] = conn[q]
      /\ conn'[p][c].at = at /\ conn'[p][c].outcome = outcome
      /\ \A d \in Conns \ {c} : conn'[p][d] = conn[p][d]
  BY <1>7, BecomesType
<1>9. HeardBy(p, c)'
  BY <1>4, <1>7, <1>8 DEF HeardBy, Own, Reportable
<1>10. /\ channel' \in [Procs -> Outcomes \cup {None}]
       /\ channel'[p] # None => Reportable(p, channel'[p])
       /\ \A q \in Procs \ {p} : channel'[q] = channel[q]
  <2>1. CASE Report(p, c)
    <3>1. /\ channel' = [channel EXCEPT ![p] = conn[p][c].outcome]
          /\ conn[p][c].at = "reporting"
      BY <2>1 DEF Report, Reporting
    <3>2. /\ channel' \in [Procs -> Outcomes \cup {None}] /\ channel'[p] = conn[p][c].outcome
          /\ \A q \in Procs \ {p} : channel'[q] = channel[q]
      BY <1>1, <1>2, <3>1
    <3> QED
      BY <1>6, <3>1, <3>2 DEF HeardBy
  <2>2. CASE ~Report(p, c)
    <3>1. channel' = channel
      BY <2>2 DEF Connection, Accept, Handle, Served
    <3> QED
      BY <1>1, <1>6, <3>1
  <2> QED
    BY <2>1, <2>2
<1>11. Heard(p)'
  BY <1>1, <1>4, <1>5, <1>8, <1>9, <1>10, HeardOn
<1>12. napping' \in [Procs -> BOOLEAN]
  BY <1>1, <1>4
<1> QED
  BY <1>4, <1>8, <1>10, <1>11, <1>12, LoopStep

LEMMA NapKept ==
  ASSUME Inv, NEW p \in Procs, AcceptFails(p) \/ EndNap(p)
  PROVE  Inv'
<1>1. /\ channel \in [Procs -> Outcomes \cup {None}]
      /\ napping \in [Procs -> BOOLEAN] /\ conn \in [Procs -> [Conns -> Connections]]
      /\ Heard(p)
  BY DEF Inv, TypeOK
<1>2. UNCHANGED <<files, attempts, pc, who, attempt, left, conn, channel, code, polling>>
  BY DEF AcceptFails, EndNap
<1>3. napping' \in [Procs -> BOOLEAN]
  BY <1>1, Zenon DEF AcceptFails, EndNap
<1>4. Heard(p)'
  BY <1>1, <1>2 DEF Heard, HeardBy, Own, Reportable
<1> QED
  BY <1>1, <1>2, <1>3, <1>4, LoopStep

LEMMA ReceiveKept ==
  ASSUME Inv, NEW p \in Procs, ReceiveCode(p)
  PROVE  Inv'
<1> USE DEF who, polling
<1>1. /\ FilesKept /\ OwnTyped /\ clients' = clients /\ attempts' = attempts
  BY FilesStay DEF ReceiveCode
<1>2. Bound(p) /\ Heard(p)
  BY DEF Inv
<1> DEFINE closed == [c \in Conns |-> Closed]
           n == channel[p].of
<1>3. /\ pc[p] = "wait" /\ channel[p] # None /\ Go(p, "exchange")
      /\ code' = [code EXCEPT ![p] = n]
      /\ channel' = [channel EXCEPT ![p] = None]
      /\ conn' = [conn EXCEPT ![p] = closed]
      /\ UNCHANGED <<grant, session, client, attempt, left, napping,
                     interval, wait, since, need>>
  BY DEF ReceiveCode, Looping
<1>4. closed \in [Conns -> Connections] /\ \A c \in Conns : closed[c] = Closed
  BY DEF Closed, Connections
<1>5. n = attempt[p] /\ attempt[p] \in 0 .. Len(attempts)
  BY <1>1, <1>2, <1>3 DEF Heard, Own, Reportable, OwnTyped
<1> HIDE DEF closed, n
<1>6. /\ conn' \in [Procs -> [Conns -> Connections]] /\ conn'[p] = closed
      /\ \A q \in Procs \ {p} : conn'[q] = conn[q]
  BY <1>1, <1>3, <1>4 DEF OwnTyped
<1>7. /\ code' \in [Procs -> 0 .. Len(attempts)] /\ code'[p] = attempt[p]
      /\ channel' \in [Procs -> Outcomes \cup {None}] /\ channel'[p] = None
      /\ \A q \in Procs \ {p} : code'[q] = code[q] /\ channel'[q] = channel[q]
  BY <1>1, <1>3, <1>5 DEF OwnTyped
<1>8. pc' \in [Procs -> States] /\ pc'[p] = "exchange" /\ \A q \in Procs \ {p} : pc'[q] = pc[q]
  BY <1>1, <1>3, GoType DEF OwnTyped, States
<1>9. OwnTyped' /\ Frame(p)
  BY <1>1, <1>3, <1>6, <1>7, <1>8 DEF OwnTyped, Frame
<1>10. Key(p)' = Key(p)
  BY <1>3 DEF Key
<1>11. Bound(p)' /\ Paced(p)'
  BY <1>1, <1>2, <1>3, <1>8, <1>10 DEF Bound, Paced, HasClient, HasAsked, States
<1>12. Heard(p)'
  BY <1>3, <1>4, <1>5, <1>6, <1>7, <1>8 DEF Heard, HeardBy, Own, Reportable, Closed
<1> QED
  BY <1>1, <1>9, <1>11, <1>12, Combine

-----------------------------------------------------------------------------
\* device_poll::poll

\* A step of the polling, on what it may touch.
LEMMA PollStep ==
  ASSUME Inv, NEW p \in Procs, UNCHANGED <<files, attempts, who, attempt, loopback>>,
         pc' \in [Procs -> States], left' \in [Procs -> Nat], interval' \in [Procs -> Nat],
         wait' \in [Procs -> Nat], since' \in [Procs -> Nat], need' \in [Procs -> Nat],
         \A q \in Procs \ {p} : /\ pc'[q] = pc[q] /\ interval'[q] = interval[q]
                                /\ wait'[q] = wait[q] /\ since'[q] = since[q]
                                /\ need'[q] = need[q],
         pc'[p] = pc[p] \/ (pc[p] = "poll" /\ pc'[p] = "sleep"),
         Paced(p)'
  PROVE  Inv'
<1> USE DEF who, loopback
<1>1. FilesKept /\ OwnTyped /\ clients' = clients /\ attempts' = attempts
  BY FilesStay
<1>2. OwnTyped' /\ Frame(p)
  BY <1>1 DEF OwnTyped, Frame
<1>3. Bound(p) /\ Heard(p)
  BY DEF Inv
<1>4. Key(p)' = Key(p)
  BY DEF Key
<1>5. Bound(p)'
  BY <1>1, <1>3, <1>4 DEF Bound, HasClient, HasAsked, States
<1>6. Heard(p)'
  BY <1>3 DEF Heard, HeardBy, Own, Reportable
<1> QED
  BY <1>1, <1>2, <1>5, <1>6, Combine

LEMMA AnswerKept ==
  ASSUME Inv, NEW p \in Procs, Pending(p) \/ SlowDown(p)
  PROVE  Inv'
<1>1. /\ left \in [Procs -> Nat] /\ interval \in [Procs -> Nat] /\ wait \in [Procs -> Nat]
      /\ since \in [Procs -> Nat] /\ need \in [Procs -> Nat] /\ pc \in [Procs -> States]
      /\ Paced(p) /\ SlowDownStep \in Nat
  BY DEF Inv, TypeOK
<1>2. UNCHANGED <<files, attempts, who, attempt, loopback, left>> /\ pc[p] = "poll"
  BY DEF Pending, SlowDown
<1>3. PICK n \in Nat : /\ Sleep(p, n)
                       /\ interval' \in [Procs -> Nat] /\ need' \in [Procs -> Nat]
                       /\ interval'[p] = n /\ need'[p] = n
                       /\ \A q \in Procs \ {p} : interval'[q] = interval[q] /\ need'[q] = need[q]
  <2>1. CASE Pending(p)
    <3>1. Sleep(p, interval[p]) /\ interval' = interval /\ need' = need
      BY <2>1 DEF Pending, Pause
    <3> QED
      BY <1>1, <1>2, <3>1 DEF Paced
  <2>2. CASE SlowDown(p)
    <3>1. /\ Sleep(p, interval[p] + SlowDownStep)
          /\ interval' = [interval EXCEPT ![p] = interval[p] + SlowDownStep]
          /\ need' = [need EXCEPT ![p] = need[p] + SlowDownStep]
      BY <2>2 DEF SlowDown, Pause
    <3>2. interval[p] + SlowDownStep \in Nat /\ need[p] = interval[p]
      BY <1>1, <1>2 DEF Paced
    <3> QED
      BY <1>1, <3>1, <3>2
  <2> QED
    BY <2>1, <2>2
<1>4. pc' \in [Procs -> States] /\ pc'[p] = "sleep" /\ \A q \in Procs \ {p} : pc'[q] = pc[q]
  BY <1>1, <1>3, GoType DEF Sleep, States
<1>5. /\ wait' \in [Procs -> Nat] /\ since' \in [Procs -> Nat] /\ wait'[p] = n /\ since'[p] = 0
      /\ \A q \in Procs \ {p} : wait'[q] = wait[q] /\ since'[q] = since[q]
  BY <1>1, <1>3 DEF Sleep
<1>6. Paced(p)'
  BY <1>3, <1>4, <1>5 DEF Paced
<1> QED
  BY <1>1, <1>2, <1>3, <1>4, <1>5, <1>6, PollStep

LEMMA TickKept ==
  ASSUME Inv, NEW p \in Procs, Tick(p)
  PROVE  Inv'
<1> USE DEF polling
<1>1. /\ left \in [Procs -> Nat] /\ interval \in [Procs -> Nat] /\ wait \in [Procs -> Nat]
      /\ since \in [Procs -> Nat] /\ need \in [Procs -> Nat] /\ pc \in [Procs -> States]
      /\ Paced(p)
  BY DEF Inv, TypeOK
<1>2. /\ UNCHANGED <<files, attempts, pc, who, attempt, loopback, interval, need>>
      /\ left' = [left EXCEPT ![p] = Less(left[p])]
      /\ wait' = [wait EXCEPT ![p] = Less(wait[p])]
      /\ since' = [since EXCEPT ![p] = IF since[p] < need[p] THEN since[p] + 1 ELSE since[p]]
  BY DEF Tick
<1>3. Less(left[p]) \in Nat /\ Less(wait[p]) \in Nat
  BY <1>1 DEF Less
<1>4. left' \in [Procs -> Nat] /\ wait' \in [Procs -> Nat] /\ wait'[p] = Less(wait[p])
        /\ \A q \in Procs \ {p} : wait'[q] = wait[q]
  BY <1>1, <1>2, <1>3
<1>5. /\ since' \in [Procs -> Nat] /\ \A q \in Procs \ {p} : since'[q] = since[q]
      /\ since'[p] = IF since[p] < need[p] THEN since[p] + 1 ELSE since[p]
  BY <1>1, <1>2
<1>6. Paced(p)'
  BY <1>1, <1>2, <1>4, <1>5 DEF Paced, Less
<1> QED
  BY <1>1, <1>2, <1>4, <1>5, <1>6, PollStep

-----------------------------------------------------------------------------
\* What happens besides, and the whole

LEMMA ClientAgesKept ==
  ASSUME Inv, ClientAges
  PROVE  Inv'
<1> USE DEF who, loopback, polling
<1>1. /\ OwnTyped /\ FilesTyped /\ Registered /\ TokenKeepsItsClient
      /\ \A p \in Procs : Bound(p) /\ Heard(p) /\ Paced(p)
      /\ Len(clients) \in Nat
  BY TypeParts, Lengths DEF Inv
<1>2. PICK k \in Keys : registration[k] # 0 /\ stale' = stale \cup {registration[k]}
  BY DEF ClientAges
<1>3. UNCHANGED <<registration, clients, token, attempts, pc, grant, session, client, attempt,
                  left, conn, channel, napping, code, interval, wait, since, need>>
  BY DEF ClientAges
<1>4. stale' \subseteq 1 .. Len(clients)
  <2>1. registration[k] \in 0 .. Len(clients) /\ stale \subseteq 1 .. Len(clients)
    BY <1>1 DEF FilesTyped
  <2>2. registration[k] \in 1 .. Len(clients)
    BY <1>1, <1>2, <2>1
  <2> QED
    BY <1>2, <2>1, <2>2
<1>5. FilesTyped' /\ OwnTyped'
  BY <1>1, <1>3, <1>4 DEF FilesTyped, OwnTyped
<1>6. TypeOK'
  BY <1>5 DEF FilesTyped, OwnTyped, TypeOK
<1>7. Registered' /\ TokenKeepsItsClient'
  BY <1>1, <1>3 DEF Registered, TokenKeepsItsClient
<1>8. ASSUME NEW p \in Procs PROVE Bound(p)' /\ Heard(p)' /\ Paced(p)'
  <2>1. Bound(p)'
    BY <1>1, <1>3 DEF Bound, Key
  <2>2. Heard(p)'
    BY <1>1, <1>3 DEF Heard, HeardBy, Own, Reportable
  <2>3. Paced(p)'
    BY <1>1, <1>3 DEF Paced
  <2> QED
    BY <2>1, <2>2, <2>3
<1> QED
  BY <1>6, <1>7, <1>8 DEF Inv

LEMMA InitInv == Init => Inv
<1> SUFFICES ASSUME Init PROVE Inv
  OBVIOUS
<1>1. FilesTyped
  BY DEF Init, FilesTyped
<1>2. conn \in [Procs -> [Conns -> Connections]]
      /\ \A p \in Procs, c \in Conns : conn[p][c] = Closed
  BY DEF Init, Closed, Connections
<1>3. napping \in [Procs -> BOOLEAN]
  BY DEF Init
<1>4. OwnTyped
  BY <1>2, <1>3 DEF Init, OwnTyped, States
<1>5. Registered /\ TokenKeepsItsClient
  BY DEF Init, Registered, TokenKeepsItsClient
<1>6. ASSUME NEW p \in Procs PROVE Bound(p) /\ Heard(p) /\ Paced(p)
  BY <1>2 DEF Init, Bound, Heard, HeardBy, Paced, HasClient, HasAsked, Closed
<1>7. TypeOK
  BY <1>1, <1>4, TypeParts
<1> QED
  BY <1>5, <1>6, <1>7 DEF Inv

LEMMA StepKept ==
  ASSUME Inv, NEW p \in Procs, Step(p)
  PROVE  Inv'
<1>1. CASE Begin(p)
  BY <1>1, BeginKept
<1>2. CASE UseCached(p) \/ Register(p) \/ Cache(p) \/ Save(p)
  BY <1>2, UseCachedKept, RegisterKept, CacheKept, SaveKept
<1>3. CASE Listen(p) \/ Start(p)
  BY <1>3, ListenKept, StartKept
<1>4. CASE Exchange(p) \/ Attempt(p) \/ Ready(p)
  BY <1>4, StepOnKept
<1>5. CASE Fail(p) \/ ReceiveError(p) \/ Expire(p) \/ Refused(p) \/ Deadline(p) \/ Die(p)
  BY <1>5, LeaveKept DEF Fail, ReceiveError, Expire, Refused, Deadline, Die
<1>6. CASE AcceptFails(p) \/ EndNap(p)
  BY <1>6, NapKept
<1>7. CASE ReceiveCode(p)
  BY <1>7, ReceiveKept
<1>8. CASE Pending(p) \/ SlowDown(p)
  BY <1>8, AnswerKept
<1>9. CASE Tick(p)
  BY <1>9, TickKept
<1>10. CASE \E c \in Conns : Connection(p, c)
  BY <1>10, ConnectionKept
<1> QED
  BY <1>1, <1>2, <1>3, <1>4, <1>5, <1>6, <1>7, <1>8, <1>9, <1>10 DEF Step, Proceed, Local, Answer

LEMMA StutterKept == Inv /\ UNCHANGED vars => Inv'
<1> SUFFICES ASSUME Inv, UNCHANGED vars PROVE Inv'
  OBVIOUS
<1> USE DEF vars, files, who, loopback, polling
<1>1. TypeOK'
  BY DEF Inv, TypeOK
<1>2. Registered' /\ TokenKeepsItsClient'
  BY DEF Inv, Registered, TokenKeepsItsClient
<1>3. ASSUME NEW p \in Procs PROVE Bound(p)' /\ Heard(p)' /\ Paced(p)'
  BY DEF Inv, Bound, Heard, HeardBy, Own, Reportable, Paced, Key
<1> QED
  BY <1>1, <1>2, <1>3 DEF Inv

LEMMA Inductive == Spec => []Inv
<1>1. Inv /\ [Next]_vars => Inv'
  BY ClientAgesKept, StepKept, StutterKept DEF Next
<1> QED
  BY <1>1, InitInv, PTL DEF Spec

\* Every file, connection and timer is what the code takes it for.
THEOREM Typed == Spec => []TypeOK
BY Inductive, PTL DEF Inv

\* What a wait ends with is the answer to its own request, whoever else signs
\* in, had the port before or comes to it (loopback.rs:145-150).
THEOREM OwnAnswer == Spec => []WaitEndsWithItsOwn
<1>1. Inv => WaitEndsWithItsOwn
  BY DEF Inv, Heard, Own, Reportable, WaitEndsWithItsOwn
<1> QED
  BY <1>1, Inductive, PTL

\* The browser has its answer, or its connection is lost, before the command
\* hears of the outcome, with any number of connections at once
\* (loopback.rs:96-103).
THEOREM AnswersFirst == Spec => []AnswerComesFirst
<1>1. Inv => AnswerComesFirst
  BY DEF Inv, Heard, Reportable, AnswerComesFirst
<1> QED
  BY <1>1, Inductive, PTL

\* A token is kept with the client that it was issued to, whatever logins side
\* by side did to the cached one (auth/mod.rs:147-182).
THEOREM ClientKept == Spec => []TokenKeepsItsClient
BY Inductive, PTL DEF Inv

\* Only a sleep that is over is followed by a poll.
LEMMA ToPoll ==
  ASSUME Next, pc \in [Procs -> States], NEW p \in Procs, pc[p] = "sleep", pc'[p] = "poll"
  PROVE  wait[p] = 0 /\ left[p] > 0
<1>1. PICK q \in Procs : Step(q)
  BY DEF Next, ClientAges
<1>2. \/ Attempt(q)
      \/ \E at \in States \ {"poll"} : Go(q, at)
      \/ pc' = pc
  <2>1. CASE \/ UseCached(q) \/ Cache(q)
    BY <2>1, RequestType DEF UseCached, Cache, States
  <2>2. CASE \/ Begin(q) \/ Register(q) \/ Listen(q) \/ Exchange(q) \/ Ready(q)
             \/ ReceiveCode(q)
    BY <2>2 DEF Begin, Register, Listen, Exchange, Ready, ReceiveCode, States
  <2>3. CASE Start(q) \/ Pending(q) \/ SlowDown(q)
    BY <2>3 DEF Start, Pending, SlowDown, Sleep, States
  <2>4. CASE \/ Save(q) \/ Fail(q) \/ ReceiveError(q) \/ Expire(q) \/ Refused(q)
             \/ Deadline(q) \/ Die(q)
    BY <2>4 DEF Save, Fail, ReceiveError, Expire, Refused, Deadline, Die, Leave, Return, States
  <2>5. CASE AcceptFails(q) \/ EndNap(q) \/ Tick(q) \/ \E c \in Conns : Connection(q, c)
    BY <2>5 DEF AcceptFails, EndNap, Tick, Connection, Accept, Handle, Served, Report
  <2> QED
    BY <1>1, <2>1, <2>2, <2>3, <2>4, <2>5 DEF Step, Proceed, Local, Answer
<1>3. CASE Attempt(q)
  BY <1>3 DEF Attempt, Go
<1>4. CASE \E at \in States \ {"poll"} : Go(q, at)
  BY <1>4 DEF Go
<1> QED
  BY <1>2, <1>3, <1>4

\* No poll comes too soon or too late, whatever the service asks for
\* (device_poll.rs:29).
THEOREM Paces == Spec => PollsArePaced
<1>1. Inv /\ [Next]_vars =>
        [\A p \in Procs : pc[p] = "sleep" /\ pc'[p] = "poll"
                            => since[p] >= need[p] /\ left[p] > 0]_vars
  <2> SUFFICES ASSUME Inv, Next, NEW p \in Procs, pc[p] = "sleep", pc'[p] = "poll"
               PROVE  since[p] >= need[p] /\ left[p] > 0
    OBVIOUS
  <2>1. wait[p] = 0 /\ left[p] > 0
    BY ToPoll DEF Inv, TypeOK
  <2>2. since[p] \in Nat /\ need[p] \in Nat /\ Paced(p)
    BY DEF Inv, TypeOK
  <2> QED
    BY <2>1, <2>2 DEF Paced
<1> QED
  BY <1>1, Inductive, PTL DEF Spec, PollsArePaced

=============================================================================
