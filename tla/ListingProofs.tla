---------------------------- MODULE ListingProofs ----------------------------
(***************************************************************************)
(* Theorems about Listing, for any processes, sign-ins, accounts and       *)
(* fan-out.                                                                *)
(***************************************************************************)
EXTENDS Listing, FiniteSetTheorems, TLAPS

USE ListingAssumption

PC == {"idle", "token", "look", "roles", "store"}

Underway == {"roles", "store"}

\* The shape of a listing under way, and what its answers are worth.
Whole(p) ==
  /\ DOMAIN task[p] = DOMAIN accounts[p]
  /\ DOMAIN answer[p] = DOMAIN accounts[p]
  /\ \A i \in DOMAIN accounts[p] :
       /\ task[p][i] = "answered" => answer[p][i] = accounts[p][i].id
       /\ task[p][i] = "joined" => accounts[p][i].roles = accounts[p][i].id
       /\ pc[p] = "store" => task[p][i] = "joined"
  /\ pc[p] \notin Underway => task[p] = <<>>

WholeInv == (\A p \in Procs : Whole(p)) /\ ListingIsWhole

LEMMA GoType ==
  ASSUME NEW p \in Procs, NEW at \in PC, TypeOK, Go(p, at)
  PROVE  /\ pc' \in [Procs -> PC] /\ pc'[p] = at
         /\ \A q \in Procs \ {p} : pc'[q] = pc[q]
BY DEF TypeOK, Go, PC

LEMMA ReturnType ==
  ASSUME NEW p \in Procs, TypeOK, Return(p)
  PROVE  /\ pc' \in [Procs -> PC] /\ pc'[p] = "idle"
         /\ mine' \in [Procs -> Scopes \cup {Nobody}]
         /\ refresh' \in [Procs -> BOOLEAN]
         /\ accounts' \in [Procs -> Listed] /\ accounts'[p] = <<>>
         /\ task' \in [Procs -> Seq(Task)] /\ task'[p] = <<>>
         /\ answer' \in [Procs -> Seq(Answer)] /\ answer'[p] = <<>>
         /\ permits' \in [Procs -> 0 .. FanOut]
         /\ asked' \in [Procs -> 0 .. version]
         /\ base' \in [Procs -> 0 .. version]
         /\ \A q \in Procs \ {p} :
              /\ pc'[q] = pc[q] /\ mine'[q] = mine[q] /\ accounts'[q] = accounts[q]
              /\ task'[q] = task[q] /\ answer'[q] = answer[q] /\ asked'[q] = asked[q]
              /\ base'[q] = base[q]
<1>1. <<>> \in Listed /\ <<>> \in Seq(Task) /\ <<>> \in Seq(Answer)
  BY DEF Listed
<1>2. 0 \in 0 .. version /\ FanOut \in 0 .. FanOut
  BY DEF TypeOK
<1>3. pc' \in [Procs -> PC] /\ pc'[p] = "idle" /\ \A q \in Procs \ {p} : pc'[q] = pc[q]
  BY GoType DEF Return, PC
<1> QED
  BY <1>1, <1>2, <1>3 DEF TypeOK, Return, Abort

LEMMA SeqUpdate ==
  ASSUME NEW S, NEW s \in Seq(S), NEW i \in DOMAIN s
  PROVE  s[i] \in S /\ \A e \in S : [s EXCEPT ![i] = e] \in Seq(S)
OBVIOUS

\* A task that goes on, its listing, and what it hands over.
LEMMA RolesType ==
  ASSUME TypeOK, WholeInv, NEW p \in Procs, Roles(p)
  PROVE  /\ accounts' \in [Procs -> Listed] /\ task' \in [Procs -> Seq(Task)]
         /\ answer' \in [Procs -> Seq(Answer)] /\ permits' \in [Procs -> Int]
         /\ Whole(p)'
         /\ \A q \in Procs \ {p} : accounts'[q] = accounts[q] /\ task'[q] = task[q]
                                     /\ answer'[q] = answer[q]
<1>1. PICK i \in DOMAIN task[p] : Acquire(p, i) \/ ListAccountRoles(p, i) \/ JoinNext(p, i)
  BY DEF Roles
<1>2. /\ accounts[p] \in Listed /\ task[p] \in Seq(Task) /\ answer[p] \in Seq(Answer)
      /\ Whole(p) /\ pc[p] = "roles" /\ pc'[p] = "roles"
  BY DEF TypeOK, WholeInv, Roles
<1>3. i \in DOMAIN accounts[p] /\ i \in DOMAIN answer[p]
  BY <1>2 DEF Whole
<1>4. accounts[p][i] \in [id : Accounts, roles : Answer] /\ answer[p][i] \in Answer
  BY <1>2, <1>3, SeqUpdate DEF Listed
<1>5. CASE Acquire(p, i)
  <2>1. task' = [task EXCEPT ![p] = [task[p] EXCEPT ![i] = "calling"]]
    BY <1>5 DEF Acquire, Becomes
  <2>2. [task[p] EXCEPT ![i] = "calling"] \in Seq(Task)
    BY <1>2 DEF Task
  <2>3. /\ task' \in [Procs -> Seq(Task)] /\ task'[p] = [task[p] EXCEPT ![i] = "calling"]
        /\ \A q \in Procs \ {p} : task'[q] = task[q]
    BY <2>1, <2>2 DEF TypeOK
  <2>4. accounts' = accounts /\ answer' = answer /\ permits' \in [Procs -> Int]
    BY <1>5 DEF Acquire, TypeOK
  <2> QED
    BY <1>2, <2>3, <2>4 DEF Whole, TypeOK
<1>6. CASE ListAccountRoles(p, i)
  <2>1. PICK state \in {"answered", "failed"} :
          /\ task' = [task EXCEPT ![p] = [task[p] EXCEPT ![i] = state]]
          /\ \/ state = "failed" /\ answer' = answer
             \/ answer' = [answer EXCEPT ![p] = [answer[p] EXCEPT ![i] = accounts[p][i].id]]
    BY <1>6 DEF ListAccountRoles, Becomes
  <2>2. [task[p] EXCEPT ![i] = state] \in Seq(Task)
    BY <1>2 DEF Task
  <2>3. /\ task' \in [Procs -> Seq(Task)] /\ task'[p] = [task[p] EXCEPT ![i] = state]
        /\ \A q \in Procs \ {p} : task'[q] = task[q]
    BY <2>1, <2>2 DEF TypeOK
  <2>4. accounts[p][i].id \in Answer
    BY <1>4 DEF Answer
  <2>5. [answer[p] EXCEPT ![i] = accounts[p][i].id] \in Seq(Answer)
    BY <1>2, <1>3, <2>4, SeqUpdate
  <2>6. /\ answer' \in [Procs -> Seq(Answer)]
        /\ \A q \in Procs \ {p} : answer'[q] = answer[q]
        /\ \/ state = "failed" /\ answer'[p] = answer[p]
           \/ answer'[p] = [answer[p] EXCEPT ![i] = accounts[p][i].id]
    <3> DEFINE new == [answer[p] EXCEPT ![i] = accounts[p][i].id]
    <3>1. new \in Seq(Answer) /\ (answer' = [answer EXCEPT ![p] = new] \/ answer' = answer)
            /\ (state = "failed" \/ answer' = [answer EXCEPT ![p] = new])
      BY <2>1, <2>5
    <3> HIDE DEF new
    <3>2. /\ answer' \in [Procs -> Seq(Answer)]
          /\ \A q \in Procs \ {p} : answer'[q] = answer[q]
          /\ (state = "failed" /\ answer'[p] = answer[p]) \/ answer'[p] = new
      <4>1. answer \in [Procs -> Seq(Answer)]
        BY DEF TypeOK
      <4>2. CASE answer' = [answer EXCEPT ![p] = new]
        BY <3>1, <4>1, <4>2
      <4>3. CASE answer' = answer /\ state = "failed"
        BY <4>1, <4>3
      <4> QED
        BY <3>1, <4>2, <4>3
    <3> QED
      BY <3>2 DEF new
  <2>7. accounts' = accounts /\ permits' \in [Procs -> Int]
    BY <1>6 DEF ListAccountRoles, Released, TypeOK
  <2> QED
    BY <1>2, <1>3, <2>3, <2>6, <2>7 DEF Whole, TypeOK
<1>7. CASE JoinNext(p, i)
  <2> DEFINE entry == [id |-> accounts[p][i].id, roles |-> answer[p][i]]
  <2>0. [accounts[p][i] EXCEPT !.roles = answer[p][i]] = entry
    BY <1>4
  <2>1. /\ task' = [task EXCEPT ![p] = [task[p] EXCEPT ![i] = "joined"]]
        /\ accounts' = [accounts EXCEPT ![p] = [accounts[p] EXCEPT ![i] = entry]]
        /\ answer' = answer /\ permits' = permits /\ task[p][i] = "answered"
    BY <1>7, <2>0 DEF JoinNext, Becomes, Place
  <2>2. [task[p] EXCEPT ![i] = "joined"] \in Seq(Task)
    BY <1>2 DEF Task
  <2>3. /\ task' \in [Procs -> Seq(Task)] /\ task'[p] = [task[p] EXCEPT ![i] = "joined"]
        /\ \A q \in Procs \ {p} : task'[q] = task[q]
    BY <2>1, <2>2 DEF TypeOK
  <2>4. /\ entry \in [id : Accounts, roles : Answer]
        /\ entry.id = accounts[p][i].id /\ entry.roles = answer[p][i]
    BY <1>4
  <2>5. [accounts[p] EXCEPT ![i] = entry] \in Listed
    BY <1>2, <1>3, <2>4, SeqUpdate DEF Listed
  <2>6. /\ accounts' \in [Procs -> Listed]
        /\ accounts'[p] = [accounts[p] EXCEPT ![i] = entry]
        /\ \A q \in Procs \ {p} : accounts'[q] = accounts[q]
    BY <2>1, <2>5 DEF TypeOK
  <2>7. answer[p][i] = accounts[p][i].id
    BY <1>2, <1>3, <2>1 DEF Whole
  <2> HIDE DEF entry
  <2>8. Whole(p)'
    BY <1>2, <1>3, <2>1, <2>3, <2>4, <2>6, <2>7 DEF Whole
  <2> QED
    BY <2>1, <2>3, <2>6, <2>8 DEF TypeOK
<1> QED
  BY <1>1, <1>5, <1>6, <1>7


\* The semaphore counts the calls that are under way.
Counted(p) == IsFiniteSet(Calling(p)) /\ permits[p] + Cardinality(Calling(p)) = FanOut

PermitInv == \A p \in Procs : Counted(p)

\* Nothing that is stored, or will be, is older than what was stored in peace.
OrderInv ==
  /\ \A p \in Procs :
       /\ pc[p] \in {"look"} \cup Underway => mine[p] \in Scopes
       /\ pc[p] \in Underway => 1 <= asked[p] /\ floor[mine[p]] <= asked[p]
       /\ pc[p] = "look" => base[p] <= floor[mine[p]]
  /\ inventory # None => floor[inventory.scope] <= inventory.asked

Inv == TypeOK /\ WholeInv /\ PermitInv /\ OrderInv

LEMMA Others ==
  ASSUME TypeOK, WholeInv, NEW p \in Procs, Step(p)
  PROVE  \A q \in Procs \ {p} :
           /\ pc'[q] = pc[q] /\ mine'[q] = mine[q] /\ accounts'[q] = accounts[q]
           /\ task'[q] = task[q] /\ answer'[q] = answer[q] /\ asked'[q] = asked[q]
           /\ base'[q] = base[q]
<1> USE DEF fanout, history
<1>1. CASE Return(p)
  BY <1>1, ReturnType
<1>2. CASE Begin(p) \/ AllListed(p)
  BY <1>2 DEF Begin, AllListed, Go, TypeOK
<1>3. CASE UseToken(p)
  BY <1>3 DEF UseToken, Go, TypeOK
<1>4. CASE ListAccounts(p)
  <2>1. PICK a, t, n : /\ accounts' = [accounts EXCEPT ![p] = a]
                       /\ task' = [task EXCEPT ![p] = t]
                       /\ answer' = [answer EXCEPT ![p] = n]
    BY <1>4 DEF ListAccounts
  <2>2. /\ pc' = [pc EXCEPT ![p] = "roles"] /\ mine' = mine
        /\ asked' = [asked EXCEPT ![p] = version] /\ base' = [base EXCEPT ![p] = 0]
    BY <1>4 DEF ListAccounts, Go
  <2> QED
    BY <2>1, <2>2 DEF TypeOK
<1>5. CASE Roles(p)
  BY <1>5, RolesType DEF Roles
<1> QED
  BY <1>1, <1>2, <1>3, <1>4, <1>5
     DEF Step, LoginRequired, FromCache, ListFails, JoinFails, Store, StoreFails, Die, Leave

LEMMA InitInv == Init => Inv
<1> SUFFICES ASSUME Init PROVE Inv
  OBVIOUS
<1>1. <<>> \in Listed /\ <<>> \in Seq(Task) /\ <<>> \in Seq(Answer)
  BY DEF Listed
<1>2. TypeOK
  <2>1. version \in 1 .. MaxVersion
    BY DEF Init
  <2>0. inventory = None /\ fresh \in BOOLEAN
    BY Zenon DEF Init
  <2>2. /\ pc \in [Procs -> {"idle", "token", "look", "roles", "store"}]
        /\ refresh \in [Procs -> BOOLEAN] /\ mine \in [Procs -> Scopes \cup {Nobody}]
    BY DEF Init
  <2>3. /\ accounts \in [Procs -> Listed] /\ task \in [Procs -> Seq(Task)]
        /\ answer \in [Procs -> Seq(Answer)]
    BY <1>1 DEF Init
  <2>4. /\ permits \in [Procs -> 0 .. FanOut] /\ asked \in [Procs -> 0 .. version]
        /\ floor \in [Scopes -> 0 .. version] /\ base \in [Procs -> 0 .. version]
    BY DEF Init
  <2> QED
    BY <2>0, <2>1, <2>2, <2>3, <2>4 DEF TypeOK
<1>3. WholeInv
  BY DEF Init, WholeInv, Whole, ListingIsWhole, Underway
<1>4. \A p \in Procs : Calling(p) = {}
  BY DEF Init, Calling
<1>5. PermitInv
  <2>1. \A p \in Procs : permits[p] = FanOut
    BY DEF Init
  <2>2. \A p \in Procs : IsFiniteSet(Calling(p)) /\ Cardinality(Calling(p)) = 0
    BY <1>4, FS_EmptySet
  <2> QED
    BY <2>1, <2>2 DEF PermitInv, Counted
<1>6. OrderInv
  BY DEF Init, OrderInv, Underway
<1> QED
  BY <1>2, <1>3, <1>5, <1>6 DEF Inv

\* A listing that begins has a task for each account and no call yet.
LEMMA ListType ==
  ASSUME Inv, NEW p \in Procs, ListAccounts(p)
  PROVE  /\ accounts' \in [Procs -> Listed] /\ task' \in [Procs -> Seq(Task)]
         /\ answer' \in [Procs -> Seq(Answer)]
         /\ Whole(p)' /\ Calling(p)' = {}
<1>1. PICK listed \in Sorted :
        /\ accounts' = [accounts EXCEPT ![p] =
             [i \in DOMAIN listed |-> [id |-> listed[i], roles |-> 0]]]
        /\ task' = [task EXCEPT ![p] = [i \in DOMAIN listed |-> "waiting"]]
        /\ answer' = [answer EXCEPT ![p] = [i \in DOMAIN listed |-> 0]]
  BY DEF ListAccounts
<1>2. PICK n \in 0 .. Cardinality(Accounts) : listed \in [1 .. n -> Accounts]
  BY DEF Sorted
<1>3. n \in Nat /\ DOMAIN listed = 1 .. n
  BY <1>2
<1> DEFINE a == [i \in DOMAIN listed |-> [id |-> listed[i], roles |-> 0]]
           t == [i \in DOMAIN listed |-> "waiting"]
           r == [i \in DOMAIN listed |-> 0]
<1>4. a \in Listed
  BY <1>2, <1>3 DEF Listed, Answer
<1>5. t \in Seq(Task) /\ r \in Seq(Answer)
  BY <1>3 DEF Task, Answer
<1>6. /\ DOMAIN a = DOMAIN listed /\ DOMAIN t = DOMAIN listed /\ DOMAIN r = DOMAIN listed
      /\ \A i \in DOMAIN listed : t[i] = "waiting"
  OBVIOUS
<1> HIDE DEF a, t, r
<1>7. /\ accounts' = [accounts EXCEPT ![p] = a] /\ task' = [task EXCEPT ![p] = t]
      /\ answer' = [answer EXCEPT ![p] = r]
  BY <1>1 DEF a, t, r
<1>8. accounts \in [Procs -> Listed] /\ task \in [Procs -> Seq(Task)] /\ answer \in [Procs -> Seq(Answer)]
  BY DEF Inv, TypeOK
<1>9. accounts' \in [Procs -> Listed] /\ task' \in [Procs -> Seq(Task)] /\ answer' \in [Procs -> Seq(Answer)]
  BY <1>4, <1>5, <1>7, <1>8
<1>10. accounts'[p] = a /\ task'[p] = t /\ answer'[p] = r
  BY <1>7, <1>8
<1>11. pc'[p] = "roles"
  BY GoType DEF ListAccounts, Inv, PC
<1> QED
  BY <1>6, <1>9, <1>10, <1>11 DEF Whole, Calling, Underway

LEMMA TypeKept ==
  ASSUME Inv, [Next]_vars
  PROVE  TypeOK'
<1> USE DEF file, fanout, history
<1>0. TypeOK
  BY DEF Inv
<1>1. ASSUME NEW p \in Procs, Leave(p) PROVE TypeOK'
  BY <1>0, <1>1, ReturnType DEF Leave, TypeOK, PC
<1>2. ASSUME NEW p \in Procs, Begin(p) \/ AllListed(p) PROVE TypeOK'
  <2>1. refresh' \in [Procs -> BOOLEAN]
    <3>1. CASE Begin(p)
      <4>1. PICK r \in BOOLEAN : refresh' = [refresh EXCEPT ![p] = r]
        BY <3>1 DEF Begin
      <4> QED
        BY <1>0, <4>1 DEF TypeOK
    <3>2. CASE AllListed(p)
      BY <1>0, <3>2 DEF AllListed, TypeOK
    <3> QED
      BY <1>2, <3>1, <3>2
  <2> QED
    BY <1>0, <1>2, <2>1, GoType DEF Begin, AllListed, TypeOK, PC
<1>3. ASSUME NEW p \in Procs, UseToken(p) PROVE TypeOK'
  <2>1. PICK s \in Scopes : /\ mine' = [mine EXCEPT ![p] = s]
                            /\ base' = [base EXCEPT ![p] = floor[s]]
    BY <1>3 DEF UseToken
  <2>2. mine' \in [Procs -> Scopes \cup {Nobody}] /\ base' \in [Procs -> 0 .. version]
    BY <1>0, <2>1 DEF TypeOK
  <2> QED
    BY <1>0, <1>3, <2>2, GoType DEF UseToken, TypeOK, PC
<1>4. ASSUME NEW p \in Procs, ListAccounts(p) PROVE TypeOK'
  <2>1. /\ asked' = [asked EXCEPT ![p] = version] /\ base' = [base EXCEPT ![p] = 0]
        /\ refresh' = [refresh EXCEPT ![p] = FALSE] /\ Go(p, "roles")
        /\ UNCHANGED <<version, file, mine, permits, floor>>
    BY <1>4 DEF ListAccounts
  <2>2. version \in 0 .. version /\ 0 \in 0 .. version
    BY <1>0 DEF TypeOK
  <2>3. asked' \in [Procs -> 0 .. version] /\ base' \in [Procs -> 0 .. version]
          /\ refresh' \in [Procs -> BOOLEAN]
    BY <1>0, <2>1, <2>2 DEF TypeOK
  <2> QED
    BY <1>0, <1>4, <2>1, <2>3, ListType, GoType DEF TypeOK, PC
<1>5. ASSUME NEW p \in Procs, Roles(p) PROVE TypeOK'
  <2>1. permits' \in [Procs -> 0 .. FanOut]
    <3>1. PICK i \in DOMAIN task[p] :
            Acquire(p, i) \/ ListAccountRoles(p, i) \/ JoinNext(p, i)
      BY <1>5 DEF Roles
    <3>2. CASE ListAccountRoles(p, i)
      <4>1. i \in Calling(p)
        BY <3>2 DEF ListAccountRoles, Calling
      <4>2. Cardinality(Calling(p)) \in Nat /\ Cardinality(Calling(p)) # 0
        BY <4>1, FS_EmptySet, FS_CardinalityType DEF Inv, PermitInv, Counted
      <4>3. permits[p] < FanOut
        BY <1>0, <4>2 DEF Inv, PermitInv, Counted, TypeOK
      <4> QED
        BY <1>0, <3>2, <4>3 DEF ListAccountRoles, Released, TypeOK
    <3>3. permits \in [Procs -> 0 .. FanOut]
      BY <1>0 DEF TypeOK
    <3>4. CASE Acquire(p, i)
      <4>1. permits[p] - 1 \in 0 .. FanOut /\ permits' = [permits EXCEPT ![p] = permits[p] - 1]
        BY <3>3, <3>4 DEF Acquire
      <4> QED
        BY <3>3, <4>1
    <3>5. CASE JoinNext(p, i)
      BY <3>3, <3>5 DEF JoinNext
    <3> QED
      BY <3>1, <3>2, <3>4, <3>5
  <2>2. WholeInv
    BY DEF Inv
  <2> QED
    BY <1>0, <1>5, <2>1, <2>2, RolesType DEF Roles, TypeOK
<1>6. ASSUME NEW p \in Procs, Store(p) PROVE TypeOK'
  <2>1. mine[p] \in Scopes /\ asked[p] \in 1 .. version /\ accounts[p] \in Listed
    BY <1>0, <1>6 DEF Store, Inv, OrderInv, Underway, TypeOK
  <2>2. inventory' \in [scope : Scopes, asked : 1 .. version, items : Listed]
    BY <1>6, <2>1 DEF Store, Stored, Snapshot
  <2>3. floor' \in [Scopes -> 0 .. version]
    BY <1>0, <1>6, <2>1 DEF Store, TypeOK
  <2>4. Return(p) /\ version' = version /\ fresh' = TRUE
    BY <1>6 DEF Store
  <2> QED
    BY <1>0, <2>2, <2>3, <2>4, ReturnType DEF TypeOK, PC
<1>7. CASE AssignmentsChange
  <2>1. /\ version' \in 1 .. MaxVersion /\ 0 .. version \subseteq 0 .. version'
        /\ 1 .. version \subseteq 1 .. version'
        /\ UNCHANGED <<file, pc, refresh, mine, fanout, history>>
    BY <1>0, <1>7 DEF AssignmentsChange, TypeOK
  <2>2. inventory \in {None} \cup [scope : Scopes, asked : 1 .. version', items : Listed]
    BY <1>0, <2>1 DEF TypeOK
  <2>3. /\ asked \in [Procs -> 0 .. version'] /\ floor \in [Scopes -> 0 .. version']
        /\ base \in [Procs -> 0 .. version']
    BY <1>0, <2>1 DEF TypeOK
  <2> QED
    BY <1>0, <2>1, <2>2, <2>3 DEF TypeOK
<1>8. CASE Clock \/ UNCHANGED vars
  BY <1>0, <1>8 DEF Clock, vars, TypeOK
<1> QED
  BY <1>1, <1>2, <1>3, <1>4, <1>5, <1>6, <1>7, <1>8
     DEF Next, Step, LoginRequired, FromCache, ListFails, JoinFails, StoreFails, Die

LEMMA WholeKept ==
  ASSUME Inv, [Next]_vars
  PROVE  WholeInv'
<1> USE DEF file, fanout, history
<1>0. TypeOK /\ (\A p \in Procs : Whole(p)) /\ ListingIsWhole
  BY DEF Inv, WholeInv
<1>1. ASSUME NEW p \in Procs, Step(p) PROVE \A q \in Procs \ {p} : Whole(q)'
  BY <1>0, <1>1, Others DEF Whole, Inv
<1>2. ASSUME NEW p \in Procs, Leave(p) PROVE WholeInv'
  <2>0. \A q \in Procs \ {p} :
          pc'[q] = pc[q] /\ accounts'[q] = accounts[q] /\ task'[q] = task[q] /\ answer'[q] = answer[q]
    BY <1>0, <1>2, ReturnType DEF Leave
  <2>1. \A q \in Procs \ {p} : Whole(q)'
    BY <1>0, <2>0 DEF Whole
  <2>2. Whole(p)'
    BY <1>0, <1>2, ReturnType DEF Whole, Leave, Underway
  <2>3. ListingIsWhole'
    BY <1>0, <1>2 DEF Leave, ListingIsWhole
  <2> QED
    BY <2>1, <2>2, <2>3 DEF WholeInv
<1>3. ASSUME NEW p \in Procs, Step(p), inventory' = inventory, Whole(p)' PROVE WholeInv'
  BY <1>0, <1>1, <1>3 DEF WholeInv, ListingIsWhole
<1>4. ASSUME NEW p \in Procs, Begin(p) \/ UseToken(p) \/ AllListed(p) PROVE Whole(p)'
  <2>1. PICK at \in PC : Go(p, at) /\ (at = "store" <=> AllListed(p))
    BY <1>4 DEF Begin, UseToken, AllListed, Go, PC
  <2>2. pc'[p] = at
    BY <1>0, <2>1, GoType
  <2>3. Whole(p) /\ accounts' = accounts /\ task' = task /\ answer' = answer
    BY <1>0, <1>4 DEF Begin, UseToken, AllListed
  <2>4. CASE AllListed(p)
    BY <2>1, <2>2, <2>3, <2>4 DEF AllListed, Whole, Underway
  <2>5. CASE Begin(p) \/ UseToken(p)
    <3>1. pc[p] \notin Underway /\ pc'[p] # "store"
      BY <1>0, <2>5 DEF Begin, UseToken, Go, TypeOK, Underway
    <3> QED
      BY <2>3, <3>1 DEF Whole
  <2> QED
    BY <1>4, <2>4, <2>5
<1>5. ASSUME NEW p \in Procs, Store(p) PROVE WholeInv'
  <2>1. Whole(p)'
    BY <1>0, <1>5, ReturnType DEF Store, Whole, Underway
  <2>2. inventory'.items = accounts[p] /\ pc[p] = "store" /\ Whole(p)
    BY <1>0, <1>5 DEF Store, Stored, Snapshot
  <2>3. ListingIsWhole'
    BY <2>2 DEF Whole, ListingIsWhole
  <2> QED
    BY <1>1, <1>5, <2>1, <2>3 DEF WholeInv, Step
<1>6. CASE AssignmentsChange \/ Clock \/ UNCHANGED vars
  BY <1>0, <1>6 DEF AssignmentsChange, Clock, vars, WholeInv, Whole, ListingIsWhole
<1>7. ASSUME NEW p \in Procs, Step(p) PROVE WholeInv'
  <2>1. CASE Begin(p) \/ UseToken(p) \/ AllListed(p)
    BY <1>3, <1>4, <1>7, <2>1 DEF Begin, UseToken, AllListed
  <2>2. CASE ListAccounts(p)
    BY <1>3, <1>7, <2>2, ListType DEF ListAccounts
  <2>3. CASE Roles(p)
    BY <1>0, <1>3, <1>7, <2>3, RolesType DEF Roles, Inv
  <2>4. CASE Store(p)
    BY <1>5, <2>4
  <2>5. CASE Leave(p)
    BY <1>2, <2>5
  <2> QED
    BY <1>7, <2>1, <2>2, <2>3, <2>4, <2>5
       DEF Step, LoginRequired, FromCache, ListFails, JoinFails, StoreFails, Die
<1> QED
  BY <1>6, <1>7 DEF Next

LEMMA PermitKept ==
  ASSUME Inv, [Next]_vars
  PROVE  PermitInv'
<1> USE DEF file, fanout, history
<1>0. TypeOK /\ WholeInv /\ \A p \in Procs : Counted(p) /\ Whole(p)
  BY DEF Inv, PermitInv, WholeInv
<1>1. ASSUME NEW p \in Procs, task' = task, permits' = permits PROVE Counted(p)'
  BY <1>0, <1>1 DEF Counted, Calling
<1>2. ASSUME NEW p \in Procs, Calling(p)' = {}, permits'[p] = FanOut PROVE Counted(p)'
  BY <1>2, FS_EmptySet DEF Counted
<1>3. ASSUME NEW p \in Procs, Step(p), permits' = [permits EXCEPT ![p] = permits'[p]],
             Counted(p)'
      PROVE  PermitInv'
  <2>1. \A q \in Procs \ {p} : permits'[q] = permits[q] /\ task'[q] = task[q]
    BY <1>0, <1>3, Others DEF TypeOK
  <2>2. \A q \in Procs \ {p} : Counted(q)'
    BY <1>0, <2>1 DEF Counted, Calling
  <2> QED
    BY <1>3, <2>2 DEF PermitInv
<1>4. ASSUME NEW p \in Procs, Step(p), Return(p) PROVE PermitInv'
  <2>1. permits' = [permits EXCEPT ![p] = FanOut] /\ permits'[p] = FanOut
    BY <1>0, <1>4 DEF Return, TypeOK
  <2>2. Calling(p)' = {}
    BY <1>0, <1>4, ReturnType DEF Calling
  <2> QED
    BY <1>2, <1>3, <1>4, <2>1, <2>2
<1>5. ASSUME NEW p \in Procs, ListAccounts(p) PROVE PermitInv'
  <2>1. task[p] = <<>> /\ permits' = permits
    BY <1>0, <1>5 DEF ListAccounts, Whole, Underway
  <2>2. Calling(p) = {}
    BY <2>1 DEF Calling
  <2>3. permits[p] = FanOut
    <3>1. Cardinality(Calling(p)) = 0
      BY <2>2, FS_EmptySet
    <3>2. permits[p] \in 0 .. FanOut /\ permits[p] + Cardinality(Calling(p)) = FanOut
      BY <1>0 DEF Counted, TypeOK
    <3> QED
      BY <3>1, <3>2
  <2> QED
    BY <1>0, <1>2, <1>3, <1>5, <2>1, <2>3, ListType DEF Step, TypeOK
<1>6. ASSUME NEW p \in Procs, Roles(p) PROVE PermitInv'
  <2>1. PICK i \in DOMAIN task[p] : Acquire(p, i) \/ ListAccountRoles(p, i) \/ JoinNext(p, i)
    BY <1>6 DEF Roles
  <2>2. task[p] \in Seq(Task) /\ permits[p] \in 0 .. FanOut /\ Counted(p)
    BY <1>0 DEF TypeOK
  <2>3. Cardinality(Calling(p)) \in Nat
    BY <2>2, FS_CardinalityType DEF Counted
  <2>4. PICK state \in Task : task'[p] = [task[p] EXCEPT ![i] = state]
    BY <1>0, <2>1 DEF Acquire, ListAccountRoles, JoinNext, Becomes, TypeOK, Task
  <2>5. Counted(p)' /\ permits' = [permits EXCEPT ![p] = permits'[p]]
    <3>1. CASE Acquire(p, i)
      <4>1. task'[p] = [task[p] EXCEPT ![i] = "calling"] /\ task[p][i] = "waiting"
        BY <1>0, <3>1 DEF Acquire, Becomes, TypeOK
      <4>2. Calling(p)' = Calling(p) \cup {i} /\ i \notin Calling(p)
        BY <2>2, <4>1 DEF Calling
      <4>3. permits'[p] = permits[p] - 1 /\ permits' = [permits EXCEPT ![p] = permits'[p]]
        BY <1>0, <3>1 DEF Acquire, TypeOK
      <4>4. /\ IsFiniteSet(Calling(p) \cup {i})
            /\ Cardinality(Calling(p) \cup {i}) = Cardinality(Calling(p)) + 1
        BY <2>2, <4>2, FS_AddElement DEF Counted
      <4>5. permits'[p] + Cardinality(Calling(p) \cup {i}) = FanOut
        BY <2>2, <2>3, <4>3, <4>4 DEF Counted
      <4> QED
        BY <4>2, <4>3, <4>4, <4>5 DEF Counted
    <3>2. CASE ListAccountRoles(p, i)
      <4>1. task[p][i] = "calling" /\ task'[p][i] # "calling"
        BY <1>0, <3>2 DEF ListAccountRoles, Becomes, TypeOK
      <4>2. Calling(p)' = Calling(p) \ {i} /\ i \in Calling(p)
        BY <2>2, <2>4, <4>1 DEF Calling
      <4>3. permits'[p] = permits[p] + 1 /\ permits' = [permits EXCEPT ![p] = permits'[p]]
        BY <1>0, <3>2 DEF ListAccountRoles, Released, TypeOK
      <4>4. /\ IsFiniteSet(Calling(p) \ {i})
            /\ Cardinality(Calling(p) \ {i}) = Cardinality(Calling(p)) - 1
        BY <2>2, <4>2, FS_RemoveElement DEF Counted
      <4>5. permits'[p] + Cardinality(Calling(p) \ {i}) = FanOut
        BY <2>2, <2>3, <4>3, <4>4 DEF Counted
      <4> QED
        BY <4>2, <4>3, <4>4, <4>5 DEF Counted
    <3>3. CASE JoinNext(p, i)
      <4>1. task'[p] = [task[p] EXCEPT ![i] = "joined"] /\ task[p][i] = "answered"
        BY <1>0, <3>3 DEF JoinNext, Becomes, TypeOK
      <4>2. Calling(p)' = Calling(p)
        BY <2>2, <4>1 DEF Calling
      <4>3. permits' = permits
        BY <3>3 DEF JoinNext
      <4> QED
        BY <1>0, <2>2, <4>2, <4>3 DEF Counted, TypeOK
    <3> QED
      BY <2>1, <3>1, <3>2, <3>3
  <2> QED
    BY <1>3, <1>6, <2>5 DEF Step
<1>7. ASSUME NEW p \in Procs, Begin(p) \/ UseToken(p) \/ AllListed(p) PROVE PermitInv'
  BY <1>1, <1>7 DEF Begin, UseToken, AllListed, PermitInv
<1>8. CASE AssignmentsChange \/ Clock \/ UNCHANGED vars
  BY <1>1, <1>8 DEF AssignmentsChange, Clock, vars, PermitInv
<1> QED
  BY <1>4, <1>5, <1>6, <1>7, <1>8
     DEF Next, Step, LoginRequired, FromCache, ListFails, JoinFails, Store, StoreFails,
         Die, Leave

\* A listing begins in the present, and floor rises to what alone is stored.
LEMMA OrderKept ==
  ASSUME Inv, [Next]_vars
  PROVE  OrderInv'
<1> USE DEF file, fanout, history
<1> DEFINE Ordered(p) ==
             /\ pc[p] \in {"look"} \cup Underway => mine[p] \in Scopes
             /\ pc[p] \in Underway => 1 <= asked[p] /\ floor[mine[p]] <= asked[p]
             /\ pc[p] = "look" => base[p] <= floor[mine[p]]
           Newest == inventory # None => floor[inventory.scope] <= inventory.asked
<1>0. TypeOK /\ WholeInv /\ (\A p \in Procs : Ordered(p)) /\ Newest
  BY DEF Inv, OrderInv
<1>1. ASSUME NEW p \in Procs, Step(p), floor' = floor PROVE \A q \in Procs \ {p} : Ordered(q)'
  <2>1. \A q \in Procs \ {p} : pc'[q] = pc[q] /\ mine'[q] = mine[q] /\ asked'[q] = asked[q]
                                 /\ base'[q] = base[q]
    BY <1>0, <1>1, Others
  <2> QED
    BY <1>0, <1>1, <2>1
<1>2. ASSUME NEW p \in Procs, pc'[p] \notin {"look"} \cup Underway PROVE Ordered(p)'
  BY <1>2 DEF Underway
<1>3. ASSUME NEW p \in Procs, Step(p), floor' = floor, inventory' = inventory, Ordered(p)'
      PROVE  OrderInv'
  <2>1. Newest'
    BY <1>0, <1>3
  <2> QED
    BY <1>1, <1>3, <2>1 DEF OrderInv
<1>4. ASSUME NEW p \in Procs, Step(p), Leave(p) PROVE OrderInv'
  <2>1. pc'[p] = "idle"
    BY <1>0, <1>4, ReturnType DEF Leave
  <2> QED
    BY <1>2, <1>3, <1>4, <2>1 DEF Leave, Underway
<1>5. ASSUME NEW p \in Procs, Begin(p) PROVE OrderInv'
  <2>1. pc'[p] = "token"
    BY <1>0, <1>5, GoType DEF Begin, PC
  <2> QED
    BY <1>2, <1>3, <1>5, <2>1 DEF Begin, Step, Underway
<1>6. ASSUME NEW p \in Procs, UseToken(p) PROVE OrderInv'
  <2>1. PICK s \in Scopes : /\ mine' = [mine EXCEPT ![p] = s]
                            /\ base' = [base EXCEPT ![p] = floor[s]]
    BY <1>6 DEF UseToken
  <2>2. pc'[p] = "look" /\ mine'[p] = s /\ base'[p] = floor[s] /\ floor' = floor
    BY <1>0, <1>6, <2>1, GoType DEF UseToken, PC, TypeOK
  <2>3. floor[s] \in Int
    BY <1>0 DEF TypeOK
  <2>4. Ordered(p)'
    BY <2>2, <2>3 DEF Underway
  <2> QED
    BY <1>3, <1>6, <2>2, <2>4 DEF UseToken, Step
<1>7. ASSUME NEW p \in Procs, ListAccounts(p) PROVE OrderInv'
  <2>1. /\ pc[p] = "look" /\ mine' = mine /\ floor' = floor /\ inventory' = inventory
        /\ pc'[p] = "roles" /\ asked'[p] = version
    BY <1>0, <1>7, GoType DEF ListAccounts, PC, TypeOK
  <2>2. mine[p] \in Scopes /\ version >= 1
    BY <1>0, <2>1 DEF TypeOK
  <2>3. floor[mine[p]] <= version
    BY <1>0, <2>2 DEF TypeOK
  <2>4. Ordered(p)'
    BY <2>1, <2>2, <2>3 DEF Underway
  <2> QED
    BY <1>3, <1>7, <2>1, <2>4 DEF Step
<1>8. ASSUME NEW p \in Procs, Roles(p) \/ AllListed(p) PROVE OrderInv'
  <2>1. /\ pc[p] \in Underway /\ mine' = mine /\ floor' = floor /\ inventory' = inventory
        /\ asked' = asked
    BY <1>8 DEF Roles, AllListed, Underway
  <2>2. pc'[p] \in Underway
    BY <1>0, <1>8, GoType DEF Roles, AllListed, Underway, PC
  <2>3. Ordered(p)'
    BY <1>0, <2>1, <2>2 DEF Underway
  <2> QED
    BY <1>3, <1>8, <2>1, <2>3 DEF Step
<1>9. ASSUME NEW p \in Procs, Store(p) PROVE OrderInv'
  <2>1. /\ pc[p] = "store" /\ Return(p)
        /\ inventory' = [scope |-> mine[p], asked |-> asked[p], items |-> accounts[p]]
    BY <1>9 DEF Store, Stored, Snapshot
  <2>2. mine[p] \in Scopes /\ floor[mine[p]] <= asked[p] /\ asked[p] \in Int
    BY <1>0, <2>1 DEF Underway, TypeOK
  <2>3. pc'[p] = "idle"
    BY <1>0, <2>1, ReturnType
  <2>4. Ordered(p)'
    BY <1>2, <2>3 DEF Underway
  <2>5. \A q \in Procs \ {p} : pc'[q] = pc[q] /\ mine'[q] = mine[q] /\ asked'[q] = asked[q]
                                 /\ base'[q] = base[q]
    BY <1>0, <2>1, ReturnType
  <2>6. floor'[mine[p]] <= asked[p]
    BY <1>0, <1>9, <2>2 DEF Store, TypeOK
  <2>7. inventory'.scope = mine[p] /\ inventory'.asked = asked[p]
    BY <2>1
  <2>8. Newest'
    BY <2>6, <2>7
  <2>9. ASSUME NEW q \in Procs \ {p} PROVE Ordered(q)'
    <3>1. CASE floor' = floor
      BY <1>0, <2>5, <3>1
    <3>2. CASE floor' # floor
      <4>1. pc[q] \notin Underway /\ floor' = [floor EXCEPT ![mine[p]] = asked[p]]
        BY <1>9, <3>2 DEF Store, Underway
      <4>2. \A s \in Scopes : floor[s] <= floor'[s] /\ floor[s] \in Int /\ floor'[s] \in Int
        BY <1>0, <2>2, <4>1 DEF TypeOK
      <4>3. pc[q] = "look" => base[q] <= floor[mine[q]] /\ base[q] \in Int /\ mine[q] \in Scopes
        BY <1>0 DEF TypeOK
      <4> QED
        BY <2>5, <4>1, <4>2, <4>3 DEF Underway
    <3> QED
      BY <3>1, <3>2
  <2> QED
    BY <2>4, <2>8, <2>9 DEF OrderInv
<1>10. CASE AssignmentsChange \/ Clock \/ UNCHANGED vars
  BY <1>0, <1>10 DEF AssignmentsChange, Clock, vars, OrderInv
<1> QED
  BY <1>4, <1>5, <1>6, <1>7, <1>8, <1>9, <1>10
     DEF Next, Step, LoginRequired, FromCache, ListFails, JoinFails, StoreFails, Die

LEMMA Inductive == Spec => []Inv
<1>1. Inv /\ [Next]_vars => Inv'
  BY TypeKept, WholeKept, PermitKept, OrderKept DEF Inv
<1> QED
  BY <1>1, InitInv, PTL DEF Spec

\* The types: no call takes a permit that is not there or gives back one too
\* many, and none stores a listing without a scope (inventory.rs:71-88).
THEOREM Typed == Spec => []TypeOK
<1>1. Inv => TypeOK
  BY DEF Inv
<1> QED
  BY <1>1, Inductive, PTL

\* A stored listing has each account's own roles, all of them (portal.rs:53-71).
THEOREM ListingsWhole == Spec => []ListingIsWhole
<1>1. Inv => ListingIsWhole
  BY DEF Inv, WholeInv
<1> QED
  BY <1>1, Inductive, PTL

\* What the cache serves is the session's own, and no older than what was
\* stored, with nothing under way, before the call (context.rs:103-127).
THEOREM CacheCurrent == Spec => []CacheIsCurrent
<1>1. Inv => CacheIsCurrent
  <2> SUFFICES ASSUME Inv, NEW p \in Procs, pc[p] = "look", Served(p)
               PROVE  inventory.scope = mine[p] /\ inventory.asked >= base[p]
    BY DEF CacheIsCurrent
  <2>1. mine[p] \in Scopes /\ base[p] <= floor[mine[p]]
    BY DEF Inv, OrderInv
  <2>2. inventory # None /\ inventory.scope = mine[p]
    BY DEF Served, Loaded
  <2>3. inventory.asked \in Int /\ floor[mine[p]] \in Int /\ base[p] \in Int
    BY <2>1, <2>2 DEF Inv, TypeOK
  <2>4. floor[inventory.scope] <= inventory.asked
    BY <2>2 DEF Inv, OrderInv
  <2> QED
    BY <2>1, <2>2, <2>3, <2>4
<1> QED
  BY <1>1, Inductive, PTL

\* The fan-out stays within its limit, waits only for calls under way, and
\* leaves none behind (portal.rs:53-72).
THEOREM CallsContained == Spec => []CallsAreContained
<1>1. Inv => CallsAreContained
  <2> SUFFICES ASSUME Inv, NEW p \in Procs
               PROVE  /\ Cardinality(Calling(p)) <= FanOut
                      /\ Calling(p) # {} => pc[p] = "roles"
                      /\ (\E i \in DOMAIN task[p] : task[p][i] = "waiting")
                           => permits[p] > 0 \/ Calling(p) # {}
    BY DEF CallsAreContained
  <2>1. /\ permits[p] \in 0 .. FanOut /\ Counted(p) /\ Whole(p)
        /\ pc[p] \in {"idle", "token", "look", "roles", "store"}
    BY DEF Inv, TypeOK, PermitInv, WholeInv
  <2>2. Cardinality(Calling(p)) \in Nat
    BY <2>1, FS_CardinalityType DEF Counted
  <2>3. Cardinality(Calling(p)) <= FanOut
    BY <2>1, <2>2 DEF Counted
  <2>4. ASSUME Calling(p) # {} PROVE pc[p] = "roles"
    BY <2>1, <2>4 DEF Whole, Calling, Underway
  <2>5. permits[p] > 0 \/ Calling(p) # {}
    <3>1. CASE Calling(p) = {}
      <4>1. Cardinality(Calling(p)) = 0
        BY <3>1, FS_EmptySet
      <4> QED
        BY <2>1, <4>1 DEF Counted
    <3> QED
      BY <3>1
  <2> QED
    BY <2>3, <2>4, <2>5
<1> QED
  BY <1>1, Inductive, PTL

=============================================================================
