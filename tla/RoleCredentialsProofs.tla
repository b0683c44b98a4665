------------------------- MODULE RoleCredentialsProofs -------------------------
(***************************************************************************)
(* Theorems about RoleCredentials, for any processes, sessions and number  *)
(* of tokens.                                                              *)
(***************************************************************************)
EXTENDS RoleCredentials, TLAPS

USE GrantAssumption, SessionAssumption

LEMMA GoType ==
  ASSUME NEW p \in Procs, NEW at \in PC, TypeOK, Go(p, at)
  PROVE  /\ pc' \in [Procs -> PC] /\ pc'[p] = at
         /\ \A q \in Procs \ {p} : pc'[q] = pc[q]
BY DEF TypeOK, Go

LEMMA EndType ==
  ASSUME NEW p \in Procs, TypeOK, End(p)
  PROVE  /\ pc' \in [Procs -> PC] /\ pc'[p] = "idle"
         /\ \A q \in Procs \ {p} : /\ pc'[q] = pc[q] /\ session'[q] = session[q]
                                   /\ left'[q] = left[q] /\ quiet'[q] = quiet[q]
                                   /\ todo'[q] = todo[q]
         /\ session' \in [Procs -> Sessions \cup {Nobody}]
         /\ held' \in [Procs -> 0 .. issued]
         /\ left' \in [Procs -> SUBSET Sessions] /\ left'[p] = {}
         /\ todo' \in [Procs -> SUBSET Sessions]
         /\ quiet' \in [Procs -> SUBSET Sessions] /\ quiet'[p] = {}
BY GoType DEF TypeOK, End, Go, Forget, PC

LEMMA GrantType ==
  ASSUME TypeOK, NEW s \in Sessions, Grant(s)
  PROVE  /\ issued' = issued + 1 /\ issued' \in Nat
         /\ token' \in [Sessions -> 0 .. issued']
         /\ \A r \in Sessions \ {s} : token'[r] = token[r]
         /\ live' \subseteq 1 .. issued'
         /\ 0 .. issued \subseteq 0 .. issued'
BY DEF TypeOK, Grant

LEMMA DeletedType ==
  ASSUME TypeOK, NEW s \in Sessions
  PROVE  /\ Deleted(token, s) \in [Sessions -> 0 .. issued]
         /\ \A r \in Sessions : Deleted(token, s)[r] = IF r = s THEN 0 ELSE token[r]
<1>1. token \in [Sessions -> 0 .. issued] /\ 0 \in 0 .. issued
  BY DEF TypeOK
<1> QED
  BY <1>1 DEF Deleted

\* Every variable keeps its type, a call that acts for a session has one, and
\* only a sign-out has sessions left to sign out.
THEOREM Typed == Spec => []TypeOK
<1>1. Init => TypeOK
  <2> SUFFICES ASSUME Init PROVE TypeOK
    OBVIOUS
  <2>1. /\ cache \in [Sessions -> Entry] /\ token \in [Sessions -> 0 .. issued]
        /\ live \subseteq 1 .. issued
    BY DEF Init, Entry
  <2>2. pc \in [Procs -> PC] /\ \A p \in Procs : pc[p] = "idle"
    BY DEF Init, PC
  <2> QED
    BY <2>1, <2>2 DEF Init, TypeOK, Fetching, Signing
<1>2. TypeOK /\ [Next]_vars => TypeOK'
  <2> SUFFICES ASSUME TypeOK, [Next]_vars PROVE TypeOK'
    OBVIOUS
  <2> USE DEF service, history
  <2>1. ASSUME NEW p \in Procs, Quit(p), UNCHANGED service,
               cache' \in [Sessions -> Entry]
        PROVE  TypeOK'
    BY <2>1, EndType DEF Quit, TypeOK, Fetching, Signing
  <2>2. ASSUME NEW p \in Procs,
               LoginRequired(p) \/ FetchFails(p) \/ StoreFails(p) \/ LogoutFails(p)
                 \/ Die(p)
        PROVE  TypeOK'
    BY <2>1, <2>2 DEF LoginRequired, FetchFails, StoreFails, LogoutFails, Die, TypeOK
  <2>3. ASSUME NEW p \in Procs, StoreBreaks(p) PROVE TypeOK'
    BY <2>1, <2>3 DEF StoreBreaks, TypeOK, Entry
  <2>4. ASSUME NEW p \in Procs, Store(p) PROVE TypeOK'
    <3>1. cache' \in [Sessions -> Entry]
      BY <2>4 DEF Store, TypeOK, Entry
    <3>2. session[p] \in Sessions
      BY <2>4 DEF Store, TypeOK, Fetching
    <3>3. since' \in [Procs -> SUBSET Sessions]
      BY <2>4, <3>2 DEF Store, TypeOK
    <3> QED
      BY <2>4, <3>1, <3>3, EndType DEF Store, TypeOK, Fetching, Signing
  <2>5. ASSUME NEW p \in Procs, EndSweep(p) PROVE TypeOK'
    BY <2>5, EndType DEF EndSweep, TypeOK, Fetching, Signing
  <2>6. ASSUME NEW p \in Procs, Credentials(p) PROVE TypeOK'
    <3>1. PICK s \in Sessions : session' = [session EXCEPT ![p] = s]
      BY <2>6 DEF Credentials
    <3>2. pc[p] = "idle" /\ Go(p, "token") /\ left[p] = {}
      BY <2>6 DEF Credentials, TypeOK, Signing
    <3>3. UNCHANGED <<service, cache, held, left, todo, history>>
      BY <2>6 DEF Credentials
    <3> QED
      BY <3>1, <3>2, <3>3, GoType DEF TypeOK, PC, Fetching, Signing
  <2>7. ASSUME NEW p \in Procs, UseToken(p) PROVE TypeOK'
    <3>1. session[p] \in Sessions
      BY <2>7 DEF UseToken, TypeOK
    <3>2. /\ issued' \in Nat /\ 0 .. issued \subseteq 0 .. issued'
          /\ token' \in [Sessions -> 0 .. issued'] /\ live' \subseteq 1 .. issued'
      BY <2>7, <3>1, GrantType DEF UseToken, TypeOK
    <3>3. held' \in [Procs -> 0 .. issued']
      BY <2>7, <3>1, <3>2 DEF UseToken, TypeOK
    <3> QED
      BY <2>7, <3>1, <3>2, <3>3, GoType
         DEF UseToken, TypeOK, PC, Fetching, Signing
  <2>8. ASSUME NEW p \in Procs, GetRoleCredentials(p) PROVE TypeOK'
    BY <2>8, GoType DEF GetRoleCredentials, TypeOK, PC, Fetching, Signing
  <2>9. ASSUME NEW p \in Procs, Logout(p) PROVE TypeOK'
    <3>1. Go(p, "sessions") /\ left' \in [Procs -> SUBSET Sessions]
      BY <2>9 DEF Logout, TypeOK
    <3>2. \A q \in Procs \ {p} : left'[q] = left[q]
      BY <2>9 DEF Logout, TypeOK
    <3>3. UNCHANGED <<service, cache, session, held, todo, history>>
      BY <2>9 DEF Logout
    <3> QED
      BY <3>1, <3>2, <3>3, GoType DEF TypeOK, PC, Fetching, Signing
  <2>10. ASSUME NEW p \in Procs, LogoutNext(p) PROVE TypeOK'
    <3>1. PICK s \in left[p] : /\ session' = [session EXCEPT ![p] = s]
                              /\ left' = [left EXCEPT ![p] = @ \ {s}]
                              /\ quiet' = [quiet EXCEPT ![p] = @ \cup {s}]
      BY <2>10 DEF LogoutNext
    <3>2. s \in Sessions
      BY DEF TypeOK
    <3>3. Go(p, "revoke") /\ UNCHANGED <<service, cache, held, todo, since, missed, out>>
      BY <2>10 DEF LogoutNext
    <3>4. /\ left' \in [Procs -> SUBSET Sessions]
          /\ quiet' \in [Procs -> SUBSET Sessions]
          /\ session' \in [Procs -> Sessions \cup {Nobody}] /\ session'[p] = s
          /\ \A q \in Procs \ {p} : left'[q] = left[q] /\ session'[q] = session[q]
      BY <3>1, <3>2 DEF TypeOK
    <3> QED
      BY <3>2, <3>3, <3>4, GoType DEF TypeOK, PC, Fetching, Signing
  <2>11. ASSUME NEW p \in Procs, Revoke(p) PROVE TypeOK'
    BY <2>11, GoType DEF Revoke, TypeOK, PC, Fetching, Signing
  <2>12. ASSUME NEW p \in Procs, Delete(p) PROVE TypeOK'
    <3>1. Go(p, "sessions") /\ UNCHANGED <<live, issued, cache, held, left, todo, history>>
      BY <2>12 DEF Delete
    <3>2. session[p] \in Sessions /\ token' \in [Sessions -> 0 .. issued]
      BY <2>12, DeletedType DEF Delete, TypeOK, Signing
    <3>3. session' = [session EXCEPT ![p] = Nobody]
      BY <2>12 DEF Delete
    <3>4. /\ session' \in [Procs -> Sessions \cup {Nobody}]
          /\ \A q \in Procs \ {p} : session'[q] = session[q]
      BY <3>3 DEF TypeOK
    <3> QED
      BY <3>1, <3>2, <3>4, GoType DEF TypeOK, PC, Fetching, Signing
  <2>13. ASSUME NEW p \in Procs, StartSweep(p) PROVE TypeOK'
    BY <2>13, GoType DEF StartSweep, Listed, TypeOK, PC, Fetching, Signing
  <2>14. ASSUME NEW p \in Procs, SweepOne(p) PROVE TypeOK'
    BY <2>14 DEF SweepOne, Swept, Skipped, TypeOK, Entry
  <2>15. CASE SignIn
    <3>1. PICK s \in Sessions :
            /\ Grant(s)
            /\ quiet' = [p \in Procs |-> quiet[p] \ {s}]
            /\ out' = out \ {s}
            /\ UNCHANGED <<cache, pc, session, held, left, todo, since, missed>>
      BY <2>15 DEF SignIn
    <3>2. held \in [Procs -> 0 .. issued']
      BY <3>1, GrantType DEF TypeOK
    <3> QED
      BY <3>1, <3>2, GrantType DEF TypeOK
  <2>16. CASE Age
    BY <2>16 DEF Age, TypeOK, Entry
  <2>17. CASE UNCHANGED vars
    BY <2>17 DEF vars, TypeOK
  <2> QED
    BY <2>2, <2>3, <2>4, <2>5, <2>6, <2>7, <2>8, <2>9, <2>10, <2>11, <2>12,
       <2>13, <2>14, <2>15, <2>16, <2>17 DEF Next, Step
<1> QED
  BY <1>1, <1>2, PTL DEF Spec

-----------------------------------------------------------------------------
(***************************************************************************)
(* The sign-out                                                            *)
(***************************************************************************)
Gone(s) == token[s] = 0

\* What a sign-out has achieved so far for a session that nobody signed in to
\* meanwhile, and whose calls were over when its sweep began.
QuietInv ==
  \A p \in Procs : \A s \in quiet[p] :
    /\ pc[p] \in {"sessions", "sweep"} \cup Signing
    /\ Gone(s) \/ (pc[p] \in Signing /\ session[p] = s)
    /\ pc[p] = "sweep" => ~UnderWay(s) /\ (Stray(s) => s \in todo[p])

Inv == TypeOK /\ QuietInv /\ SignedOutMeansOut

\* No step but a grant gives a session a token, no grant leaves a session among
\* those that are signed out, and none but a call under way caches credentials.
LEMMA NoReturn ==
  ASSUME Inv, [Next]_vars, NEW s \in Sessions, Gone(s)
  PROVE  /\ Gone(s)' \/ (s \notin out' /\ \A p \in Procs : s \notin quiet'[p])
         /\ ~UnderWay(s) => ~UnderWay(s)' /\ (Stray(s)' => Stray(s))
<1> USE DEF Inv, service, history, Gone
<1>0. ASSUME NEW p \in Procs, Quit(p), UNCHANGED token,
             cache' = cache \/ cache' = [cache EXCEPT ![session[p]] = "unreadable"]
      PROVE  /\ Gone(s)'
             /\ ~UnderWay(s) => ~UnderWay(s)' /\ (Stray(s)' => Stray(s))
  <2>1. \A q \in Procs : pc'[q] \in Fetching => pc[q] \in Fetching /\ session'[q] = session[q]
    BY <1>0, EndType DEF Quit, Fetching
  <2> QED
    BY <1>0, <2>1 DEF Quit, UnderWay, Stray, IsEntry, TypeOK
<1>1. ASSUME NEW p \in Procs,
             LoginRequired(p) \/ FetchFails(p) \/ StoreFails(p) \/ LogoutFails(p)
               \/ Die(p) \/ StoreBreaks(p)
      PROVE  /\ Gone(s)'
             /\ ~UnderWay(s) => ~UnderWay(s)' /\ (Stray(s)' => Stray(s))
  BY <1>0, <1>1 DEF LoginRequired, FetchFails, StoreFails, LogoutFails, Die, StoreBreaks
<1>2. ASSUME NEW p \in Procs, Store(p) \/ EndSweep(p)
      PROVE  /\ Gone(s)'
             /\ ~UnderWay(s) => ~UnderWay(s)' /\ (Stray(s)' => Stray(s))
  <2>1. \A q \in Procs : pc'[q] \in Fetching => pc[q] \in Fetching /\ session'[q] = session[q]
    BY <1>2, EndType DEF Store, EndSweep, Fetching
  <2>2. ~UnderWay(s) => ~UnderWay(s)'
    BY <2>1 DEF UnderWay
  <2>3. ~UnderWay(s) => (Stray(s)' => Stray(s))
    BY <1>2 DEF Store, EndSweep, UnderWay, Fetching, Stray, IsEntry, TypeOK
  <2>4. Gone(s)'
    BY <1>2 DEF Store, EndSweep
  <2> QED
    BY <2>2, <2>3, <2>4
<1>3. ASSUME NEW p \in Procs, UseToken(p)
      PROVE  /\ Gone(s)'
             /\ ~UnderWay(s) => ~UnderWay(s)' /\ (Stray(s)' => Stray(s))
  <2>1. session[p] # s /\ session[p] \in Sessions
    BY <1>3 DEF UseToken, TypeOK
  <2>2. token'[s] = token[s]
    BY <1>3, <2>1, GrantType DEF UseToken
  <2>3. \A q \in Procs : pc'[q] \in Fetching /\ session'[q] = s
                           => pc[q] \in Fetching /\ session[q] = s
    BY <1>3, <2>1, GoType DEF UseToken, PC, Fetching
  <2> QED
    BY <1>3, <2>2, <2>3 DEF UseToken, UnderWay, Stray, IsEntry
<1>4. ASSUME NEW p \in Procs,
             Credentials(p) \/ GetRoleCredentials(p) \/ Logout(p) \/ LogoutNext(p)
               \/ Revoke(p) \/ Delete(p) \/ StartSweep(p) \/ SweepOne(p)
      PROVE  /\ Gone(s)'
             /\ ~UnderWay(s) => ~UnderWay(s)' /\ (Stray(s)' => Stray(s))
  <2>1. Gone(s)'
    <3>1. CASE Delete(p)
      BY <3>1, DeletedType DEF Delete, TypeOK, Signing
    <3> QED
      BY <1>4, <3>1 DEF Credentials, GetRoleCredentials, Logout, LogoutNext, Revoke,
                        StartSweep, SweepOne
  <2>2. \A q \in Procs \ {p} : pc'[q] = pc[q] /\ session'[q] = session[q]
    <3>1. CASE Credentials(p) \/ LogoutNext(p) \/ Delete(p)
      <4>1. PICK r : session' = [session EXCEPT ![p] = r]
        BY <3>1 DEF Credentials, LogoutNext, Delete
      <4>2. PICK at \in PC : Go(p, at)
        BY <3>1 DEF Credentials, LogoutNext, Delete, PC, Signing
      <4> QED
        BY <4>1, <4>2, GoType DEF TypeOK
    <3>2. CASE SweepOne(p)
      BY <3>2 DEF SweepOne
    <3>3. CASE GetRoleCredentials(p) \/ Logout(p) \/ Revoke(p) \/ StartSweep(p)
      BY <3>3, GoType DEF GetRoleCredentials, Logout, Revoke, StartSweep, PC, Fetching, Signing
    <3> QED
      BY <1>4, <3>1, <3>2, <3>3
  <2>3. pc'[p] \in Fetching => pc[p] \in Fetching /\ session'[p] = session[p]
    <3>1. CASE GetRoleCredentials(p)
      BY <3>1 DEF GetRoleCredentials, Fetching
    <3>2. CASE SweepOne(p)
      BY <3>2 DEF SweepOne
    <3>3. CASE Credentials(p) \/ Logout(p) \/ LogoutNext(p) \/ Revoke(p) \/ Delete(p)
                 \/ StartSweep(p)
      <4>1. PICK at \in {"token", "sessions", "revoke", "delete", "sweep"} : Go(p, at)
        BY <3>3 DEF Credentials, Logout, LogoutNext, Revoke, Delete, StartSweep
      <4> QED
        BY <4>1 DEF Go, TypeOK, Fetching
    <3> QED
      BY <1>4, <3>1, <3>2, <3>3
  <2>4. UnderWay(s)' => UnderWay(s)
    BY <2>2, <2>3 DEF UnderWay
  <2>5. Stray(s)' => Stray(s)
    <3>1. CASE SweepOne(p)
      BY <3>1 DEF SweepOne, Swept, Skipped, Stray, IsEntry, TypeOK
    <3> QED
      BY <1>4, <3>1 DEF Credentials, GetRoleCredentials, Logout, LogoutNext, Revoke,
                        Delete, StartSweep, Stray, IsEntry
  <2> QED
    BY <2>1, <2>4, <2>5
<1>5. CASE SignIn
  <2>1. PICK r \in Sessions :
          /\ Grant(r)
          /\ quiet' = [p \in Procs |-> quiet[p] \ {r}]
          /\ out' = out \ {r}
          /\ UNCHANGED <<cache, pc, session, held, left, todo, since, missed>>
    BY <1>5 DEF SignIn
  <2>2. r # s => token'[s] = token[s]
    BY <2>1, GrantType
  <2> QED
    BY <2>1, <2>2 DEF UnderWay, Stray, IsEntry
<1>6. CASE Age
  BY <1>6 DEF Age, UnderWay, Stray, IsEntry, TypeOK
<1>7. CASE UNCHANGED vars
  BY <1>7 DEF vars, UnderWay, Stray, IsEntry
<1> QED
  BY <1>1, <1>2, <1>3, <1>4, <1>5, <1>6, <1>7 DEF Next, Step

\* A process's step leaves every other process where it is.
LEMMA Others ==
  ASSUME TypeOK, NEW p \in Procs, Step(p)
  PROVE  \A q \in Procs \ {p} : /\ pc'[q] = pc[q] /\ session'[q] = session[q]
                                /\ todo'[q] = todo[q] /\ quiet'[q] = quiet[q]
<1> USE DEF history
<1>1. CASE LoginRequired(p) \/ FetchFails(p) \/ StoreFails(p) \/ LogoutFails(p)
             \/ Die(p) \/ StoreBreaks(p)
  BY <1>1, EndType
     DEF LoginRequired, FetchFails, StoreFails, LogoutFails, Die, StoreBreaks, Quit
<1>2. CASE Store(p) \/ EndSweep(p)
  BY <1>2, EndType DEF Store, EndSweep
<1>3. CASE Credentials(p)
  BY <1>3 DEF Credentials, Go, TypeOK
<1>4. CASE LogoutNext(p)
  BY <1>4 DEF LogoutNext, Go, TypeOK
<1>5. CASE Delete(p)
  BY <1>5 DEF Delete, Go, TypeOK
<1>6. CASE StartSweep(p)
  BY <1>6 DEF StartSweep, Go, TypeOK
<1>7. CASE SweepOne(p)
  BY <1>7 DEF SweepOne, TypeOK
<1>8. CASE UseToken(p) \/ GetRoleCredentials(p) \/ Logout(p) \/ Revoke(p)
  BY <1>8 DEF UseToken, GetRoleCredentials, Logout, Revoke, Go, TypeOK
<1> QED
  BY <1>1, <1>2, <1>3, <1>4, <1>5, <1>6, <1>7, <1>8 DEF Step

LEMMA QuietKept ==
  ASSUME Inv, [Next]_vars
  PROVE  QuietInv'
<1> USE DEF service, history
<1> SUFFICES ASSUME NEW q \in Procs, NEW s \in quiet'[q]
             PROVE  /\ pc'[q] \in {"sessions", "sweep"} \cup Signing
                    /\ Gone(s)' \/ (pc'[q] \in Signing /\ session'[q] = s)
                    /\ pc'[q] = "sweep" =>
                         ~UnderWay(s)' /\ (Stray(s)' => s \in todo'[q])
  BY DEF QuietInv
<1>1. ASSUME s \in quiet[q], s \in Sessions,
             pc'[q] = pc[q], session'[q] = session[q], todo'[q] = todo[q]
      PROVE  /\ pc'[q] \in {"sessions", "sweep"} \cup Signing
             /\ Gone(s)' \/ (pc'[q] \in Signing /\ session'[q] = s)
             /\ pc'[q] = "sweep" =>
                  ~UnderWay(s)' /\ (Stray(s)' => s \in todo'[q])
  <2>1. CASE Gone(s)
    BY <1>1, <2>1, NoReturn DEF Inv, QuietInv
  <2>2. CASE ~Gone(s)
    BY <1>1, <2>2 DEF Inv, QuietInv, Signing
  <2> QED
    BY <2>1, <2>2
<1>2. ASSUME NEW p \in Procs \ {q}, Step(p)
      PROVE  s \in quiet[q] /\ pc'[q] = pc[q] /\ session'[q] = session[q]
               /\ todo'[q] = todo[q]
  BY <1>2, Others DEF Inv
<1>3. CASE Step(q)
  <2> USE DEF Inv
  <2>1. pc[q] \notin {"sessions", "sweep"} \cup Signing => quiet[q] = {}
    BY DEF QuietInv
  <2>2. CASE End(q) \/ Quit(q)
    BY <2>2, EndType DEF Quit
  <2>3. CASE Credentials(q) \/ UseToken(q) \/ GetRoleCredentials(q) \/ Logout(q)
    BY <2>1, <2>3
       DEF Credentials, UseToken, GetRoleCredentials, Logout, Fetching, Signing
  <2>4. CASE LogoutNext(q)
    <3>1. PICK r \in left[q] : /\ session' = [session EXCEPT ![q] = r]
                              /\ quiet' = [quiet EXCEPT ![q] = @ \cup {r}]
      BY <2>4 DEF LogoutNext
    <3>2. pc[q] = "sessions" /\ pc'[q] = "revoke" /\ UNCHANGED token
      BY <2>4 DEF LogoutNext, Go, TypeOK
    <3>3. session'[q] = r /\ s \in quiet[q] \cup {r}
      BY <3>1 DEF TypeOK
    <3> QED
      BY <3>2, <3>3 DEF QuietInv, Signing, Gone
  <2>5. CASE Revoke(q)
    BY <2>5 DEF Revoke, Go, TypeOK, QuietInv, Signing, Gone
  <2>6. CASE Delete(q)
    <3>1. pc[q] = "delete" /\ pc'[q] = "sessions" /\ s \in quiet[q]
      BY <2>6 DEF Delete, Go, TypeOK
    <3>2. s \in Sessions /\ session[q] \in Sessions
      BY <3>1 DEF TypeOK, Signing
    <3>3. token'[s] = IF s = session[q] THEN 0 ELSE token[s]
      BY <2>6, <3>2, DeletedType DEF Delete
    <3> QED
      BY <3>1, <3>3 DEF QuietInv, Gone
  <2>7. CASE StartSweep(q)
    <3>1. pc[q] = "sessions" /\ pc'[q] = "sweep" /\ todo'[q] = Listed(q)
            /\ s \in quiet[q] /\ ~UnderWay(s)
      BY <2>7 DEF StartSweep, Go, TypeOK
    <3>2. s \in Sessions /\ Gone(s)
      BY <3>1 DEF QuietInv, TypeOK, Signing
    <3>3. Stray(s) => s \in Listed(q)
      BY <3>2 DEF Stray, IsEntry, Listed
    <3> QED
      BY <3>1, <3>2, <3>3, NoReturn
  <2>8. CASE SweepOne(q)
    <3>1. PICK f \in todo[q] :
            todo' = [todo EXCEPT ![q] = @ \ {f}] /\ (Swept(f) \/ Skipped(f))
      BY <2>8 DEF SweepOne
    <3>2. pc[q] = "sweep" /\ pc'[q] = "sweep" /\ s \in quiet[q]
      BY <2>8 DEF SweepOne
    <3>3. s \in Sessions /\ Gone(s) /\ ~UnderWay(s) /\ (Stray(s) => s \in todo[q])
      BY <3>2 DEF QuietInv, TypeOK, Signing
    <3>4. Gone(s)' /\ ~UnderWay(s)' /\ (Stray(s)' => Stray(s))
      BY <3>2, <3>3, NoReturn, <2>8 DEF SweepOne
    <3>5. ~Stray(f)'
      BY <3>1 DEF Swept, Skipped, Stray, IsEntry, TypeOK
    <3> QED
      BY <3>1, <3>2, <3>3, <3>4, <3>5 DEF TypeOK
  <2> QED
    BY <1>3, <2>2, <2>3, <2>4, <2>5, <2>6, <2>7, <2>8
       DEF Step, LoginRequired, FetchFails, Store, StoreFails, StoreBreaks, LogoutFails,
           EndSweep, Die
<1>4. CASE SignIn
  <2>1. s \in quiet[q]
    BY <1>4 DEF SignIn, Inv, TypeOK
  <2> QED
    BY <1>1, <1>4, <2>1 DEF SignIn, Inv, TypeOK
<1>5. CASE Age \/ UNCHANGED vars
  BY <1>1, <1>5 DEF Age, vars, Inv, TypeOK
<1> QED
  BY <1>1, <1>2, <1>3, <1>4, <1>5 DEF Next, Inv, TypeOK

LEMMA OutKept ==
  ASSUME Inv, [Next]_vars
  PROVE  SignedOutMeansOut'
<1> USE DEF service, history
<1> SUFFICES ASSUME NEW s \in out'
             PROVE  token'[s] = 0 /\ ~Stray(s)' /\ ~UnderWay(s)'
  BY DEF SignedOutMeansOut
<1>1. s \in Sessions /\ Gone(s) /\ ~Stray(s) /\ ~UnderWay(s)
  <2>1. CASE s \in out
    BY <2>1 DEF Inv, SignedOutMeansOut, Gone, TypeOK
  <2>2. CASE s \notin out
    <3>1. PICK p \in Procs : EndSweep(p)
      BY <2>2
         DEF Next, vars, SignIn, Age, Step, Credentials, UseToken, LoginRequired,
             GetRoleCredentials, FetchFails, Store, StoreFails, StoreBreaks, Logout,
             LogoutNext, Revoke, Delete, LogoutFails, StartSweep, SweepOne, Die, Quit
    <3>2. pc[p] = "sweep" /\ todo[p] = {} /\ s \in quiet[p]
      BY <2>2, <3>1 DEF EndSweep
    <3> QED
      BY <3>2 DEF Inv, QuietInv, TypeOK, Signing
  <2> QED
    BY <2>1, <2>2
<1> QED
  BY <1>1, NoReturn DEF Gone

\* Once `gac logout` is over there is no token, no call that could bring
\* credentials back, and none cached but in a file a sweep could not read, for a
\* session whose calls were over when the sweep began, however many processes
\* and sessions there are.
THEOREM SignOutHolds == Spec => []SignedOutMeansOut
<1>1. Init => QuietInv /\ SignedOutMeansOut
  BY DEF Init, QuietInv, SignedOutMeansOut
<1>2. Inv /\ [Next]_vars => (QuietInv /\ SignedOutMeansOut)'
  BY QuietKept, OutKept
<1> QED
  BY Typed, <1>1, <1>2, PTL DEF Spec, Inv

-----------------------------------------------------------------------------
(***************************************************************************)
(* The sweep                                                               *)
(***************************************************************************)
LEMMA SweepKept ==
  ASSUME TypeOK, SweepMissesNothing, [Next]_vars
  PROVE  SweepMissesNothing'
<1> USE DEF service, history
<1> SUFFICES ASSUME NEW p \in Procs, pc'[p] = "sweep", NEW s \in Sessions, Stray(s)'
             PROVE  s \in todo'[p] \cup since'[p]
  BY DEF SweepMissesNothing
<1>1. ASSUME NEW q \in Procs \ {p}, Step(q)
      PROVE  s \in todo'[p] \cup since'[p]
  <2>1. pc[p] = "sweep" /\ todo'[p] = todo[p]
    BY <1>1, Others
  <2>2. Stray(s) => s \in todo[p] \cup since[p]
    BY <2>1 DEF SweepMissesNothing
  <2>3. CASE Store(q)
    <3>1. since'[p] = since[p] \cup {session[q]}
      BY <2>1, <2>3 DEF Store
    <3>2. Stray(s) \/ s = session[q]
      BY <2>3 DEF Store, Stray, IsEntry, TypeOK
    <3> QED
      BY <2>1, <2>2, <3>1, <3>2
  <2>4. CASE ~Store(q)
    <3>1. since'[p] = since[p]
      BY <1>1, <2>4
         DEF Step, Credentials, UseToken, LoginRequired, GetRoleCredentials, FetchFails,
             StoreFails, StoreBreaks, Logout, LogoutNext, Revoke, Delete, LogoutFails,
             StartSweep, SweepOne, EndSweep, Die, Quit, TypeOK
    <3>2. Stray(s)
      BY <1>1, <2>4
         DEF Step, Credentials, UseToken, LoginRequired, GetRoleCredentials, FetchFails,
             StoreFails, StoreBreaks, Logout, LogoutNext, Revoke, Delete, LogoutFails,
             StartSweep, SweepOne, Swept, Skipped, EndSweep, Die, Quit, Stray, IsEntry,
             TypeOK
    <3> QED
      BY <2>1, <2>2, <3>1, <3>2
  <2> QED
    BY <2>3, <2>4
<1>2. CASE Step(p)
  <2>1. CASE StartSweep(p)
    BY <2>1 DEF StartSweep, Listed, Stray, IsEntry, TypeOK
  <2>2. CASE SweepOne(p)
    <3>1. PICK f \in todo[p] :
            todo' = [todo EXCEPT ![p] = @ \ {f}] /\ (Swept(f) \/ Skipped(f))
      BY <2>2 DEF SweepOne
    <3>2. pc[p] = "sweep" /\ since' = since
      BY <2>2 DEF SweepOne
    <3>3. Stray(s) /\ s # f
      BY <3>1 DEF Swept, Skipped, Stray, IsEntry, TypeOK
    <3> QED
      BY <3>1, <3>2, <3>3 DEF SweepMissesNothing, TypeOK
  <2>3. CASE ~(StartSweep(p) \/ SweepOne(p))
    <3>1. CASE End(p) \/ Quit(p)
      BY <3>1, EndType DEF Quit
    <3>2. CASE ~(End(p) \/ Quit(p))
      <4>1. PICK at \in {"token", "sessions"} \cup Fetching \cup Signing : Go(p, at)
        BY <1>2, <2>3, <3>2
           DEF Step, Credentials, UseToken, LoginRequired, GetRoleCredentials, FetchFails,
               Store, StoreFails, StoreBreaks, Logout, LogoutNext, Revoke, Delete,
               LogoutFails, EndSweep, Die, Fetching, Signing
      <4> QED
        BY <4>1 DEF Go, TypeOK, Fetching, Signing
    <3> QED
      BY <3>1, <3>2
  <2> QED
    BY <2>1, <2>2, <2>3
<1>3. CASE SignIn \/ Age \/ UNCHANGED vars
  <2>1. pc' = pc /\ todo' = todo /\ since' = since
    BY <1>3 DEF SignIn, Age, vars
  <2>2. Stray(s)
    BY <1>3 DEF SignIn, Age, vars, Stray, IsEntry, TypeOK
  <2> QED
    BY <2>1, <2>2 DEF SweepMissesNothing
<1> QED
  BY <1>1, <1>2, <1>3 DEF Next

\* What a sweep is yet to look at includes every entry that is not newer than
\* the sweep and that it could read, whatever is stored, deleted and swept
\* beside it.
THEOREM SweepIsWhole == Spec => []SweepMissesNothing
<1>1. Init => SweepMissesNothing
  BY DEF Init, SweepMissesNothing, Stray, IsEntry
<1> QED
  BY Typed, <1>1, SweepKept, PTL DEF Spec

=============================================================================
