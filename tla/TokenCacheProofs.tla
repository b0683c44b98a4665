--------------------------- MODULE TokenCacheProofs ---------------------------
(***************************************************************************)
(* Theorems about TokenCache, for every set of processes, every bound and  *)
(* every set of faults (the later ones: without the AWS CLI's writes).     *)
(***************************************************************************)
EXTENDS TokenCache, TLAPS

USE ProcAssumption, TimeAssumption, FileAssumption

\* What a process may rely on of the token it read once it has decided to act
\* on it: it is a token, and one that can be refreshed if it is to be.
HeldOK ==
  \A p \in Procs :
    /\ pc[p] \in {"use_refresh", "use_granted", "logout_revoke"} => held[p] \in Granted
    /\ pc[p] \in {"use_refresh", "use_granted"} => held[p].refresh # 0

TypeInv == TypeOK /\ HeldOK

LEMMA GrantedIsToken ==
  ASSUME issued \in Nat
  PROVE  /\ Granted \subseteq CachedToken
         /\ NoToken \notin Granted /\ Unreadable \notin Granted
BY DEF Granted, CachedToken

LEMMA GrantedGrows ==
  ASSUME issued \in Nat, issued' = issued + 1
  PROVE  /\ Granted \subseteq Granted'
         /\ 1 .. issued \subseteq 1 .. issued'
BY DEF Granted

LEMMA LoginTokenGranted ==
  ASSUME issued \in Nat, issued' = issued + 1, now \in Nat,
         NEW refreshable \in BOOLEAN, NEW registration \in Registrations
  PROVE  LoginToken(issued', refreshable, registration) \in Granted'
BY DEF LoginToken, Granted

LEMMA RefreshedGranted ==
  ASSUME issued \in Nat, issued' = issued + 1, NEW t \in Granted, NEW at \in Nat,
         NEW rotates \in BOOLEAN
  PROVE  Refreshed(t, at, issued', rotates) \in Granted'
BY DEF Refreshed, Granted

\* Ending a call keeps the types, whatever the action does besides.
LEMMA FinishTyped ==
  ASSUME TypeInv, NEW p \in Procs, NEW outcome \in Results, Finish(p, outcome),
         UNCHANGED issued
  PROVE  /\ lock' \in Procs \cup {Nobody}
         /\ pc' \in [Procs -> Pc]
         /\ held' \in [Procs -> Content']
         /\ asof' \in [Procs -> Nat]
         /\ grant' \in [Procs -> Granted' \cup {NoToken}]
         /\ \A q \in Procs : grant'[q] # NoToken <=> pc'[q] \in Unsaved
         /\ result' \in Results
         /\ HeldOK'
<1> USE DEF TypeInv, TypeOK
<1>1. Granted' = Granted /\ Content' = Content
  BY DEF Granted, Content
<1>2. /\ lock' \in Procs \cup {Nobody}
      /\ pc' \in [Procs -> Pc]
      /\ held' \in [Procs -> Content]
      /\ asof' \in [Procs -> Nat]
      /\ grant' \in [Procs -> Granted \cup {NoToken}]
      /\ result' \in Results
  BY DEF Finish, Forget, Goto, Pc, Content
<1>3. \A q \in Procs : grant'[q] # NoToken <=> pc'[q] \in Unsaved
  BY DEF Finish, Forget, Goto, Unsaved
<1>4. HeldOK'
  BY <1>1 DEF HeldOK, Finish, Forget, Goto
<1> QED
  BY <1>1, <1>2, <1>3, <1>4

LEMMA ExamineTyped ==
  ASSUME TypeInv, NEW p \in Procs, NEW label \in {"use_wait", "use_refresh"},
         pc[p] \in {"idle", "use_locked"}, Examine(p, label)
  PROVE  TypeInv'
<1> USE DEF TypeInv, TypeOK
<1>0. UNCHANGED issued /\ Granted' = Granted /\ Content' = Content
  BY DEF Examine, service, Granted, Content
<1>1. ASSUME NEW outcome \in Results, Finish(p, outcome),
             UNCHANGED <<file, now, service, orphaned, foreign>>
      PROVE  TypeInv'
  BY <1>0, <1>1, FinishTyped DEF service
<1>2. CASE /\ IsToken(file) /\ ~Settled(file, now)
           /\ Goto(p, label)
           /\ held' = [held EXCEPT ![p] = file]
           /\ asof' = [asof EXCEPT ![p] = now]
           /\ UNCHANGED <<lock, result, grant>>
  <2>1. file \in Granted /\ file.refresh # 0
    BY <1>2 DEF IsToken, Settled, IsRefreshable, Content
  <2>2. TypeOK'
    BY <1>0, <1>2 DEF Examine, Goto, service, Pc, Waiting, Locked, Unsaved
  <2>3. HeldOK'
    BY <1>0, <1>2, <2>1 DEF HeldOK, Goto
  <2> QED
    BY <2>2, <2>3
<1> QED
  BY <1>1, <1>2 DEF Examine, UsableResult, Results

LEMMA OrphanTyped ==
  ASSUME TypeInv, NEW p \in Procs, Orphan(p)
  PROVE  orphaned' \subseteq spent
BY DEF TypeInv, TypeOK, Orphan

\* Actions that end a call and leave what the service knows alone.
LEMMA EndTyped ==
  ASSUME TypeInv, NEW p \in Procs, NEW outcome \in Results, Finish(p, outcome),
         UNCHANGED <<now, service, foreign>>,
         orphaned' \subseteq spent,
         file' \in Content
  PROVE  TypeInv'
<1>1. UNCHANGED <<issued, spent, revoked>> /\ Granted' = Granted /\ Content' = Content
  BY DEF service, Granted, Content
<1> QED
  BY <1>1, FinishTyped DEF TypeInv, TypeOK

\* Actions that move a call on without reading or granting anything.
LEMMA MoveTyped ==
  ASSUME TypeInv, NEW p \in Procs, NEW label \in Pc, Goto(p, label),
         label \in Unsaved <=> pc[p] \in Unsaved,
         label \notin {"use_refresh", "use_granted", "logout_revoke"},
         lock' \in Procs \cup {Nobody},
         held' \in [Procs -> Content],
         \A q \in Procs \ {p} : held'[q] = held[q],
         revoked' \subseteq 1 .. issued,
         UNCHANGED <<file, asof, grant, result, now, issued, spent, orphaned, foreign>>
  PROVE  TypeInv'
<1> USE DEF TypeInv, TypeOK
<1>1. Granted' = Granted /\ Content' = Content
  BY DEF Granted, Content
<1>2. TypeOK'
  BY <1>1 DEF Goto
<1>3. HeldOK'
  BY <1>1 DEF HeldOK, Goto
<1> QED
  BY <1>2, <1>3

LEMMA InitTyped == Init => TypeInv
<1> SUFFICES ASSUME Init PROVE TypeInv
  OBVIOUS
<1>1. TypeOK
  BY DEF Init, TypeOK, Content, Pc, Results, Unsaved
<1> QED
  BY <1>1 DEF Init, TypeInv, HeldOK

LEMMA UseStepsTyped ==
  ASSUME TypeInv, NEW p \in Procs
  PROVE  /\ UseToken(p) => TypeInv'
         /\ Recheck(p) => TypeInv'
         /\ ServeRefresh(p) => TypeInv'
         /\ RefreshFails(p) => TypeInv'
         /\ SaveRefreshed(p) => TypeInv'
<1> USE DEF TypeInv
<1>1. ASSUME UseToken(p) PROVE TypeInv'
  BY <1>1, ExamineTyped DEF UseToken
<1>2. ASSUME Recheck(p) PROVE TypeInv'
  BY <1>2, ExamineTyped DEF Recheck
<1>3. ASSUME ServeRefresh(p) PROVE TypeInv'
  <2>1. issued \in Nat /\ issued' = issued + 1
    BY <1>3 DEF ServeRefresh, TypeOK
  <2>2. held[p] \in Granted /\ held[p].refresh # 0 /\ held[p].refresh \in 1 .. issued
    BY <1>3, <2>1 DEF ServeRefresh, HeldOK, Granted
  <2>3. PICK rotates \in BOOLEAN :
          /\ spent' = IF rotates THEN spent \cup {held[p].refresh} ELSE spent
          /\ grant' = [grant EXCEPT ![p] = Refreshed(held[p], asof[p], issued', rotates)]
    BY <1>3 DEF ServeRefresh
  <2>4. Refreshed(held[p], asof[p], issued', rotates) \in Granted'
    BY <2>1, <2>2, RefreshedGranted DEF TypeOK
  <2>5. Granted \subseteq Granted' /\ Content \subseteq Content'
        /\ 1 .. issued \subseteq 1 .. issued'
    BY <2>1, GrantedGrows DEF Content
  <2>6. UNCHANGED <<file, lock, held, asof, result, now, revoked, orphaned, foreign>>
        /\ Goto(p, "use_granted") /\ pc[p] = "use_refresh"
    BY <1>3 DEF ServeRefresh
  <2>7. spent' \subseteq 1 .. issued' /\ spent \subseteq spent' /\ revoked' \subseteq 1 .. issued'
        /\ issued' \in Nat
    <3>1. spent' = spent \/ spent' = spent \cup {held[p].refresh}
      BY <2>3
    <3>2. spent \subseteq 1 .. issued /\ revoked' \subseteq 1 .. issued
      BY <2>6 DEF TypeOK
    <3>3. 1 .. issued \subseteq 1 .. issued'
      BY <2>5
    <3>4. spent' \subseteq 1 .. issued
      BY <2>2, <3>1, <3>2
    <3>5. spent' \subseteq 1 .. issued' /\ revoked' \subseteq 1 .. issued'
      BY <3>2, <3>3, <3>4, Zenon
    <3>6. spent \subseteq spent'
      BY <3>1
    <3>7. issued' \in Nat
      BY <2>1
    <3> QED
      BY <3>5, <3>6, <3>7
  <2>8. NoToken \notin Granted'
    BY <2>1 DEF Granted, CachedToken
  <2>9. grant' \in [Procs -> Granted' \cup {NoToken}]
    BY <2>3, <2>4, <2>5 DEF TypeOK
  <2>10. \A q \in Procs : grant'[q] # NoToken <=> pc'[q] \in Unsaved
    BY <2>3, <2>4, <2>6, <2>8 DEF TypeOK, Goto, Unsaved
  <2>11. pc' \in [Procs -> Pc]
    BY <2>6 DEF TypeOK, Goto, Pc, Locked
  <2>12. TypeOK'
    BY <2>5, <2>6, <2>7, <2>9, <2>10, <2>11 DEF TypeOK
  <2>13. HeldOK'
    BY <2>2, <2>5, <2>6 DEF HeldOK, Goto, TypeOK
  <2> QED
    BY <2>12, <2>13
<1>4. ASSUME RefreshFails(p) PROVE TypeInv'
  BY <1>4, EndTyped, OrphanTyped DEF RefreshFails, UsableResult, Results, TypeOK
<1>5. ASSUME SaveRefreshed(p) PROVE TypeInv'
  <2>1. grant[p] \in Granted
    BY <1>5 DEF SaveRefreshed, TypeOK, Unsaved
  <2> QED
    BY <1>5, <2>1, EndTyped DEF SaveRefreshed, Results, Content, TypeOK
<1> QED
  BY <1>1, <1>2, <1>3, <1>4, <1>5

LEMMA LoginStepsTyped ==
  ASSUME TypeInv, NEW p \in Procs
  PROVE  /\ SignIn(p) => TypeInv'
         /\ SaveLogin(p) => TypeInv'
<1> USE DEF TypeInv
<1>1. ASSUME SignIn(p) PROVE TypeInv'
  <2>1. issued \in Nat /\ issued' = issued + 1 /\ now \in Nat
    BY <1>1 DEF SignIn, TypeOK
  <2>2. PICK refreshable \in BOOLEAN, registration \in Registrations :
          grant' = [grant EXCEPT ![p] = LoginToken(issued', refreshable, registration)]
    BY <1>1 DEF SignIn
  <2>3. LoginToken(issued', refreshable, registration) \in Granted'
    BY <2>1, LoginTokenGranted
  <2>4. Granted \subseteq Granted' /\ Content \subseteq Content'
        /\ 1 .. issued \subseteq 1 .. issued'
    BY <2>1, GrantedGrows DEF Content
  <2>5. NoToken \notin Granted'
    BY <2>1 DEF Granted, CachedToken
  <2>6. /\ UNCHANGED <<file, lock, asof, result, now, spent, revoked, orphaned, foreign>>
        /\ Goto(p, "login_wait") /\ held' = [held EXCEPT ![p] = NoToken]
    BY <1>1 DEF SignIn
  <2>7. grant' \in [Procs -> Granted' \cup {NoToken}]
    BY <2>2, <2>3, <2>4 DEF TypeOK
  <2>8. \A q \in Procs : grant'[q] # NoToken <=> pc'[q] \in Unsaved
    BY <2>2, <2>3, <2>5, <2>6 DEF TypeOK, Goto, Unsaved
  <2>9. pc' \in [Procs -> Pc] /\ held' \in [Procs -> Content']
    BY <2>4, <2>6 DEF TypeOK, Goto, Pc, Waiting, Content
  <2>10. TypeOK'
    BY <2>1, <2>4, <2>6, <2>7, <2>8, <2>9 DEF TypeOK
  <2>11. HeldOK'
    BY <2>4, <2>6 DEF HeldOK, Goto, TypeOK
  <2> QED
    BY <2>10, <2>11
<1>2. ASSUME SaveLogin(p) PROVE TypeInv'
  <2>1. grant[p] \in Granted
    BY <1>2 DEF SaveLogin, TypeOK, Unsaved
  <2> QED
    BY <1>2, <2>1, EndTyped DEF SaveLogin, Results, Content, TypeOK
<1> QED
  BY <1>1, <1>2

LEMMA LockStepsTyped ==
  ASSUME TypeInv, NEW p \in Procs
  PROVE  /\ Acquire(p) => TypeInv'
         /\ LockTimeout(p) => TypeInv'
<1>1. ASSUME Acquire(p) PROVE TypeInv'
  <2>1. /\ LockedLabel[pc[p]] \in {"use_locked", "login_save", "logout_locked"}
        /\ LockedLabel[pc[p]] \in Unsaved <=> pc[p] \in Unsaved
    BY <1>1 DEF Acquire, LockedLabel, Waiting, Unsaved
  <2>2. LockedLabel[pc[p]] \in Pc
    BY <2>1 DEF Pc, Locked
  <2>3. /\ Goto(p, LockedLabel[pc[p]])
        /\ lock' = p
        /\ UNCHANGED <<file, held, asof, grant, result, now, issued, spent, revoked, orphaned,
                       foreign>>
    BY <1>1 DEF Acquire, service
  <2> QED
    BY <2>1, <2>2, <2>3, MoveTyped DEF TypeInv, TypeOK
<1>2. ASSUME LockTimeout(p) PROVE TypeInv'
  BY <1>2, EndTyped DEF LockTimeout, Results, TypeInv, TypeOK
<1> QED
  BY <1>1, <1>2

LEMMA LogoutStepsTyped ==
  ASSUME TypeInv, NEW p \in Procs
  PROVE  /\ Logout(p) => TypeInv'
         /\ LogoutRead(p) => TypeInv'
         /\ Revoke(p) => TypeInv'
         /\ DeleteToken(p) => TypeInv'
<1> USE DEF TypeInv
<1>1. ASSUME Logout(p) PROVE TypeInv'
  <2>1. "logout_wait" \in Pc /\ "logout_wait" \notin Unsaved /\ "idle" \notin Unsaved
    BY DEF Pc, Waiting, Unsaved
  <2>2. held' \in [Procs -> Content]
    BY <1>1 DEF Logout, TypeOK, Content
  <2> QED
    BY <1>1, <2>1, <2>2, MoveTyped DEF Logout, TypeOK, service
<1>2. ASSUME LogoutRead(p) PROVE TypeInv'
  <2>1. /\ "logout_delete" \in Pc /\ "logout_delete" \notin Unsaved
        /\ "logout_revoke" \in Pc /\ "logout_revoke" \notin Unsaved
        /\ "logout_locked" \notin Unsaved
    BY DEF Pc, Locked, Unsaved
  <2>2. CASE Goto(p, "logout_delete") /\ UNCHANGED held
    BY <1>2, <2>1, <2>2, MoveTyped DEF LogoutRead, TypeOK, service
  <2>3. CASE /\ IsToken(file)
             /\ held' = [held EXCEPT ![p] = file]
             /\ Goto(p, "logout_revoke")
    <3>1. UNCHANGED <<file, lock, asof, grant, result, now, issued, spent, revoked, orphaned,
                     foreign>> /\ pc[p] = "logout_locked"
      BY <1>2 DEF LogoutRead, service
    <3>2. Granted' = Granted /\ Content' = Content
      BY <3>1 DEF Granted, Content
    <3>3. TypeOK'
      BY <2>1, <2>3, <3>1, <3>2 DEF TypeOK, Goto
    <3>4. HeldOK'
      BY <2>3, <3>1, <3>2 DEF HeldOK, Goto, TypeOK, IsToken, Content
    <3> QED
      BY <3>3, <3>4
  <2> QED
    BY <1>2, <2>2, <2>3 DEF LogoutRead
<1>3. ASSUME Revoke(p) PROVE TypeInv'
  <2>1. /\ "logout_delete" \in Pc /\ "logout_delete" \notin Unsaved
        /\ "logout_revoke" \notin Unsaved
    BY DEF Pc, Locked, Unsaved
  <2>2. held[p].access \in 1 .. issued
    BY <1>3 DEF Revoke, HeldOK, Granted
  <2>3. revoked' \subseteq 1 .. issued
    BY <1>3, <2>2 DEF Revoke, TypeOK
  <2> QED
    BY <1>3, <2>1, <2>3, MoveTyped DEF Revoke, TypeOK
<1>4. ASSUME DeleteToken(p) PROVE TypeInv'
  BY <1>4, EndTyped DEF DeleteToken, Results, Content, TypeOK
<1> QED
  BY <1>1, <1>2, <1>3, <1>4

LEMMA FailuresTyped ==
  ASSUME TypeInv
  PROVE  /\ \A p \in Procs : DiskFails(p) => TypeInv'
         /\ \A p \in Procs : Interrupt(p) => TypeInv'
         /\ Tick => TypeInv'
         /\ ForeignGrant => TypeInv'
         /\ ForeignSave => TypeInv'
         /\ ForeignDamage => TypeInv'
<1> USE DEF TypeInv
<1>1. ASSUME NEW p \in Procs, DiskFails(p) PROVE TypeInv'
  BY <1>1, EndTyped, OrphanTyped DEF DiskFails, Results, TypeOK
<1>2. ASSUME NEW p \in Procs, Interrupt(p) PROVE TypeInv'
  BY <1>2, EndTyped, OrphanTyped DEF Interrupt, Results, TypeOK
<1>3. ASSUME Tick PROVE TypeInv'
  BY <1>3 DEF Tick, TypeOK, HeldOK, service, Granted, Content
<1>4. ASSUME ForeignGrant PROVE TypeInv'
  <2>1. issued \in Nat /\ issued' = issued + 1 /\ now \in Nat
    BY <1>4 DEF ForeignGrant, TypeOK
  <2>2. Granted \subseteq Granted' /\ Content \subseteq Content'
        /\ 1 .. issued \subseteq 1 .. issued'
    BY <2>1, GrantedGrows DEF Content
  <2>3. PICK registration \in Registrations :
          \/ /\ foreign' = LoginToken(issued', TRUE, registration)
             /\ UNCHANGED spent
          \/ /\ IsToken(file) /\ IsRefreshable(file, now)
             /\ foreign' = Refreshed(file, now, issued', TRUE)
             /\ spent' = spent \cup {file.refresh}
    BY <1>4 DEF ForeignGrant
  <2>4. foreign' \in Granted' /\ spent' \subseteq 1 .. issued' /\ spent \subseteq spent'
    <3>1. CASE foreign' = LoginToken(issued', TRUE, registration) /\ UNCHANGED spent
      BY <2>1, <2>2, <3>1, LoginTokenGranted DEF TypeOK
    <3>2. CASE /\ IsToken(file) /\ IsRefreshable(file, now)
               /\ foreign' = Refreshed(file, now, issued', TRUE)
               /\ spent' = spent \cup {file.refresh}
      <4>1. file \in Granted /\ file.refresh \in 1 .. issued
        BY <3>2 DEF IsToken, IsRefreshable, TypeOK, Content, Granted
      <4> QED
        BY <2>1, <2>2, <3>2, <4>1, RefreshedGranted DEF TypeOK
    <3> QED
      BY <2>3, <3>1, <3>2
  <2>5. UNCHANGED <<file, lock, pc, held, asof, grant, result, now, revoked, orphaned>>
    BY <1>4 DEF ForeignGrant
  <2>6. TypeOK'
    BY <2>1, <2>2, <2>4, <2>5 DEF TypeOK
  <2>7. HeldOK'
    BY <2>2, <2>5 DEF HeldOK
  <2> QED
    BY <2>6, <2>7
<1>5. ASSUME ForeignSave PROVE TypeInv'
  BY <1>5 DEF ForeignSave, TypeOK, HeldOK, service, Granted, Content
<1>6. ASSUME ForeignDamage PROVE TypeInv'
  BY <1>6 DEF ForeignDamage, TypeOK, HeldOK, service, Granted, Content
<1> QED
  BY <1>1, <1>2, <1>3, <1>4, <1>5, <1>6

LEMMA StepTyped == TypeInv /\ [Next]_vars => TypeInv'
<1> SUFFICES ASSUME TypeInv, [Next]_vars PROVE TypeInv'
  OBVIOUS
<1>1. ASSUME NEW p \in Procs, Begin(p) PROVE TypeInv'
  BY <1>1, UseStepsTyped, LoginStepsTyped, LogoutStepsTyped DEF Begin
<1>2. ASSUME NEW p \in Procs, Continue(p) PROVE TypeInv'
  BY <1>2, UseStepsTyped, LoginStepsTyped, LogoutStepsTyped, LockStepsTyped DEF Continue, Local, Answer
<1>3. CASE UNCHANGED vars
  BY <1>3 DEF vars, service, TypeInv, TypeOK, HeldOK, Granted, Content
<1> QED
  BY <1>1, <1>2, <1>3, FailuresTyped DEF Next

\* The variables keep their types, whatever fails and whatever the AWS CLI
\* does: the service's books hold only what was issued, and a process holds
\* an unsaved grant exactly between the service's answer and the save.
THEOREM TypeCorrect == Spec => []TypeOK
<1>1. Init => TypeInv
  BY InitTyped
<1>2. TypeInv /\ [Next]_vars => TypeInv'
  BY StepTyped
<1>3. TypeInv => TypeOK
  BY DEF TypeInv
<1> QED
  BY <1>1, <1>2, <1>3, PTL DEF Spec

-------------------------------------------------------------------------------
(* The lock.                                                               *)

\* Every step of a call but Acquire and LockTimeout keeps the lock where the
\* process still works under it, and lets go of it where the call ends.
LEMMA StepExcludes ==
  TypeInv /\ MutualExclusion /\ [Next]_vars => MutualExclusion'
<1> SUFFICES ASSUME TypeInv, MutualExclusion, [Next]_vars PROVE MutualExclusion'
  OBVIOUS
<1> USE DEF TypeInv, TypeOK, MutualExclusion
<1>1. ASSUME NEW p \in Procs, NEW outcome, Finish(p, outcome) PROVE MutualExclusion'
  BY <1>1 DEF Finish, Forget, Goto, Locked
<1>2. ASSUME NEW p \in Procs, NEW label, Goto(p, label), UNCHANGED lock,
             label \in Locked => lock = p
      PROVE  MutualExclusion'
  BY <1>2 DEF Goto
<1>3. ASSUME NEW p \in Procs, NEW label, Examine(p, label),
             label \in Locked => lock = p
      PROVE  MutualExclusion'
  BY <1>1, <1>2, <1>3 DEF Examine
<1>4. ASSUME NEW p \in Procs, Begin(p) PROVE MutualExclusion'
  BY <1>2, <1>3, <1>4 DEF Begin, UseToken, SignIn, Logout, Locked
<1>5. ASSUME NEW p \in Procs, Acquire(p) PROVE MutualExclusion'
  BY <1>5 DEF Acquire, LockFree, Goto
<1>6. ASSUME NEW p \in Procs, Continue(p) PROVE MutualExclusion'
  <2>1. CASE Recheck(p)
    BY <2>1, <1>3 DEF Recheck, Locked
  <2>2. CASE ServeRefresh(p) \/ LogoutRead(p) \/ Revoke(p)
    BY <2>2, <1>2 DEF ServeRefresh, LogoutRead, Revoke, Locked
  <2>3. CASE LockTimeout(p) \/ RefreshFails(p) \/ SaveRefreshed(p) \/ SaveLogin(p) \/ DeleteToken(p)
    BY <2>3, <1>1 DEF LockTimeout, RefreshFails, SaveRefreshed, SaveLogin, DeleteToken
  <2> QED
    BY <1>5, <1>6, <2>1, <2>2, <2>3 DEF Continue, Local, Answer
<1>7. ASSUME NEW p \in Procs, DiskFails(p) \/ Interrupt(p) PROVE MutualExclusion'
  BY <1>1, <1>7 DEF DiskFails, Interrupt
<1>8. CASE Tick \/ ForeignGrant \/ ForeignSave \/ ForeignDamage \/ UNCHANGED vars
  BY <1>8 DEF Tick, ForeignGrant, ForeignSave, ForeignDamage, vars
<1> QED
  BY <1>4, <1>6, <1>7, <1>8 DEF Next

\* The sidecar lock excludes gac processes from each other, whatever fails.
THEOREM Exclusive == Spec => []MutualExclusion
<1>1. Init => TypeInv /\ MutualExclusion
  BY InitTyped DEF Init, MutualExclusion, Locked
<1>2. TypeInv /\ MutualExclusion /\ [Next]_vars => (TypeInv /\ MutualExclusion)'
  BY StepTyped, StepExcludes
<1> QED
  BY <1>1, <1>2, PTL DEF Spec

-------------------------------------------------------------------------------
(* Without the AWS CLI: gac processes alone write the cache.               *)

NoForeign == "foreign" \notin Faults

\* The refresh token in the cache works, or the process that had it rotated is
\* about to replace it, or its successor was lost.
CachedLive ==
  (IsToken(file) /\ file.refresh \in spent)
    => file.refresh \in orphaned \/ \E p \in Procs : pc[p] = "use_granted"

\* A refresh token that is not saved yet works.
UnsavedLive ==
  \A p \in Procs : pc[p] \in Unsaved => grant[p].refresh \notin spent

\* Nobody else has the refresh token of a sign-in that is not saved yet.
LoginFresh ==
  \A p \in Procs :
    (pc[p] \in {"login_wait", "login_save"} /\ grant[p].refresh # 0)
      => /\ IsToken(file) => file.refresh # grant[p].refresh
         /\ \A q \in Procs \ {p} :
              pc[q] \in Unsaved => grant[q].refresh # grant[p].refresh

\* A refresh that is not saved yet succeeds the token it was made of.
GrantFollows ==
  \A p \in Procs :
    pc[p] = "use_granted"
      => /\ grant[p].refresh # 0
         /\ grant[p].registration = held[p].registration
         /\ grant[p].refresh = held[p].refresh \/ held[p].refresh \in spent

\* What a process captured as `now` is not in the future.
AsofPast == \A p \in Procs : asof[p] <= now

SoleInv ==
  /\ foreign = NoToken
  /\ LockedReadIsCurrent
  /\ CachedLive
  /\ UnsavedLive
  /\ LoginFresh
  /\ GrantFollows
  /\ AsofPast

Inv == TypeInv /\ MutualExclusion /\ SoleInv

\* A call that ends without a save: what it leaves spent in the cache is orphaned.
LEMMA EndSole ==
  ASSUME Inv, NEW p \in Procs, NEW outcome, Finish(p, outcome),
         UNCHANGED <<file, now, service, foreign>>,
         orphaned \subseteq orphaned',
         (pc[p] = "use_granted" /\ held[p].refresh \in spent) => held[p].refresh \in orphaned'
  PROVE  SoleInv'
<1> USE DEF Inv, TypeInv, TypeOK, SoleInv
<1>1. UNCHANGED <<issued, spent, revoked>>
  BY DEF service
<1>2. /\ pc' = [pc EXCEPT ![p] = "idle"] /\ held' = [held EXCEPT ![p] = NoToken]
      /\ asof' = [asof EXCEPT ![p] = 0] /\ grant' = [grant EXCEPT ![p] = NoToken]
  BY DEF Finish, Forget, Goto
<1>3. LockedReadIsCurrent'
  BY <1>2 DEF LockedReadIsCurrent
<1>4. CachedLive'
  BY <1>1, <1>2 DEF CachedLive, LockedReadIsCurrent, IsToken
<1>5. UnsavedLive' /\ LoginFresh' /\ GrantFollows'
  BY <1>1, <1>2 DEF UnsavedLive, LoginFresh, GrantFollows, Unsaved, IsToken
<1>6. AsofPast'
  BY <1>2 DEF AsofPast
<1> QED
  BY <1>3, <1>4, <1>5, <1>6

\* A call that moves on without a grant: what it read under the lock, it has just read.
LEMMA MoveSole ==
  ASSUME Inv, NEW p \in Procs, NEW label \in Pc, Goto(p, label),
         label \in Unsaved <=> pc[p] \in Unsaved,
         pc[p] # "use_granted", label # "use_granted",
         label \in {"use_refresh", "logout_revoke"} => held'[p] = file,
         \A q \in Procs \ {p} : held'[q] = held[q],
         \A q \in Procs : asof'[q] \in {asof[q], now},
         UNCHANGED <<file, grant, now, issued, spent, orphaned, foreign>>
  PROVE  SoleInv'
<1> USE DEF Inv, TypeInv, TypeOK, SoleInv
<1>1. pc' = [pc EXCEPT ![p] = label]
  BY DEF Goto
<1>2. LockedReadIsCurrent'
  BY <1>1 DEF LockedReadIsCurrent
<1>3. CachedLive'
  BY <1>1 DEF CachedLive, IsToken
<1>4. UnsavedLive' /\ LoginFresh' /\ GrantFollows'
  BY <1>1 DEF UnsavedLive, LoginFresh, GrantFollows, Unsaved, IsToken
<1>5. AsofPast'
  BY DEF AsofPast
<1> QED
  BY <1>2, <1>3, <1>4, <1>5

LEMMA ExamineSole ==
  ASSUME Inv, NEW p \in Procs, NEW label \in {"use_wait", "use_refresh"},
         pc[p] \in {"idle", "use_locked"}, Examine(p, label)
  PROVE  SoleInv'
<1>1. CASE \E outcome \in Results : Finish(p, outcome)
  BY <1>1, EndSole DEF Examine
<1>2. CASE /\ Goto(p, label)
           /\ held' = [held EXCEPT ![p] = file]
           /\ asof' = [asof EXCEPT ![p] = now]
           /\ UNCHANGED <<lock, result, grant>>
  BY <1>2, MoveSole DEF Examine, service, Pc, Waiting, Locked, Unsaved, Inv, TypeInv, TypeOK
<1> QED
  BY <1>1, <1>2 DEF Examine, UsableResult, Results

\* A save puts a refresh token that works, and that nobody else has, in the cache.
LEMMA SaveSole ==
  ASSUME Inv, NEW p \in Procs, SaveRefreshed(p) \/ SaveLogin(p)
  PROVE  SoleInv'
<1> USE DEF Inv, TypeInv, TypeOK, SoleInv
<1>1. /\ pc[p] \in {"use_granted", "login_save"} /\ lock = p /\ file' = grant[p]
      /\ pc' = [pc EXCEPT ![p] = "idle"] /\ held' = [held EXCEPT ![p] = NoToken]
      /\ asof' = [asof EXCEPT ![p] = 0] /\ grant' = [grant EXCEPT ![p] = NoToken]
      /\ UNCHANGED <<now, issued, spent, revoked, orphaned, foreign>>
  BY DEF SaveRefreshed, SaveLogin, Finish, Forget, Goto, service, MutualExclusion, Locked
<1>2. \A q \in Procs \ {p} : pc[q] \notin Locked
  BY <1>1 DEF MutualExclusion
<1>3. LockedReadIsCurrent'
  BY <1>1, <1>2 DEF LockedReadIsCurrent, Locked
<1>4. CachedLive'
  BY <1>1 DEF CachedLive, UnsavedLive, Unsaved
<1>5. UnsavedLive' /\ GrantFollows'
  BY <1>1 DEF UnsavedLive, GrantFollows, Unsaved
<1>6. LoginFresh'
  BY <1>1 DEF LoginFresh, Unsaved, IsToken
<1>7. AsofPast'
  BY <1>1 DEF AsofPast
<1> QED
  BY <1>1, <1>3, <1>4, <1>5, <1>6, <1>7

LEMMA DeleteSole ==
  ASSUME Inv, NEW p \in Procs, DeleteToken(p)
  PROVE  SoleInv'
<1> USE DEF Inv, TypeInv, TypeOK, SoleInv
<1>1. /\ pc[p] = "logout_delete" /\ lock = p /\ file' = NoToken
      /\ pc' = [pc EXCEPT ![p] = "idle"] /\ held' = [held EXCEPT ![p] = NoToken]
      /\ asof' = [asof EXCEPT ![p] = 0] /\ grant' = [grant EXCEPT ![p] = NoToken]
      /\ UNCHANGED <<now, issued, spent, revoked, orphaned, foreign>>
  BY DEF DeleteToken, Finish, Forget, Goto, service, MutualExclusion, Locked
<1>2. LockedReadIsCurrent'
  BY <1>1 DEF LockedReadIsCurrent, MutualExclusion, Locked
<1>3. CachedLive' /\ UnsavedLive' /\ GrantFollows' /\ LoginFresh'
  BY <1>1 DEF CachedLive, UnsavedLive, GrantFollows, LoginFresh, Unsaved, IsToken
<1>4. AsofPast'
  BY <1>1 DEF AsofPast
<1> QED
  BY <1>1, <1>2, <1>3, <1>4

LEMMA SignInSole ==
  ASSUME Inv, NEW p \in Procs, SignIn(p)
  PROVE  SoleInv'
<1> USE DEF Inv, TypeInv, TypeOK, SoleInv
<1>1. /\ pc[p] = "idle" /\ pc' = [pc EXCEPT ![p] = "login_wait"]
      /\ held' = [held EXCEPT ![p] = NoToken]
      /\ issued \in Nat /\ issued' = issued + 1
      /\ UNCHANGED <<file, lock, asof, now, spent, revoked, orphaned, foreign>>
  BY DEF SignIn, Goto
<1>2. PICK refreshable \in BOOLEAN, registration \in Registrations :
        grant' = [grant EXCEPT ![p] = LoginToken(issued', refreshable, registration)]
  BY DEF SignIn
<1>3. grant'[p].refresh \in {0, issued'}
  BY <1>2 DEF LoginToken
<1>4. issued' \notin spent /\ 0 \notin spent
  BY <1>1
<1>5. /\ \A q \in Procs : pc[q] \in Unsaved => grant[q].refresh # issued'
      /\ IsToken(file) => file.refresh # issued'
  BY <1>1 DEF Granted, Content, IsToken
<1>6. LockedReadIsCurrent' /\ CachedLive' /\ AsofPast' /\ GrantFollows'
  BY <1>1, <1>2 DEF LockedReadIsCurrent, CachedLive, AsofPast, GrantFollows, IsToken
<1>7. UnsavedLive'
  BY <1>1, <1>2, <1>3, <1>4 DEF UnsavedLive, Unsaved
<1>8. LoginFresh'
  BY <1>1, <1>2, <1>3, <1>5 DEF LoginFresh, Unsaved, IsToken
<1> QED
  BY <1>1, <1>6, <1>7, <1>8

LEMMA ServeSole ==
  ASSUME Inv, NEW p \in Procs, ServeRefresh(p)
  PROVE  SoleInv'
<1> USE DEF Inv, TypeInv, TypeOK, SoleInv
<1>1. /\ pc[p] = "use_refresh" /\ pc' = [pc EXCEPT ![p] = "use_granted"]
      /\ lock = p /\ file = held[p] /\ IsToken(file)
      /\ held[p].refresh # 0 /\ held[p].refresh \notin spent /\ held[p].refresh \in 1 .. issued
      /\ issued \in Nat /\ issued' = issued + 1
      /\ UNCHANGED <<file, lock, held, asof, now, revoked, orphaned, foreign>>
  BY DEF ServeRefresh, Goto, MutualExclusion, Locked, LockedReadIsCurrent, HeldOK, IsToken,
         Granted, CachedToken
<1>2. PICK rotates \in BOOLEAN :
        /\ spent' = IF rotates THEN spent \cup {held[p].refresh} ELSE spent
        /\ grant' = [grant EXCEPT ![p] = Refreshed(held[p], asof[p], issued', rotates)]
  BY DEF ServeRefresh
<1>3. \A q \in Procs \ {p} : pc[q] \notin Locked
  BY <1>1 DEF MutualExclusion
<1>4. /\ grant'[p].refresh = IF rotates THEN issued' ELSE held[p].refresh
      /\ grant'[p].registration = held[p].registration
      /\ \A q \in Procs \ {p} : grant'[q] = grant[q]
  BY <1>2 DEF Refreshed
<1>5. LockedReadIsCurrent' /\ CachedLive' /\ AsofPast'
  BY <1>1 DEF LockedReadIsCurrent, CachedLive, AsofPast, IsToken
<1>6. issued' \notin spent' /\ issued' # 0 /\ issued' # held[p].refresh
  BY <1>1, <1>2
<1>7. \A q \in Procs \ {p} : pc[q] \in Unsaved =>
        /\ grant[q].refresh # held[p].refresh
        /\ grant[q].refresh # issued'
  <2>1. \A q \in Procs \ {p} : pc[q] \in Unsaved => pc[q] = "login_wait"
    BY <1>3 DEF Unsaved, Locked
  <2>2. \A q \in Procs \ {p} : pc[q] \in Unsaved => grant[q].refresh # held[p].refresh
    BY <1>1, <2>1 DEF LoginFresh
  <2>3. \A q \in Procs : pc[q] \in Unsaved => grant[q].refresh \in 0 .. issued
    BY DEF Granted
  <2> QED
    BY <1>1, <2>2, <2>3
<1>8. UnsavedLive'
  <2>1. grant'[p].refresh \notin spent'
    BY <1>1, <1>2, <1>4, <1>6
  <2>2. \A q \in Procs \ {p} : pc'[q] \in Unsaved => grant'[q].refresh \notin spent'
    BY <1>1, <1>2, <1>4, <1>7 DEF UnsavedLive
  <2> QED
    BY <2>1, <2>2 DEF UnsavedLive
<1>9. LoginFresh'
  <2> SUFFICES ASSUME NEW q \in Procs, pc'[q] \in {"login_wait", "login_save"},
                      grant'[q].refresh # 0
               PROVE  /\ IsToken(file)' => file'.refresh # grant'[q].refresh
                      /\ \A r \in Procs \ {q} :
                           pc'[r] \in Unsaved => grant'[r].refresh # grant'[q].refresh
    BY DEF LoginFresh
  <2>1. q # p /\ pc[q] \in {"login_wait", "login_save"} /\ pc[q] \in Unsaved
        /\ grant'[q] = grant[q]
    BY <1>1, <1>4 DEF Unsaved
  <2>2. grant[p]'.refresh # grant[q].refresh
    BY <1>4, <1>7, <2>1
  <2> QED
    BY <1>1, <1>4, <2>1, <2>2 DEF LoginFresh, IsToken
<1>10. GrantFollows'
  BY <1>1, <1>2, <1>3, <1>4, <1>6 DEF GrantFollows, Locked
<1> QED
  BY <1>1, <1>5, <1>8, <1>9, <1>10

\* Steps of a call that change neither what is cached nor what is granted.
LEMMA QuietSole ==
  ASSUME Inv, NEW p \in Procs,
         \/ Acquire(p) \/ LockTimeout(p) \/ RefreshFails(p) \/ Logout(p)
         \/ LogoutRead(p) \/ Revoke(p) \/ DiskFails(p) \/ Interrupt(p)
  PROVE  SoleInv'
<1> USE DEF Inv, TypeInv
<1>1. CASE Acquire(p)
  <2>1. LockedLabel[pc[p]] \in {"use_locked", "login_save", "logout_locked"}
        /\ (LockedLabel[pc[p]] \in Unsaved <=> pc[p] \in Unsaved)
        /\ LockedLabel[pc[p]] \in Pc
    BY <1>1 DEF Acquire, LockedLabel, Waiting, Unsaved, Pc, Locked
  <2>2. Goto(p, LockedLabel[pc[p]]) /\ pc[p] # "use_granted"
        /\ UNCHANGED <<file, held, asof, grant, now, issued, spent, orphaned, foreign>>
    BY <1>1 DEF Acquire, service, Waiting
  <2> QED
    BY <2>1, <2>2, MoveSole
<1>2. CASE LockTimeout(p)
  BY <1>2, EndSole DEF LockTimeout, Waiting
<1>3. CASE RefreshFails(p) \/ DiskFails(p) \/ Interrupt(p)
  <2>1. /\ \E outcome : Finish(p, outcome)
        /\ Orphan(p)
        /\ UNCHANGED <<file, now, service, foreign>>
    BY <1>3 DEF RefreshFails, DiskFails, Interrupt
  <2> QED
    BY <2>1, EndSole DEF Orphan
<1>4. CASE Logout(p)
  BY <1>4, MoveSole DEF Logout, service, Pc, Waiting, Unsaved, TypeOK
<1>5. CASE LogoutRead(p)
  BY <1>5, MoveSole DEF LogoutRead, service, Pc, Locked, Unsaved, TypeOK
<1>6. CASE Revoke(p)
  BY <1>6, MoveSole DEF Revoke, service, Pc, Locked, Unsaved, TypeOK
<1> QED
  BY <1>1, <1>2, <1>3, <1>4, <1>5, <1>6

LEMMA StepSole == NoForeign /\ Inv /\ [Next]_vars => SoleInv'
<1> SUFFICES ASSUME NoForeign, Inv, [Next]_vars PROVE SoleInv'
  OBVIOUS
<1>1. ASSUME NEW p \in Procs, Begin(p) PROVE SoleInv'
  BY <1>1, ExamineSole, SignInSole, QuietSole DEF Begin, UseToken
<1>2. ASSUME NEW p \in Procs, Continue(p) PROVE SoleInv'
  BY <1>2, QuietSole, ExamineSole, ServeSole, SaveSole, DeleteSole DEF Continue, Local, Answer, Recheck
<1>3. ASSUME NEW p \in Procs, DiskFails(p) \/ Interrupt(p) PROVE SoleInv'
  BY <1>3, QuietSole
<1>4. CASE Tick
  <2>1. UNCHANGED <<file, pc, held, asof, grant, issued, spent, orphaned, foreign>>
        /\ now' = now + 1
    BY <1>4 DEF Tick, service
  <2>2. AsofPast'
    BY <2>1 DEF Inv, SoleInv, AsofPast, TypeInv, TypeOK
  <2> QED
    BY <2>1, <2>2 DEF Inv, SoleInv, LockedReadIsCurrent, CachedLive, UnsavedLive, LoginFresh,
       GrantFollows, IsToken
<1>5. CASE ForeignGrant \/ ForeignSave \/ ForeignDamage
  BY <1>5 DEF ForeignGrant, ForeignSave, ForeignDamage, NoForeign, Inv, SoleInv
<1>6. CASE UNCHANGED vars
  BY <1>6 DEF vars, service, Inv, SoleInv, LockedReadIsCurrent, CachedLive, UnsavedLive,
     LoginFresh, GrantFollows, AsofPast, IsToken
<1> QED
  BY <1>1, <1>2, <1>3, <1>4, <1>5, <1>6 DEF Next

LEMMA InitSole == Init => Inv
BY InitTyped DEF Init, Inv, MutualExclusion, SoleInv, LockedReadIsCurrent, CachedLive,
   UnsavedLive, LoginFresh, GrantFollows, AsofPast, IsToken, Unsaved, Locked, TypeInv

LEMMA StepInv == NoForeign /\ Inv /\ [Next]_vars => Inv'
BY StepTyped, StepExcludes, StepSole DEF Inv

LEMMA SoleInvariant == ASSUME NoForeign PROVE Spec => []Inv
<1>1. Inv /\ [Next]_vars => Inv'
  BY StepInv
<1> QED
  BY <1>1, InitSole, PTL DEF Spec

\* No read made under the lock goes stale before it is acted on.
THEOREM ReadsStayCurrent == ASSUME NoForeign PROVE Spec => []LockedReadIsCurrent
<1>1. Inv => LockedReadIsCurrent
  BY DEF Inv, SoleInv
<1> QED
  BY <1>1, SoleInvariant, PTL

\* Parallel gac processes refresh once.
THEOREM RefreshesOnce == ASSUME NoForeign PROVE Spec => []RefreshOnce
<1>1. Inv => RefreshOnce
  <2> SUFFICES ASSUME Inv, NEW p \in Procs, pc[p] = "use_refresh"
               PROVE  held[p].refresh \notin spent \ orphaned
    BY DEF RefreshOnce
  <2>1. file = held[p] /\ IsToken(file)
    BY DEF Inv, SoleInv, LockedReadIsCurrent, TypeInv, HeldOK, TypeOK, IsToken, Granted,
       CachedToken
  <2>2. \A q \in Procs : pc[q] # "use_granted"
    BY DEF Inv, MutualExclusion, Locked
  <2> QED
    BY <2>1, <2>2 DEF Inv, SoleInv, CachedLive
<1> QED
  BY <1>1, SoleInvariant, PTL

\* No refresh brings a signed-out session back.
THEOREM OnlySignInFills == ASSUME NoForeign PROVE Spec => OnlySignInFillsEmptyCache
<1> DEFINE Fills == (file = NoToken /\ file' # NoToken)
                      => \E p \in Procs : pc[p] = "login_save" /\ file' = grant[p]
<1>1. Inv /\ [Next]_vars => [Fills]_vars
  <2> SUFFICES ASSUME Inv, [Next]_vars, file = NoToken, file' # NoToken
               PROVE  \E p \in Procs : pc[p] = "login_save" /\ file' = grant[p]
    OBVIOUS
  <2>1. ASSUME NEW p \in Procs, SaveRefreshed(p) PROVE FALSE
    BY <2>1 DEF SaveRefreshed, Inv, SoleInv, LockedReadIsCurrent, TypeInv, HeldOK, TypeOK,
       Granted, CachedToken
  <2>2. ASSUME NEW p \in Procs, SaveLogin(p)
        PROVE  pc[p] = "login_save" /\ file' = grant[p]
    BY <2>2 DEF SaveLogin
  <2>3. ASSUME NEW p \in Procs, Begin(p) PROVE FALSE
    BY <2>3 DEF Begin, UseToken, Examine, SignIn, Logout
  <2>4. ASSUME NEW p \in Procs,
               Acquire(p) \/ LockTimeout(p) \/ Recheck(p) \/ ServeRefresh(p) \/ RefreshFails(p)
        PROVE  FALSE
    BY <2>4 DEF Acquire, LockTimeout, Recheck, Examine, ServeRefresh, RefreshFails
  <2>5. ASSUME NEW p \in Procs,
               LogoutRead(p) \/ Revoke(p) \/ DeleteToken(p) \/ DiskFails(p) \/ Interrupt(p)
        PROVE  FALSE
    BY <2>5 DEF LogoutRead, Revoke, DeleteToken, DiskFails, Interrupt
  <2>6. CASE Tick \/ ForeignGrant \/ ForeignSave \/ ForeignDamage \/ UNCHANGED vars
    BY <2>6 DEF Tick, ForeignGrant, ForeignSave, ForeignDamage, vars, NoForeign, Inv, SoleInv
  <2> QED
    BY <2>1, <2>2, <2>3, <2>4, <2>5, <2>6 DEF Next, Continue, Local, Answer
<1> QED
  BY <1>1, SoleInvariant, PTL DEF Spec, OnlySignInFillsEmptyCache

\* A new sign-in is asked for only when nothing in the cache works.
THEOREM AsksTruthfully == ASSUME NoForeign PROVE Spec => LoginRequiredIsTrue
<1> DEFINE Truthful ==
      \A p \in Procs :
        (pc[p] # "idle" /\ pc'[p] = "idle" /\ result' = "login_required")
          => (IsToken(file) => Expired(file, now))
<1>1. Inv /\ [Next]_vars => [Truthful]_vars
  <2> SUFFICES ASSUME Inv, [Next]_vars, NEW p \in Procs,
                      pc[p] # "idle", pc'[p] = "idle", result' = "login_required",
                      IsToken(file)
               PROVE  Expired(file, now)
    OBVIOUS
  <2>0. TypeOK
    BY DEF Inv, TypeInv
  <2>1. ASSUME NEW q \in Procs, NEW outcome, Finish(q, outcome)
        PROVE  q = p /\ outcome = "login_required"
    BY <2>0, <2>1 DEF Finish, Forget, Goto, TypeOK
  <2>2. ASSUME NEW q \in Procs, NEW label \in Pc \ {"idle"}, Goto(q, label)
        PROVE  FALSE
    BY <2>0, <2>2 DEF Goto, TypeOK
  <2>3. ASSUME NEW q \in Procs, NEW label \in {"use_wait", "use_refresh"}, Examine(q, label)
        PROVE  Expired(file, now)
    <3>1. label \in Pc \ {"idle"}
      BY DEF Pc, Waiting, Locked
    <3> QED
      BY <2>1, <2>2, <2>3, <3>1 DEF Examine, UsableResult, IsToken
  <2>4. ASSUME NEW q \in Procs, RefreshFails(q) PROVE Expired(file, now)
    <3>1. q = p /\ UsableResult(held[q], asof[q]) = "login_required"
      BY <2>1, <2>4 DEF RefreshFails
    <3>2. Expired(held[q], asof[q])
      BY <3>1 DEF UsableResult
    <3>3. /\ file = held[q] /\ held[q] \in Granted /\ asof[q] <= now
          /\ asof[q] \in Nat /\ now \in Nat
      BY <2>0, <2>4 DEF RefreshFails, Inv, SoleInv, LockedReadIsCurrent, AsofPast, TypeInv,
         HeldOK, TypeOK
    <3> QED
      BY <3>2, <3>3 DEF Expired, Granted
  <2>5. ASSUME NEW q \in Procs,
               \/ LockTimeout(q) \/ SaveRefreshed(q) \/ SaveLogin(q) \/ DeleteToken(q)
               \/ DiskFails(q) \/ Interrupt(q)
        PROVE  FALSE
    BY <2>1, <2>5 DEF LockTimeout, SaveRefreshed, SaveLogin, DeleteToken, DiskFails, Interrupt
  <2>6. ASSUME NEW q \in Procs,
               \/ SignIn(q) \/ Logout(q) \/ Acquire(q) \/ ServeRefresh(q) \/ LogoutRead(q)
               \/ Revoke(q)
        PROVE  FALSE
    <3>1. {"login_wait", "logout_wait", "use_granted", "logout_revoke", "logout_delete",
           "use_locked", "login_save", "logout_locked"} \subseteq Pc \ {"idle"}
      BY DEF Pc, Waiting, Locked
    <3>2. pc[q] \in Waiting => LockedLabel[pc[q]] \in Pc \ {"idle"}
      BY <3>1 DEF Waiting, LockedLabel
    <3> QED
      BY <2>2, <2>6, <3>1, <3>2
         DEF SignIn, Logout, Acquire, ServeRefresh, LogoutRead, Revoke
  <2>7. CASE Tick \/ ForeignGrant \/ ForeignSave \/ ForeignDamage \/ UNCHANGED vars
    BY <2>7 DEF Tick, ForeignGrant, ForeignSave, ForeignDamage, vars
  <2> QED
    BY <2>3, <2>4, <2>5, <2>6, <2>7 DEF Next, Begin, Continue, Local, Answer, UseToken, Recheck
<1> QED
  BY <1>1, SoleInvariant, PTL DEF Spec, LoginRequiredIsTrue

-------------------------------------------------------------------------------
(* The ledger.                                                             *)

Granting == {q \in Procs : pc[q] = "use_granted"}

\* At most one refresh is between the service's answer and the save.
LEMMA OneGranting ==
  ASSUME Inv
  PROVE  /\ \A p \in Procs : pc[p] = "use_granted" =>
               Granting = {p} /\ SettledSpent = spent \ {held[p].refresh}
         /\ (\A p \in Procs : pc[p] # "use_granted") =>
               Granting = {} /\ SettledSpent = spent
<1>1. \A p, q \in Procs : pc[p] = "use_granted" /\ pc[q] = "use_granted" => p = q
  BY DEF Inv, MutualExclusion, Locked
<1> QED
  BY <1>1 DEF Granting, SettledSpent

\* A step that grants nothing, saves nothing and loses nothing is no step of the ledger.
LEMMA QuietLedger ==
  ASSUME Inv, UNCHANGED <<file, spent>>, Granting' = Granting,
         \A q \in Granting : held'[q] = held[q]
  PROVE  UNCHANGED <<file, SettledSpent>>
BY DEF SettledSpent, Granting

LEMMA EndLedger ==
  ASSUME Inv, NEW p \in Procs, NEW outcome, Finish(p, outcome), UNCHANGED <<file, spent>>
  PROVE  Ledger!Lose \/ UNCHANGED <<file, SettledSpent>>
<1>1. pc' = [pc EXCEPT ![p] = "idle"] /\ held' = [held EXCEPT ![p] = NoToken]
  BY DEF Finish, Forget, Goto
<1> USE DEF Inv, TypeInv, TypeOK
<1>2. CASE pc[p] = "use_granted"
  <2>1. SettledSpent = spent \ {held[p].refresh}
    BY <1>2, OneGranting
  <2>2. SettledSpent' = spent
    BY <1>1, <1>2, OneGranting DEF SettledSpent, Granting
  <2>3. file = held[p] /\ file # NoToken
    BY <1>2 DEF SoleInv, LockedReadIsCurrent, HeldOK, Granted, CachedToken
  <2>4. CASE held[p].refresh \in spent
    BY <2>1, <2>2, <2>3, <2>4 DEF Ledger!Lose
  <2>5. CASE held[p].refresh \notin spent
    BY <2>1, <2>2, <2>5
  <2> QED
    BY <2>4, <2>5
<1>3. CASE pc[p] # "use_granted"
  BY <1>1, <1>3, QuietLedger DEF Granting
<1> QED
  BY <1>2, <1>3

LEMMA SaveLedger ==
  ASSUME Inv, NEW p \in Procs
  PROVE  /\ SaveRefreshed(p) => Ledger!Rotate \/ Ledger!Renew
         /\ SaveLogin(p) => Ledger!SignIn
         /\ DeleteToken(p) => Ledger!SignOut
<1> USE DEF Inv, TypeInv, TypeOK
<1>1. ASSUME SaveRefreshed(p) PROVE Ledger!Rotate \/ Ledger!Renew
  <2>1. /\ pc[p] = "use_granted" /\ file' = grant[p] /\ UNCHANGED spent
        /\ pc' = [pc EXCEPT ![p] = "idle"] /\ held' = [held EXCEPT ![p] = NoToken]
    BY <1>1 DEF SaveRefreshed, Finish, Forget, Goto, service
  <2>2. /\ SettledSpent = spent \ {held[p].refresh}
        /\ SettledSpent' = spent
    BY <2>1, OneGranting DEF SettledSpent, Granting
  <2>3. file = held[p] /\ file # NoToken
    BY <2>1 DEF SoleInv, LockedReadIsCurrent, HeldOK, Granted, CachedToken
  <2>4. /\ grant[p] \in Ledger!CachedToken
        /\ grant[p].registration = file.registration /\ grant[p].refresh # 0
        /\ grant[p].refresh \notin spent
        /\ grant[p].refresh = file.refresh \/ file.refresh \in spent
    BY <2>1, <2>3 DEF SoleInv, GrantFollows, UnsavedLive, Unsaved, Ledger!CachedToken, Granted
  <2>5. CASE file.refresh \in spent
    BY <2>1, <2>2, <2>3, <2>4, <2>5 DEF Ledger!Rotate
  <2>6. CASE file.refresh \notin spent
    BY <2>1, <2>2, <2>3, <2>4, <2>6 DEF Ledger!Renew
  <2> QED
    BY <2>5, <2>6
<1>2. ASSUME SaveLogin(p) PROVE Ledger!SignIn
  <2>1. /\ pc[p] = "login_save" /\ file' = grant[p] /\ UNCHANGED spent
        /\ pc' = [pc EXCEPT ![p] = "idle"] /\ held' = [held EXCEPT ![p] = NoToken]
    BY <1>2 DEF SaveLogin, Finish, Forget, Goto, service
  <2>2. /\ SettledSpent' = SettledSpent
        /\ SettledSpent \subseteq spent
    BY <2>1 DEF SettledSpent
  <2>3. grant[p] \in Ledger!CachedToken /\ grant[p].refresh \notin spent
    BY <2>1 DEF SoleInv, UnsavedLive, Unsaved, Ledger!CachedToken, Granted
  <2> QED
    BY <2>1, <2>2, <2>3 DEF Ledger!SignIn
<1>3. ASSUME DeleteToken(p) PROVE Ledger!SignOut
  <2>1. /\ pc[p] = "logout_delete" /\ file' = NoToken /\ UNCHANGED spent
        /\ pc' = [pc EXCEPT ![p] = "idle"] /\ held' = [held EXCEPT ![p] = NoToken]
    BY <1>3 DEF DeleteToken, Finish, Forget, Goto, service
  <2>2. SettledSpent' = SettledSpent
    BY <2>1 DEF SettledSpent
  <2> QED
    BY <2>1, <2>2 DEF Ledger!SignOut
<1> QED
  BY <1>1, <1>2, <1>3

\* A call that moves on does not show in the ledger, not even when the service
\* rotates the refresh token: that shows when the successor is saved or lost.
LEMMA MoveLedger ==
  ASSUME Inv, NEW p \in Procs,
         \/ SignIn(p) \/ Logout(p) \/ Acquire(p) \/ ServeRefresh(p) \/ LogoutRead(p) \/ Revoke(p)
  PROVE  UNCHANGED <<file, SettledSpent>>
<1> USE DEF Inv, TypeInv, TypeOK
<1>1. CASE ServeRefresh(p)
  <2>1. /\ pc[p] = "use_refresh" /\ pc' = [pc EXCEPT ![p] = "use_granted"]
        /\ UNCHANGED <<file, held>> /\ held[p].refresh \notin spent
        /\ spent' = spent \/ spent' = spent \cup {held[p].refresh}
    BY <1>1 DEF ServeRefresh, Goto
  <2>2. \A q \in Procs : pc[q] # "use_granted"
    BY <2>1 DEF MutualExclusion, Locked
  <2>3. SettledSpent = spent
    BY <2>2, OneGranting
  <2>4. SettledSpent' = spent' \ {held[p].refresh}
    BY <2>1, <2>2 DEF SettledSpent
  <2> QED
    BY <2>1, <2>3, <2>4
<1>2. CASE SignIn(p) \/ Logout(p) \/ LogoutRead(p) \/ Revoke(p)
  <2>1. /\ UNCHANGED <<file, spent>>
        /\ pc[p] # "use_granted"
        /\ \E label \in {"login_wait", "logout_wait", "logout_revoke", "logout_delete"} :
             pc' = [pc EXCEPT ![p] = label]
        /\ \A q \in Procs \ {p} : held'[q] = held[q]
    BY <1>2 DEF SignIn, Logout, LogoutRead, Revoke, Goto, service
  <2> QED
    BY <2>1, QuietLedger DEF Granting
<1>3. CASE Acquire(p)
  <2>1. /\ UNCHANGED <<file, spent, held>>
        /\ pc[p] # "use_granted"
        /\ \E label \in {"use_locked", "login_save", "logout_locked"} :
             pc' = [pc EXCEPT ![p] = label]
    <3>1. LockedLabel[pc[p]] \in {"use_locked", "login_save", "logout_locked"}
      BY <1>3 DEF Acquire, Waiting, LockedLabel
    <3> QED
      BY <1>3, <3>1 DEF Acquire, Goto, service, Waiting
  <2> QED
    BY <2>1, QuietLedger DEF Granting
<1> QED
  BY <1>1, <1>2, <1>3

LEMMA ExamineLedger ==
  ASSUME Inv, NEW p \in Procs, NEW label \in {"use_wait", "use_refresh"},
         pc[p] \in {"idle", "use_locked"}, Examine(p, label)
  PROVE  Ledger!Lose \/ UNCHANGED <<file, SettledSpent>>
<1> USE DEF Inv, TypeInv, TypeOK
<1>1. UNCHANGED <<file, spent>>
  BY DEF Examine, service
<1>2. CASE \E outcome : Finish(p, outcome)
  BY <1>1, <1>2, EndLedger
<1>3. CASE Goto(p, label) /\ held' = [held EXCEPT ![p] = file]
  BY <1>1, <1>3, QuietLedger DEF Goto, Granting
<1> QED
  BY <1>2, <1>3 DEF Examine

\* The detailed cache implements the ledger.
THEOREM RefinesLedger == ASSUME NoForeign PROVE Spec => ImplementsLedger
<1>1. Init => Ledger!Init
  BY DEF Init, Ledger!Init, SettledSpent
<1>2. Inv /\ [Next]_vars => [Ledger!Next]_<<file, SettledSpent>>
  <2> SUFFICES ASSUME Inv, [Next]_vars
               PROVE  Ledger!Next \/ UNCHANGED <<file, SettledSpent>>
    OBVIOUS
  <2>1. ASSUME NEW p \in Procs, Begin(p) PROVE Ledger!Next \/ UNCHANGED <<file, SettledSpent>>
    BY <2>1, ExamineLedger, MoveLedger DEF Begin, UseToken, Ledger!Next
  <2>2. ASSUME NEW p \in Procs, LockTimeout(p) \/ RefreshFails(p) \/ DiskFails(p) \/ Interrupt(p)
        PROVE  Ledger!Next \/ UNCHANGED <<file, SettledSpent>>
    BY <2>2, EndLedger
       DEF LockTimeout, RefreshFails, DiskFails, Interrupt, service, Ledger!Next
  <2>3. ASSUME NEW p \in Procs, Continue(p) PROVE Ledger!Next \/ UNCHANGED <<file, SettledSpent>>
    BY <2>2, <2>3, ExamineLedger, MoveLedger, SaveLedger DEF Continue, Local, Answer, Recheck, Ledger!Next
  <2>4. CASE Tick \/ ForeignGrant \/ ForeignSave \/ ForeignDamage \/ UNCHANGED vars
    <3>1. UNCHANGED <<file, pc, held, spent>>
      BY <2>4 DEF Tick, ForeignGrant, ForeignSave, ForeignDamage, vars, service, NoForeign,
         Inv, SoleInv
    <3> QED
      BY <3>1 DEF SettledSpent
  <2> QED
    BY <2>1, <2>2, <2>3, <2>4 DEF Next
<1> QED
  BY <1>1, <1>2, SoleInvariant, PTL DEF Spec, ImplementsLedger, Ledger!Spec

===============================================================================
