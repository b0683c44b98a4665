--------------------------- MODULE FileUpdateProofs ---------------------------
(***************************************************************************)
(* Theorems about FileUpdate, for any number of processes, writes, lock    *)
(* files and losses of power.                                              *)
(***************************************************************************)
EXTENDS FileUpdate, TLAPS

USE AbsentAssumption, DataAssumption, BoundAssumption

-----------------------------------------------------------------------------
(***************************************************************************)
(* Types                                                                   *)
(***************************************************************************)
LEMMA AfterLossType ==
  ASSUME NEW f \in {Absent} \cup File
  PROVE  AfterLoss(f) \in {Absent} \cup File
BY DEF AfterLoss, File

LEMMA ReleaseType ==
  ASSUME TypeOK, NEW p \in Procs, Release(p)
  PROVE  /\ pc' \in [Procs -> PC] /\ pc'[p] = "idle"
         /\ handle' \in [Procs -> 0 .. opened']
         /\ owns' \in [Procs -> BOOLEAN]
         /\ opened' \in Nat /\ lockfile' \in 0 .. opened'
         /\ \A q \in Procs \ {p} : pc'[q] = pc[q]
BY DEF TypeOK, Release, PC, Writing

\* Every variable keeps its type, and a process has a temp file exactly while
\* it writes one (write_atomic).
THEOREM Typed == Spec => []TypeOK
<1>1. Init => TypeOK
  <2> SUFFICES ASSUME Init PROVE TypeOK
    OBVIOUS
  <2>1. file \in {Absent} \cup File
    <3>1. {0} \subseteq Nat \cup {Torn} /\ {TRUE} \subseteq BOOLEAN
      OBVIOUS
    <3>2. {{"owner"}, {"owner", "others"}} \subseteq Mode
      BY DEF Mode
    <3> QED
      BY <3>1, <3>2 DEF Init, File
  <2>2. handle \in [Procs -> 0 .. opened] /\ lockfile \in 0 .. opened
    BY DEF Init
  <2>3. mode \in [Procs -> Mode]
    BY DEF Init, Mode
  <2>4. tmp \in [Procs -> {Absent} \cup File] /\ \A p \in Procs : tmp[p] = Absent
    BY DEF Init
  <2>5. pc \in [Procs -> PC] /\ \A p \in Procs : pc[p] \notin Writing
    BY DEF Init, PC, Writing
  <2> QED
    BY <2>1, <2>2, <2>3, <2>4, <2>5 DEF Init, TypeOK
<1>2. TypeOK /\ [Next]_vars => TypeOK'
  <2> SUFFICES ASSUME TypeOK, [Next]_vars PROVE TypeOK'
    OBVIOUS
  <2> USE DEF kind, locking, disk
  <2>1. ASSUME NEW p \in Procs, OpenLock(p) PROVE TypeOK'
    <3>1. opened' \in Nat /\ lockfile' \in 0 .. opened' /\ opened <= opened'
      BY <2>1 DEF OpenLock, TypeOK
    <3>2. handle' \in [Procs -> 0 .. opened']
      BY <2>1, <3>1 DEF OpenLock, TypeOK
    <3>3. \A q \in Procs : pc'[q] \in Writing <=> pc[q] \in Writing
      BY <2>1 DEF OpenLock, TypeOK, Writing
    <3> QED
      BY <2>1, <3>1, <3>2, <3>3 DEF OpenLock, TypeOK, PC
  <2>2. ASSUME NEW p \in Procs, TryLock(p) PROVE TypeOK'
    BY <2>2 DEF TryLock, TypeOK, PC, Writing
  <2>3. ASSUME NEW p \in Procs, LockTimeout(p) \/ Unlock(p) PROVE TypeOK'
    BY <2>3, ReleaseType DEF LockTimeout, Unlock, TypeOK, Writing
  <2>4. ASSUME NEW p \in Procs, Start(p) PROVE TypeOK'
    BY <2>4 DEF Start, TypeOK, PC, Writing
  <2>5. ASSUME NEW p \in Procs, MakeTmp(p) PROVE TypeOK'
    <3>1. [data |-> Torn, mode |-> {"owner"}, synced |-> FALSE] \in File
      BY DEF File, Mode
    <3>2. (IF file = Absent THEN {"owner"} ELSE file.mode) \in Mode
      BY DEF TypeOK, File, Mode
    <3> QED
      BY <2>5, <3>1, <3>2 DEF MakeTmp, TypeOK, PC, Writing
  <2>6. ASSUME NEW p \in Procs, WriteTmp(p) PROVE TypeOK'
    BY <2>6 DEF WriteTmp, TypeOK, PC, Writing, File
  <2>7. ASSUME NEW p \in Procs, ApplyMode(p) PROVE TypeOK'
    <3>1. AppliedMode(mode[p]) \in Mode
      BY DEF AppliedMode, TypeOK, Mode
    <3> QED
      BY <2>7, <3>1 DEF ApplyMode, TypeOK, PC, Writing, File
  <2>8. ASSUME NEW p \in Procs, SyncTmp(p) PROVE TypeOK'
    <3>1. Synced(tmp[p]) \in File
      BY <2>8 DEF SyncTmp, Synced, TypeOK, Writing, File
    <3> QED
      BY <2>8, <3>1 DEF SyncTmp, TypeOK, PC, Writing
  <2>9. ASSUME NEW p \in Procs, Persist(p) PROVE TypeOK'
    BY <2>9 DEF Persist, TypeOK, PC, Writing
  <2>10. ASSUME NEW p \in Procs, SyncDir(p) PROVE TypeOK'
    BY <2>10 DEF SyncDir, TypeOK, PC, Writing
  <2>11. ASSUME NEW p \in Procs, WriteFails(p) PROVE TypeOK'
    BY <2>11 DEF WriteFails, Dropped, TypeOK, PC, Writing
  <2>12. ASSUME NEW p \in Procs, Remove(p) PROVE TypeOK'
    BY <2>12 DEF Remove, Unlinked, TypeOK, PC, Writing
  <2>13. ASSUME NEW p \in Procs, Die(p) PROVE TypeOK'
    BY <2>13, ReleaseType DEF Die, TypeOK, Writing
  <2>14. CASE PowerLoss
    <3>1. file' \in {Absent} \cup File
      BY <2>14, AfterLossType DEF PowerLoss, TypeOK
    <3> QED
      BY <2>14, <3>1 DEF PowerLoss, TypeOK, PC, Writing
  <2>15. CASE UNCHANGED vars
    BY <2>15 DEF vars, TypeOK
  <2> QED
    BY <2>1, <2>2, <2>3, <2>4, <2>5, <2>6, <2>7, <2>8, <2>9, <2>10, <2>11,
       <2>12, <2>13, <2>14, <2>15 DEF Next, Step
<1> QED
  BY <1>1, <1>2, PTL DEF Spec

-----------------------------------------------------------------------------
(***************************************************************************)
(* The lock                                                                *)
(***************************************************************************)
\* Whoever has a lock file open has the one its name leads to: the file is
\* never unlinked while a process waits on it.
LockInv ==
  guarded =>
    /\ \A p \in Procs : pc[p] # "idle" => handle[p] = lockfile /\ lockfile # 0
    /\ \A p \in Procs : owns[p] <=> pc[p] \notin {"idle", "locking"}
    /\ \A p, q \in Procs : owns[p] /\ owns[q] => p = q

LEMMA ReleaseLock ==
  ASSUME TypeOK, LockInv, NEW p \in Procs, Release(p), UNCHANGED guarded
  PROVE  LockInv'
<1> USE DEF TypeOK, LockInv, Release
<1>1. pc'[p] = "idle" /\ ~owns'[p]
  OBVIOUS
<1>2. \A q \in Procs \ {p} : /\ pc'[q] = pc[q]
                            /\ owns'[q] = owns[q] /\ handle'[q] = handle[q]
  OBVIOUS
<1> QED
  BY <1>1, <1>2

\* A step between the lock and its release leaves the lock alone.
LEMMA InsideLock ==
  ASSUME TypeOK, LockInv, NEW p \in Procs, NEW at \in PC,
         pc[p] \notin {"idle", "locking"}, at \notin {"idle", "locking"},
         pc' = [pc EXCEPT ![p] = at], UNCHANGED <<guarded, handle, owns, lockfile>>
  PROVE  LockInv'
<1>1. \A q \in Procs : /\ pc'[q] # "idle" <=> pc[q] # "idle"
                      /\ pc'[q] \notin {"idle", "locking"}
                           <=> pc[q] \notin {"idle", "locking"}
  BY DEF TypeOK
<1> QED
  BY <1>1 DEF LockInv

LEMMA NextLock == TypeOK /\ LockInv /\ [Next]_vars => LockInv'
<1> SUFFICES ASSUME TypeOK, LockInv, [Next]_vars PROVE LockInv'
  OBVIOUS
<1> USE DEF kind, locking, disk
<1>1. ASSUME NEW p \in Procs, OpenLock(p) PROVE LockInv'
  <2>1. lockfile' = lockfile \/ \A q \in Procs : pc[q] = "idle"
    BY <1>1 DEF OpenLock, LockInv, TypeOK
  <2>2. /\ pc'[p] = "locking" /\ handle'[p] = lockfile' /\ lockfile' # 0
        /\ guarded => ~owns[p]
    BY <1>1 DEF OpenLock, LockInv, TypeOK
  <2>3. \A q \in Procs \ {p} : pc'[q] = pc[q] /\ handle'[q] = handle[q]
    BY <1>1 DEF OpenLock, TypeOK
  <2> QED
    BY <1>1, <2>1, <2>2, <2>3 DEF OpenLock, LockInv
<1>2. ASSUME NEW p \in Procs, TryLock(p) PROVE LockInv'
  <2>1. guarded => \A q \in Procs : ~owns[q]
    BY <1>2 DEF TryLock, Held, LockInv, TypeOK
  <2>2. pc'[p] = "open" /\ owns'[p]
    BY <1>2 DEF TryLock, TypeOK
  <2>3. \A q \in Procs \ {p} : pc'[q] = pc[q] /\ owns'[q] = owns[q]
    BY <1>2 DEF TryLock, TypeOK
  <2> QED
    BY <1>2, <2>1, <2>2, <2>3 DEF TryLock, LockInv
<1>3. ASSUME NEW p \in Procs, LockTimeout(p) \/ Unlock(p) \/ Die(p) PROVE LockInv'
  BY <1>3, ReleaseLock DEF LockTimeout, Unlock, Die
<1>4. ASSUME NEW p \in Procs, Start(p) PROVE LockInv'
  BY <1>4 DEF Start, LockInv
<1>5. ASSUME NEW p \in Procs,
             MakeTmp(p) \/ WriteTmp(p) \/ ApplyMode(p) \/ SyncTmp(p) \/ Persist(p)
               \/ SyncDir(p) \/ WriteFails(p) \/ Remove(p)
      PROVE  LockInv'
  <2>1. /\ pc[p] \notin {"idle", "locking"}
        /\ UNCHANGED <<guarded, handle, owns, lockfile>>
    BY <1>5 DEF MakeTmp, WriteTmp, ApplyMode, SyncTmp, Persist, SyncDir,
                WriteFails, Remove, Unlinked, Writing
  <2>2. \E at \in PC \ {"idle", "locking"} : pc' = [pc EXCEPT ![p] = at]
    BY <1>5 DEF MakeTmp, WriteTmp, ApplyMode, SyncTmp, Persist, SyncDir,
                WriteFails, Remove, PC, Writing
  <2> QED
    BY <2>1, <2>2, InsideLock
<1>6. CASE PowerLoss
  BY <1>6 DEF PowerLoss, LockInv
<1>7. CASE UNCHANGED vars
  BY <1>7 DEF vars, LockInv
<1> QED
  BY <1>1, <1>2, <1>3, <1>4, <1>5, <1>6, <1>7 DEF Next, Step

\* One process at a time is between the lock and its release (FileLock), although
\* sign-outs remove the file the lock guards (token.rs:174-176).
THEOREM LockExcludes == Spec => []Exclusive
<1>1. Init => LockInv
  BY DEF Init, LockInv
<1>2. LockInv => Exclusive
  BY DEF LockInv, Exclusive
<1> QED
  BY <1>1, <1>2, NextLock, Typed, PTL DEF Spec

-----------------------------------------------------------------------------
(***************************************************************************)
(* The disk                                                                *)
(***************************************************************************)
Stored(f) == f # Absent => f.data \in Nat /\ f.synced

\* What the directory names, now or after a loss of power, is whole and on disk.
DiskInv ==
  /\ file \in fallback
  /\ \A f \in fallback : Stored(f)
  /\ \A p \in Procs : /\ pc[p] \in {"written", "moded"} => tmp[p].data \in Nat
                      /\ pc[p] = "synced" => Stored(tmp[p])

Shielded(f) == f # Absent => "others" \notin f.mode

\* What gac writes under the policy Private is for the user alone.
PrivacyInv ==
  policy = "Private" =>
    /\ \A f \in fallback : f # Absent /\ f.data # 0 => Shielded(f)
    /\ \A p \in Procs : Shielded(tmp[p])

LEMMA StoredSurvives ==
  ASSUME NEW f \in {Absent} \cup File, Stored(f)
  PROVE  AfterLoss(f) = f
BY DEF AfterLoss, Stored, File

\* A step that only drops a temp file, or none, leaves the disk as it is.
LEMMA QuietStep ==
  ASSUME TypeOK, DiskInv, PrivacyInv, UNCHANGED <<policy, file, fallback>>,
         \A q \in Procs : /\ tmp'[q] \in {tmp[q], Absent}
                         /\ \/ pc'[q] \notin Writing
                            \/ pc'[q] = pc[q] /\ tmp'[q] = tmp[q]
  PROVE  DiskInv' /\ PrivacyInv'
BY DEF DiskInv, PrivacyInv, Stored, Shielded, Writing

LEMMA NextDisk ==
  TypeOK /\ DiskInv /\ PrivacyInv /\ [Next]_vars => DiskInv' /\ PrivacyInv'
<1> SUFFICES ASSUME TypeOK, DiskInv, PrivacyInv, [Next]_vars
             PROVE  DiskInv' /\ PrivacyInv'
  OBVIOUS
<1> USE DEF kind, locking, disk
<1>1. ASSUME NEW p \in Procs,
             OpenLock(p) \/ TryLock(p) \/ LockTimeout(p) \/ Unlock(p) \/ Start(p)
               \/ WriteFails(p) \/ Die(p)
      PROVE  DiskInv' /\ PrivacyInv'
  <2>1. UNCHANGED <<policy, file, fallback>> /\ tmp' \in {tmp, [tmp EXCEPT ![p] = Absent]}
    BY <1>1 DEF OpenLock, TryLock, LockTimeout, Unlock, Start, WriteFails,
                Dropped, Die, Release
  <2>2. pc'[p] \notin Writing /\ \A q \in Procs \ {p} : pc'[q] = pc[q]
    BY <1>1 DEF OpenLock, TryLock, LockTimeout, Unlock, Start, WriteFails,
                Die, Release, TypeOK, Writing
  <2> QED
    BY <2>1, <2>2, QuietStep DEF TypeOK
<1>2. ASSUME NEW p \in Procs, MakeTmp(p) PROVE DiskInv' /\ PrivacyInv'
  <2>1. pc'[p] = "made" /\ "others" \notin tmp'[p].mode
    <3>1. [data |-> Torn, mode |-> {"owner"}, synced |-> FALSE].mode = {"owner"}
      OBVIOUS
    <3> QED
      BY <1>2, <3>1 DEF MakeTmp, TypeOK
  <2>2. \A q \in Procs \ {p} : pc'[q] = pc[q] /\ tmp'[q] = tmp[q]
    BY <1>2 DEF MakeTmp, TypeOK
  <2> QED
    BY <1>2, <2>1, <2>2 DEF MakeTmp, DiskInv, PrivacyInv, Shielded, Stored
<1>3. ASSUME NEW p \in Procs, WriteTmp(p) \/ ApplyMode(p) \/ SyncTmp(p)
      PROVE  DiskInv' /\ PrivacyInv'
  <2>1. tmp[p] \in File
    BY <1>3 DEF WriteTmp, ApplyMode, SyncTmp, TypeOK, Writing
  <2>2. /\ pc'[p] \in {"written", "moded"} => tmp'[p].data \in Nat
        /\ pc'[p] = "synced" => Stored(tmp'[p])
        /\ policy = "Private" => Shielded(tmp'[p])
    BY <1>3, <2>1 DEF WriteTmp, ApplyMode, AppliedMode, SyncTmp, Synced, TypeOK,
                      DiskInv, PrivacyInv, Stored, Shielded, File
  <2>3. \A q \in Procs \ {p} : pc'[q] = pc[q] /\ tmp'[q] = tmp[q]
    BY <1>3 DEF WriteTmp, ApplyMode, SyncTmp, TypeOK
  <2>4. UNCHANGED <<policy, file, fallback>>
    BY <1>3 DEF WriteTmp, ApplyMode, SyncTmp
  <2>5. DiskInv'
    BY <2>2, <2>3, <2>4 DEF DiskInv, Stored
  <2>6. PrivacyInv'
    BY <2>2, <2>3, <2>4 DEF PrivacyInv, Shielded
  <2> QED
    BY <2>5, <2>6
<1>4. ASSUME NEW p \in Procs, Persist(p) PROVE DiskInv' /\ PrivacyInv'
  <2>1. Stored(file') /\ (policy = "Private" => Shielded(file'))
    BY <1>4 DEF Persist, DiskInv, PrivacyInv
  <2>2. pc'[p] = "renamed" /\ tmp'[p] = Absent
    BY <1>4 DEF Persist, TypeOK
  <2>3. \A q \in Procs \ {p} : pc'[q] = pc[q] /\ tmp'[q] = tmp[q]
    BY <1>4 DEF Persist, TypeOK
  <2> QED
    BY <1>4, <2>1, <2>2, <2>3 DEF Persist, DiskInv, PrivacyInv, Stored, Shielded
<1>5. ASSUME NEW p \in Procs, SyncDir(p) \/ Remove(p)
      PROVE  DiskInv' /\ PrivacyInv'
  <2>1. /\ file' \in fallback' /\ fallback' \subseteq fallback \cup {Absent}
        /\ UNCHANGED <<policy, tmp>>
    BY <1>5 DEF SyncDir, Remove, DiskInv
  <2>2. pc'[p] = "done" /\ \A q \in Procs \ {p} : pc'[q] = pc[q]
    BY <1>5 DEF SyncDir, Remove, TypeOK
  <2> QED
    BY <2>1, <2>2 DEF DiskInv, PrivacyInv, Stored, Shielded
<1>6. CASE PowerLoss
  <2>1. file' \in fallback
    BY <1>6, StoredSurvives DEF PowerLoss, DiskInv, TypeOK
  <2> QED
    BY <1>6, <2>1 DEF PowerLoss, DiskInv, PrivacyInv, Stored, Shielded
<1>7. CASE UNCHANGED vars
  BY <1>7 DEF vars, DiskInv, PrivacyInv, Stored, Shielded
<1> QED
  BY <1>1, <1>2, <1>3, <1>4, <1>5, <1>6, <1>7 DEF Next, Step

LEMMA InitDisk == Init => DiskInv /\ PrivacyInv
<1> SUFFICES ASSUME Init PROVE DiskInv /\ PrivacyInv
  OBVIOUS
<1>1. file # Absent => file.data = 0 /\ file.synced
  BY DEF Init
<1>2. \A p \in Procs : tmp[p] = Absent /\ pc[p] = "idle"
  BY DEF Init
<1>3. fallback = {file}
  BY DEF Init
<1> QED
  BY <1>1, <1>2, <1>3 DEF DiskInv, PrivacyInv, Stored, Shielded

\* No secret that gac writes can be read by others, in the temp file or in the
\* target (apply_mode).
THEOREM SecretsArePrivate == Spec => []SecretStaysPrivate
<1>1. DiskInv /\ PrivacyInv => SecretStaysPrivate
  BY DEF DiskInv, PrivacyInv, SecretStaysPrivate, Shielded
<1> QED
  BY <1>1, InitDisk, NextDisk, Typed, PTL DEF Spec

-----------------------------------------------------------------------------
(***************************************************************************)
(* The refinement                                                          *)
(***************************************************************************)
LEMMA Settled ==
  ASSUME TypeOK, DiskInv
  PROVE  /\ \A f \in fallback : /\ AfterLoss(f) = f
                              /\ ContentOf(f) \in Nat \cup {Absent}
         /\ {ContentOf(AfterLoss(f)) : f \in fallback} = {ContentOf(f) : f \in fallback}
<1>1. \A f \in fallback : AfterLoss(f) = f
  BY StoredSurvives DEF TypeOK, DiskInv
<1>2. \A f \in fallback : ContentOf(f) \in Nat \cup {Absent}
  BY DEF DiskInv, Stored, ContentOf
<1> QED
  BY <1>1, <1>2

LEMMA NextSettled ==
  ASSUME TypeOK', DiskInv'
  PROVE  (/\ \A f \in fallback : /\ AfterLoss(f) = f
                               /\ ContentOf(f) \in Nat \cup {Absent}
          /\ {ContentOf(AfterLoss(f)) : f \in fallback}
               = {ContentOf(f) : f \in fallback})'
<1>1. (\A f \in fallback : AfterLoss(f) = f)'
  BY StoredSurvives DEF TypeOK, DiskInv
<1>2. (\A f \in fallback : ContentOf(f) \in Nat \cup {Absent})'
  BY DEF DiskInv, Stored, ContentOf
<1> QED
  BY <1>1, <1>2

\* Every step of the writers puts one whole content in place, settles it on
\* disk, loses what was not settled, or changes nothing that a reader could see.
THEOREM RefinesLedger == Spec => ImplementsLedger
<1>1. Init => Ledger!Init
  <2> SUFFICES ASSUME Init PROVE Ledger!Init
    OBVIOUS
  <2>1. file # Absent => file.data = 0 /\ file.synced /\ file \in File
    <3>1. {0} \subseteq Nat \cup {Torn} /\ {TRUE} \subseteq BOOLEAN
      OBVIOUS
    <3>2. {{"owner"}, {"owner", "others"}} \subseteq Mode
      BY DEF Mode
    <3> QED
      BY <3>1, <3>2 DEF Init, File
  <2>2. AfterLoss(file) = file
    BY <2>1, StoredSurvives DEF Stored, Init
  <2>3. ContentOf(file) \in Nat \cup {Absent}
    BY <2>1 DEF ContentOf
  <2> QED
    BY <2>2, <2>3 DEF Ledger!Init, Init
<1>2. TypeOK /\ TypeOK' /\ DiskInv /\ DiskInv' /\ [Next]_vars
        => [Ledger!Next]_<<ContentOf(file), {ContentOf(AfterLoss(f)) : f \in fallback}>>
  <2> SUFFICES ASSUME TypeOK, TypeOK', DiskInv, DiskInv', [Next]_vars
               PROVE  [Ledger!Next]_<<ContentOf(file),
                                      {ContentOf(AfterLoss(f)) : f \in fallback}>>
    OBVIOUS
  <2> DEFINE now == {ContentOf(f) : f \in fallback}
             then == {ContentOf(f) : f \in fallback'}
  <2>1. /\ {ContentOf(AfterLoss(f)) : f \in fallback} = now
        /\ ContentOf(file) \in Nat \cup {Absent}
    BY Settled DEF DiskInv
  <2>2. /\ {ContentOf(AfterLoss(f)) : f \in fallback'} = then
        /\ ContentOf(file') \in Nat \cup {Absent}
    <3>1. (/\ \A f \in fallback : /\ AfterLoss(f) = f
                                 /\ ContentOf(f) \in Nat \cup {Absent}
           /\ {ContentOf(AfterLoss(f)) : f \in fallback}
                = {ContentOf(f) : f \in fallback})'
      BY NextSettled
    <3>2. file' \in fallback'
      BY DEF DiskInv
    <3> QED
      BY <3>1, <3>2
  <2>3. ASSUME NEW p \in Procs, Persist(p) \/ Remove(p) PROVE Ledger!Put
    BY <2>3, <2>1, <2>2 DEF Persist, Remove, Ledger!Put
  <2>4. ASSUME NEW p \in Procs, SyncDir(p)
        PROVE  Ledger!Settle \/ UNCHANGED <<file, fallback>>
    BY <2>4, <2>1, <2>2 DEF SyncDir, Ledger!Settle
  <2>5. CASE PowerLoss
    <3>1. file' \in fallback
      BY <2>5, Settled DEF PowerLoss
    <3> QED
      BY <2>5, <3>1, <2>1, <2>2 DEF PowerLoss, Ledger!PowerLoss, Ledger!Next
  <2>6. CASE UNCHANGED <<file, fallback>>
    BY <2>6, <2>1, <2>2
  <2>7. \/ \E p \in Procs : Persist(p) \/ Remove(p)
        \/ \E p \in Procs : SyncDir(p)
        \/ PowerLoss
        \/ UNCHANGED <<file, fallback>>
    BY DEF Next, Step, vars, disk, OpenLock, TryLock, LockTimeout, Unlock, Start,
           MakeTmp, WriteTmp, ApplyMode, SyncTmp, WriteFails, Die
  <2> QED
    BY <2>3, <2>4, <2>5, <2>6, <2>7 DEF Ledger!Next
<1> QED
  BY <1>1, <1>2, InitDisk, NextDisk, Typed, PTL
     DEF Spec, ImplementsLedger, Ledger!Spec

=============================================================================
