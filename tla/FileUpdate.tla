------------------------------ MODULE FileUpdate ------------------------------
(***************************************************************************)
(* fsx.rs: the sidecar lock (FileLock) and the atomic replacement of a     *)
(* file (write_atomic), down to names, open files and what is on disk.     *)
(*                                                                         *)
(* Processes replace or remove one file.  Some take its lock first (tokens,*)
(* the config file), some do not (role credentials, registrations, the     *)
(* inventory).  A process may die between any two steps, and so may the    *)
(* machine.                                                                *)
(***************************************************************************)
EXTENDS Integers

CONSTANTS
  Procs,
  Absent,     \* there is no such file
  Torn,       \* the data of a file that is not whole
  MaxWrites,  \* bound on the contents that are written
  MaxOpens    \* bound on the lock files that are created

Mode == SUBSET {"owner", "others"}
File == [data : Nat \cup {Torn}, mode : Mode, synced : BOOLEAN]

ASSUME AbsentAssumption == Absent \notin File
ASSUME DataAssumption == Absent \notin Nat /\ Torn \notin Nat \cup {Absent}
ASSUME BoundAssumption == MaxWrites \in Nat /\ MaxOpens \in Nat

VARIABLES
  guarded,   \* the writers of this file take its lock; never changes
  policy,    \* the ModePolicy of their writes; never changes
  pc,        \* where each process is
  handle,    \* the lock file it has open: a number that is never reused, or 0
  owns,      \* it holds the advisory lock of that file
  tmp,       \* its temp file
  mode,      \* the mode of the target when the temp file was made
  lockfile,  \* the file the lock's name leads to, or 0
  opened,    \* how many lock files were created
  file,      \* the target
  fallback,  \* the targets the directory on disk may name after a power loss
  writes     \* the contents written so far

kind == <<guarded, policy>>
locking == <<handle, owns, lockfile, opened>>
disk == <<file, fallback, writes>>
vars == <<kind, pc, locking, tmp, mode, disk>>

Writing == {"made", "written", "moded", "synced"}
PC == {"idle", "locking", "open", "renamed", "done"} \cup Writing

Init ==
  /\ guarded \in BOOLEAN
  /\ policy \in {"Private", "Keep"}
  /\ pc = [p \in Procs |-> "idle"]
  /\ handle = [p \in Procs |-> 0]
  /\ owns = [p \in Procs |-> FALSE]
  /\ tmp = [p \in Procs |-> Absent]
  /\ mode = [p \in Procs |-> {}]
  /\ lockfile = 0
  /\ opened = 0
  /\ file \in {Absent} \cup [data : {0},
                             mode : {{"owner"}, {"owner", "others"}},
                             synced : {TRUE}]
  /\ fallback = {file}
  /\ writes = 0

-----------------------------------------------------------------------------
\* FileLock

\* `open` with create: the file behind the name, or a new one.
OpenLock(p) ==
  /\ pc[p] = "idle"
  /\ guarded
  /\ \/ lockfile # 0 /\ UNCHANGED <<lockfile, opened>>
     \/ /\ lockfile = 0
        /\ opened < MaxOpens
        /\ opened' = opened + 1
        /\ lockfile' = opened'
  /\ handle' = [handle EXCEPT ![p] = lockfile']
  /\ pc' = [pc EXCEPT ![p] = "locking"]
  /\ UNCHANGED <<kind, owns, tmp, mode, disk>>

\* The operating system gives the lock of a file to one open file at a time.
Held(f) == \E q \in Procs : owns[q] /\ handle[q] = f

TryLock(p) ==
  /\ pc[p] = "locking"
  /\ ~Held(handle[p])
  /\ owns' = [owns EXCEPT ![p] = TRUE]
  /\ pc' = [pc EXCEPT ![p] = "open"]
  /\ UNCHANGED <<kind, handle, lockfile, opened, tmp, mode, disk>>

\* Files are closed, which releases the lock.
Release(p) ==
  /\ pc' = [pc EXCEPT ![p] = "idle"]
  /\ handle' = [handle EXCEPT ![p] = 0]
  /\ owns' = [owns EXCEPT ![p] = FALSE]
  /\ UNCHANGED <<lockfile, opened>>

LockTimeout(p) ==
  /\ pc[p] = "locking"
  /\ Held(handle[p])
  /\ Release(p)
  /\ UNCHANGED <<kind, tmp, mode, disk>>

Unlock(p) ==
  /\ pc[p] = "done"
  /\ Release(p)
  /\ UNCHANGED <<kind, tmp, mode, disk>>

\* A writer that takes no lock.
Start(p) ==
  /\ pc[p] = "idle"
  /\ ~guarded
  /\ pc' = [pc EXCEPT ![p] = "open"]
  /\ UNCHANGED <<kind, locking, tmp, mode, disk>>

-----------------------------------------------------------------------------
\* write_atomic

MakeTmp(p) ==
  /\ pc[p] = "open"
  /\ mode' = [mode EXCEPT ![p] = IF file = Absent THEN {"owner"} ELSE file.mode]
  /\ tmp' = [tmp EXCEPT ![p] = [data |-> Torn, mode |-> {"owner"},
                                synced |-> FALSE]]
  /\ pc' = [pc EXCEPT ![p] = "made"]
  /\ UNCHANGED <<kind, locking, disk>>

WriteTmp(p) ==
  /\ pc[p] = "made"
  /\ writes < MaxWrites
  /\ writes' = writes + 1
  /\ tmp' = [tmp EXCEPT ![p].data = writes']
  /\ pc' = [pc EXCEPT ![p] = "written"]
  /\ UNCHANGED <<kind, locking, mode, file, fallback>>

\* Mutant: every file keeps its mode.
AppliedModeKept(old) == old

AppliedMode(old) == IF policy = "Private" THEN old \cap {"owner"} ELSE old

ApplyMode(p) ==
  /\ pc[p] = "written"
  /\ tmp' = [tmp EXCEPT ![p].mode = AppliedMode(mode[p])]
  /\ pc' = [pc EXCEPT ![p] = "moded"]
  /\ UNCHANGED <<kind, locking, mode, disk>>

\* Mutant: the data are left to the operating system.
SyncedLater(t) == t

Synced(t) == [t EXCEPT !.synced = TRUE]

SyncTmp(p) ==
  /\ pc[p] = "moded"
  /\ tmp' = [tmp EXCEPT ![p] = Synced(@)]
  /\ pc' = [pc EXCEPT ![p] = "synced"]
  /\ UNCHANGED <<kind, locking, mode, disk>>

Persist(p) ==
  /\ pc[p] = "synced"
  /\ file' = tmp[p]
  /\ fallback' = fallback \cup {file'}
  /\ tmp' = [tmp EXCEPT ![p] = Absent]
  /\ pc' = [pc EXCEPT ![p] = "renamed"]
  /\ UNCHANGED <<kind, locking, mode, writes>>

\* A failure to sync the directory is not an error.
SyncDir(p) ==
  /\ pc[p] = "renamed"
  /\ fallback' \in {fallback, {file}}
  /\ pc' = [pc EXCEPT ![p] = "done"]
  /\ UNCHANGED <<kind, locking, tmp, mode, file, writes>>

\* Mutant: a write that fails leaves its temp file behind.
DroppedNever(p) == tmp' = tmp

Dropped(p) == tmp' = [tmp EXCEPT ![p] = Absent]

\* A step of the write fails: nothing has changed but the temp file, which goes.
WriteFails(p) ==
  /\ pc[p] \in {"open"} \cup Writing
  /\ Dropped(p)
  /\ pc' = [pc EXCEPT ![p] = "done"]
  /\ UNCHANGED <<kind, locking, mode, disk>>

-----------------------------------------------------------------------------
\* Mutant: the lock file goes with the file it guards.
UnlinkedToo == lockfile' = 0

Unlinked == lockfile' = lockfile

\* SsoCache::delete: the token goes, its lock file stays.
Remove(p) ==
  /\ pc[p] = "open"
  /\ guarded
  /\ file' = Absent
  /\ fallback' = fallback \cup {Absent}
  /\ Unlinked
  /\ pc' = [pc EXCEPT ![p] = "done"]
  /\ UNCHANGED <<kind, handle, owns, opened, tmp, mode, writes>>

-----------------------------------------------------------------------------
\* The process dies; its temp file is litter that nobody opens.
Die(p) ==
  /\ pc[p] # "idle"
  /\ Release(p)
  /\ tmp' = [tmp EXCEPT ![p] = Absent]
  /\ UNCHANGED <<kind, mode, disk>>

AfterLoss(f) ==
  IF f = Absent THEN Absent
  ELSE [f EXCEPT !.data = IF f.synced THEN f.data ELSE Torn]

\* The machine stops.  What is left is what the disk says, and the name of the
\* lock file may not be on it.
PowerLoss ==
  /\ pc' = [p \in Procs |-> "idle"]
  /\ handle' = [p \in Procs |-> 0]
  /\ owns' = [p \in Procs |-> FALSE]
  /\ tmp' = [p \in Procs |-> Absent]
  /\ lockfile' \in {0, lockfile}
  /\ file' \in {AfterLoss(f) : f \in fallback}
  /\ fallback' = {file'}
  /\ UNCHANGED <<kind, opened, mode, writes>>

-----------------------------------------------------------------------------
Step(p) ==
  \/ OpenLock(p) \/ TryLock(p) \/ LockTimeout(p) \/ Unlock(p) \/ Start(p)
  \/ MakeTmp(p) \/ WriteTmp(p) \/ ApplyMode(p) \/ SyncTmp(p) \/ Persist(p)
  \/ SyncDir(p) \/ WriteFails(p) \/ Remove(p) \/ Die(p)

Next == PowerLoss \/ \E p \in Procs : Step(p)

Spec == Init /\ [][Next]_vars

-----------------------------------------------------------------------------
TypeOK ==
  /\ guarded \in BOOLEAN
  /\ policy \in {"Private", "Keep"}
  /\ pc \in [Procs -> PC]
  /\ handle \in [Procs -> 0 .. opened]
  /\ owns \in [Procs -> BOOLEAN]
  /\ tmp \in [Procs -> {Absent} \cup File]
  /\ mode \in [Procs -> Mode]
  /\ opened \in Nat
  /\ lockfile \in 0 .. opened
  /\ file \in {Absent} \cup File
  /\ fallback \in SUBSET ({Absent} \cup File)
  /\ writes \in Nat
  /\ \A p \in Procs : tmp[p] # Absent <=> pc[p] \in Writing

\* While the writers of a file take its lock, one process at a time is between
\* the lock and its release, however many waited on the file that a sign-out
\* removed (token.rs:174-176, fsx.rs:190).
Exclusive ==
  guarded => \A p, q \in Procs :
               pc[p] \notin {"idle", "locking"} /\ pc[q] \notin {"idle", "locking"}
                 => p = q

\* A secret that gac writes is for the user alone, in the temp file and in the
\* target, whoever could read the file it replaces (fsx.rs:147).
SecretStaysPrivate ==
  policy = "Private" =>
    /\ \A p \in Procs : tmp[p] # Absent => "others" \notin tmp[p].mode
    /\ file # Absent /\ file.data # 0 => "others" \notin file.mode

-----------------------------------------------------------------------------
ContentOf(f) == IF f = Absent THEN Absent ELSE f.data

Ledger == INSTANCE FileLedger
            WITH Contents <- Nat \cup {Absent},
                 content <- ContentOf(file),
                 fallback <- {ContentOf(AfterLoss(f)) : f \in fallback}

\* Readers find whole contents only, and a loss of power takes back no content
\* whose directory was synced (fsx.rs:115-139).
ImplementsLedger == Ledger!Spec

=============================================================================
