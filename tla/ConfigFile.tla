------------------------------ MODULE ConfigFile ------------------------------
(***************************************************************************)
(* Concurrent edits of ~/.aws/config.  Each gac process reads the file,    *)
(* works on what it read while it waits for the portal and for answers to  *)
(* its prompts, and writes one new text through `write_config`             *)
(* (src/cli/context.rs): under config.lock, and only if the file still     *)
(* reads as it did.  Users and other tools write the file without the      *)
(* lock.                                                                   *)
(***************************************************************************)
EXTENDS ConfigEdits

CONSTANTS
  Procs,        \* gac processes
  Nobody,       \* no process holds the lock
  Commands,     \* the commands they run
  EditLines,    \* the lines users put in
  Initial,      \* the texts the file may have at first
  EditorRaces,  \* whether a user may save between gac's check and its write
  MaxEdits      \* bound on the users' edits

ASSUME ProcAssumption == Nobody \notin Procs

ASSUME CommandAssumption == \A c \in Commands : IsCommand(c)

ASSUME RaceAssumption == EditorRaces \in BOOLEAN

VARIABLES
  text,     \* the config file
  lock,     \* the process that holds config.lock
  pc,       \* where each process is in its command
  seen,     \* the text its command read
  updated,  \* the text its command wants to write
  edits     \* how often users edited the file

vars == <<text, lock, pc, seen, updated, edits>>

Stages == {"idle", "working", "queued", "holding", "writing"}

Init ==
  /\ text \in Initial
  /\ lock = Nobody
  /\ pc = [p \in Procs |-> "idle"]
  /\ seen = [p \in Procs |-> Empty]
  /\ updated = [p \in Procs |-> Empty]
  /\ edits = 0

Go(p, stage) == pc' = [pc EXCEPT ![p] = stage]

\* The command is over, and with it its hold on the lock.
Finish(p) ==
  /\ Go(p, "idle")
  /\ seen' = [seen EXCEPT ![p] = Empty]
  /\ updated' = [updated EXCEPT ![p] = Empty]
  /\ lock' = IF lock = p THEN Nobody ELSE lock

\* ctx.files(): the text everything else is computed from.
Load(p) ==
  /\ pc[p] = "idle"
  /\ Go(p, "working")
  /\ seen' = [seen EXCEPT ![p] = text]
  /\ UNCHANGED <<text, lock, updated, edits>>

\* The portal and the user answered: the command knows what to write, or that
\* there is nothing to write.
Decide(p) ==
  /\ pc[p] = "working"
  /\ \E c \in Commands :
       LET new == Outcome(seen[p], c)
       IN IF new = seen[p]
          THEN Finish(p)
          ELSE /\ Go(p, "queued")
               /\ updated' = [updated EXCEPT ![p] = new]
               /\ UNCHANGED <<lock, seen>>
  /\ UNCHANGED <<text, edits>>

\* Mutant: the lock does not exclude.
LockFreeAlways == TRUE

LockFree == lock = Nobody

Acquire(p) ==
  /\ pc[p] = "queued"
  /\ LockFree
  /\ lock' = p
  /\ Go(p, "holding")
  /\ UNCHANGED <<text, seen, updated, edits>>

\* Mutant: a waiter polls the lock for ever.
LockTimeoutNever(p) == FALSE /\ UNCHANGED vars

LockTimeout(p) ==
  /\ pc[p] = "queued"
  /\ ~LockFree
  /\ Finish(p)
  /\ UNCHANGED <<text, edits>>

\* Mutant: the file is not read again under the lock.
StillReadsAnything(p) == TRUE

StillReads(p) == text = seen[p]

Compare(p) ==
  /\ pc[p] = "holding"
  /\ IF StillReads(p)
     THEN Go(p, "writing") /\ UNCHANGED <<lock, seen, updated>>
     ELSE Finish(p)
  /\ UNCHANGED <<text, edits>>

\* write_atomic renames the new text over the old one.
Replace(p) ==
  /\ pc[p] = "writing"
  /\ text' = updated[p]
  /\ Finish(p)
  /\ UNCHANGED edits

\* write_atomic fails and leaves the file as it was.
WriteFails(p) ==
  /\ pc[p] = "writing"
  /\ Finish(p)
  /\ UNCHANGED <<text, edits>>

\* Ctrl-C, or the process is killed.
Interrupt(p) ==
  /\ pc[p] # "idle"
  /\ Finish(p)
  /\ UNCHANGED <<text, edits>>

\* A user or another tool saves an edit of the current text.
Edit ==
  /\ edits < MaxEdits
  /\ EditorRaces \/ \A p \in Procs : pc[p] # "writing"
  /\ text' \in Edits(text, EditLines)
  /\ edits' = edits + 1
  /\ UNCHANGED <<lock, pc, seen, updated>>

Next ==
  \/ \E p \in Procs :
       \/ Load(p) \/ Decide(p)
       \/ Acquire(p) \/ LockTimeout(p)
       \/ Compare(p) \/ Replace(p) \/ WriteFails(p)
       \/ Interrupt(p)
  \/ Edit

\* The steps that wait for nobody: `acquire` polls until its deadline, and what
\* follows does not await.  The portal and the user owe no answer.
Fairness ==
  \A p \in Procs : /\ WF_vars(Acquire(p) \/ LockTimeout(p))
                   /\ WF_vars(Compare(p))
                   /\ WF_vars(Replace(p) \/ WriteFails(p))

Spec == Init /\ [][Next]_vars

FairSpec == Spec /\ Fairness

-----------------------------------------------------------------------------
TypeOK ==
  /\ text \in Text
  /\ lock \in Procs \cup {Nobody}
  /\ pc \in [Procs -> Stages]
  /\ seen \in [Procs -> Text]
  /\ updated \in [Procs -> Text]
  /\ edits \in 0 .. MaxEdits

\* Only one process is between the lock and the rename (context.rs:91).
MutualExclusion ==
  \A p \in Procs : pc[p] \in {"holding", "writing"} => lock = p

\* A process about to write has checked the text it is about to replace, and no
\* other gac process changed it since (context.rs:92-100).
WriterIsCurrent == \A p \in Procs : pc[p] = "writing" => text = seen[p]

\* Every change of the file is one command's edit of the text that was there, or
\* a user's edit of it: nothing that was written is undone by a write that did
\* not know of it.
Ledger == INSTANCE ConfigLedger

ImplementsLedger == Ledger!Spec

\* A command that got as far as the lock ends (context.rs:91, 30 s).
CommandsEnd ==
  \A p \in Procs : pc[p] # "working" /\ pc[p] # "idle" ~> pc[p] = "idle"

\* A write replaces only the text it was computed from.  context.rs:87-88 says
\* that a concurrent edit is never overwritten; an edit that is saved after the
\* comparison and before the rename is.
NoEditOverwritten ==
  [][\A p \in Procs : Replace(p) => text = seen[p]]_vars

=============================================================================
