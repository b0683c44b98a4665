--------------------------- MODULE ConfigFileProofs ---------------------------
(***************************************************************************)
(* Theorems about ConfigFile, for every set of processes, every set of     *)
(* commands and whatever those commands make of a text: no proof looks     *)
(* into Outcome or Edits.                                                  *)
(***************************************************************************)
EXTENDS ConfigFile, TLAPS

USE ProcAssumption

Locked == {"holding", "writing"}

\* What the lock and the stages are; the texts need no type.
ProtocolTyped ==
  /\ lock \in Procs \cup {Nobody}
  /\ pc \in [Procs -> Stages]
  /\ seen = [p \in Procs |-> seen[p]]
  /\ updated = [p \in Procs |-> updated[p]]

\* The text a process waits to write is what one command makes of the text it
\* read.
UpdateIsOwn ==
  \A p \in Procs : pc[p] \in {"queued"} \cup Locked =>
    \E c \in Commands : updated[p] = Outcome(seen[p], c)

Inv == ProtocolTyped /\ MutualExclusion /\ UpdateIsOwn

-----------------------------------------------------------------------------
(***************************************************************************)
(* The protocol                                                            *)
(***************************************************************************)
LEMMA InitInv == Init => Inv
BY DEF Init, Inv, ProtocolTyped, MutualExclusion, UpdateIsOwn, Stages, Locked

\* Ending a command disturbs no other process.
LEMMA FinishInv ==
  ASSUME Inv, NEW p \in Procs, Finish(p)
  PROVE  Inv'
<1> USE DEF Inv, ProtocolTyped, Stages, Locked
<1>1. /\ pc' \in [Procs -> Stages]
      /\ pc'[p] = "idle"
      /\ \A q \in Procs \ {p} : /\ pc'[q] = pc[q]
                                /\ seen'[q] = seen[q] /\ updated'[q] = updated[q]
  BY DEF Finish, Go
<1>2. ProtocolTyped'
  BY <1>1 DEF Finish
<1>3. MutualExclusion'
  BY <1>1 DEF Finish, MutualExclusion
<1>4. UpdateIsOwn'
  BY <1>1 DEF UpdateIsOwn
<1> QED
  BY <1>2, <1>3, <1>4

LEMMA NextInv == Inv /\ [Next]_vars => Inv'
<1> SUFFICES ASSUME Inv, [Next]_vars PROVE Inv'
  OBVIOUS
<1> USE DEF Inv, ProtocolTyped, Stages, Locked
<1>1. ASSUME NEW p \in Procs, Load(p) PROVE Inv'
  <2>1. /\ pc'[p] = "working"
        /\ \A q \in Procs \ {p} : pc'[q] = pc[q] /\ seen'[q] = seen[q]
    BY <1>1 DEF Load, Go
  <2> QED
    BY <1>1, <2>1 DEF Load, Go, MutualExclusion, UpdateIsOwn
<1>2. ASSUME NEW p \in Procs, Decide(p) PROVE Inv'
  <2>1. PICK c \in Commands :
          LET new == Outcome(seen[p], c)
          IN IF new = seen[p]
             THEN Finish(p)
             ELSE /\ Go(p, "queued")
                  /\ updated' = [updated EXCEPT ![p] = new]
                  /\ UNCHANGED <<lock, seen>>
    BY <1>2 DEF Decide
  <2>2. CASE Finish(p)
    BY <2>2, FinishInv
  <2>3. CASE /\ Go(p, "queued")
             /\ updated' = [updated EXCEPT ![p] = Outcome(seen[p], c)]
             /\ UNCHANGED <<lock, seen>>
    <3>1. /\ pc'[p] = "queued" /\ updated'[p] = Outcome(seen'[p], c)
          /\ \A q \in Procs \ {p} : pc'[q] = pc[q] /\ updated'[q] = updated[q]
      BY <2>3 DEF Go
    <3>2. ProtocolTyped'
      BY <2>3 DEF Go
    <3>3. MutualExclusion'
      BY <2>3, <3>1 DEF MutualExclusion
    <3>4. UpdateIsOwn'
      BY <2>3, <3>1 DEF UpdateIsOwn
    <3> QED
      BY <3>2, <3>3, <3>4
  <2> QED
    BY <2>1, <2>2, <2>3
<1>3. ASSUME NEW p \in Procs, Acquire(p) PROVE Inv'
  <2>1. /\ pc[p] = "queued" /\ pc'[p] = "holding" /\ lock' = p
        /\ \A q \in Procs \ {p} : pc'[q] = pc[q]
        /\ UNCHANGED <<seen, updated>>
    BY <1>3 DEF Acquire, Go
  <2>2. \A q \in Procs : pc[q] \notin Locked
    BY <1>3 DEF Acquire, LockFree, MutualExclusion
  <2>3. ProtocolTyped'
    BY <1>3 DEF Acquire, Go
  <2>4. MutualExclusion' /\ UpdateIsOwn'
    BY <2>1, <2>2 DEF MutualExclusion, UpdateIsOwn
  <2> QED
    BY <2>3, <2>4
<1>4. ASSUME NEW p \in Procs, Compare(p) PROVE Inv'
  <2>1. CASE Finish(p)
    BY <2>1, FinishInv
  <2>2. CASE Go(p, "writing") /\ UNCHANGED <<lock, seen, updated>>
    <3>1. /\ pc[p] = "holding" /\ pc'[p] = "writing"
          /\ \A q \in Procs \ {p} : pc'[q] = pc[q]
      BY <1>4, <2>2 DEF Compare, Go
    <3>2. ProtocolTyped'
      BY <2>2 DEF Go
    <3>3. MutualExclusion' /\ UpdateIsOwn'
      BY <2>2, <3>1 DEF MutualExclusion, UpdateIsOwn
    <3> QED
      BY <3>2, <3>3
  <2> QED
    BY <1>4, <2>1, <2>2 DEF Compare
<1>5. ASSUME NEW p \in Procs,
             LockTimeout(p) \/ Replace(p) \/ WriteFails(p) \/ Interrupt(p)
      PROVE  Inv'
  BY <1>5, FinishInv DEF LockTimeout, Replace, WriteFails, Interrupt
<1>6. CASE Edit \/ UNCHANGED vars
  BY <1>6 DEF Edit, vars, MutualExclusion, UpdateIsOwn
<1> QED
  BY <1>1, <1>2, <1>3, <1>4, <1>5, <1>6 DEF Next

\* At most one command holds config.lock, and what it is about to write is one of
\* the commands' outcomes on the text it read (context.rs:86-103).
THEOREM Invariant == Spec => []Inv
BY InitInv, NextInv, PTL DEF Spec

\* Only one process is between the lock and the rename (context.rs:91).
THEOREM Exclusive == Spec => []MutualExclusion
BY Invariant, PTL DEF Inv

-----------------------------------------------------------------------------
(***************************************************************************)
(* The comparison under the lock                                           *)
(***************************************************************************)
LEMMA NextCurrent ==
  ASSUME ~EditorRaces
  PROVE  Inv /\ WriterIsCurrent /\ [Next]_vars => WriterIsCurrent'
<1> SUFFICES ASSUME Inv, WriterIsCurrent, [Next]_vars PROVE WriterIsCurrent'
  OBVIOUS
<1> USE DEF Inv, ProtocolTyped, WriterIsCurrent, Stages
<1>1. ASSUME NEW p \in Procs, Finish(p), UNCHANGED text PROVE WriterIsCurrent'
  BY <1>1 DEF Finish, Go
<1>2. ASSUME NEW p \in Procs, Load(p) \/ Decide(p) \/ Acquire(p)
      PROVE  WriterIsCurrent'
  BY <1>1, <1>2 DEF Load, Decide, Acquire, Go
<1>3. ASSUME NEW p \in Procs, Compare(p) PROVE WriterIsCurrent'
  BY <1>1, <1>3 DEF Compare, StillReads, Go
<1>4. ASSUME NEW p \in Procs, Replace(p) PROVE WriterIsCurrent'
  <2>1. \A q \in Procs : pc'[q] # "writing"
    BY <1>4 DEF Replace, Finish, Go, MutualExclusion
  <2> QED
    BY <2>1
<1>5. ASSUME NEW p \in Procs, LockTimeout(p) \/ WriteFails(p) \/ Interrupt(p)
      PROVE  WriterIsCurrent'
  BY <1>1, <1>5 DEF LockTimeout, WriteFails, Interrupt
<1>6. CASE Edit \/ UNCHANGED vars
  BY <1>6 DEF Edit, vars
<1> QED
  BY <1>2, <1>3, <1>4, <1>5, <1>6 DEF Next

\* What a process is about to replace is the text its update was computed from
\* (context.rs:92-100), as long as no editor saves in that moment.
THEOREM WritersAreCurrent ==
  ASSUME ~EditorRaces PROVE Spec => []WriterIsCurrent
<1>1. Init => WriterIsCurrent
  BY DEF Init, WriterIsCurrent
<1> QED
  BY <1>1, NextCurrent, Invariant, PTL DEF Spec

\* Every write of the file is one command's edit of the text that was there.
THEOREM RefinesLedger ==
  ASSUME ~EditorRaces PROVE Spec => ImplementsLedger
<1>1. Init => Ledger!Init
  BY DEF Init, Ledger!Init
<1>2. Inv /\ WriterIsCurrent /\ [Next]_vars => [Ledger!Next]_text
  <2> SUFFICES ASSUME Inv, WriterIsCurrent, [Next]_vars
               PROVE  Ledger!Next \/ UNCHANGED text
    OBVIOUS
  <2>1. ASSUME NEW p \in Procs, Replace(p) PROVE Ledger!Run
    <3>1. pc[p] = "writing" /\ text = seen[p] /\ text' = updated[p]
      BY <2>1 DEF Replace, WriterIsCurrent
    <3>2. PICK c \in Commands : updated[p] = Outcome(seen[p], c)
      BY <3>1 DEF Inv, UpdateIsOwn, Locked
    <3> QED
      BY <3>1, <3>2 DEF Ledger!Run
  <2>2. CASE Edit
    BY <2>2 DEF Edit, Ledger!Edit, Ledger!Next
  <2>3. ASSUME NEW p \in Procs,
               \/ Load(p) \/ Decide(p) \/ Acquire(p) \/ LockTimeout(p)
               \/ Compare(p) \/ WriteFails(p) \/ Interrupt(p)
        PROVE  UNCHANGED text
    BY <2>3 DEF Load, Decide, Acquire, LockTimeout, Compare, WriteFails, Interrupt
  <2> QED
    BY <2>1, <2>2, <2>3 DEF Next, vars, Ledger!Next
<1> QED
  BY <1>1, <1>2, Invariant, WritersAreCurrent, PTL
     DEF Spec, ImplementsLedger, Ledger!Spec

===============================================================================
