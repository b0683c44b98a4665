----------------------------- MODULE ConfigLedger -----------------------------
(***************************************************************************)
(* What the commands promise of the config file: each of them edits the    *)
(* text in one step, whatever else goes on, and everything written to the  *)
(* file by anyone else stays an input of the next step.  The credentials   *)
(* file is not part of the promise: a command may go by an older copy.     *)
(***************************************************************************)
CONSTANTS
  Commands,       \* the commands that are run
  Outcome(_, _),  \* what a command makes of a text
  EditLines,      \* the lines users put in
  Edits(_, _),    \* what users make of a text
  Initial         \* the texts the file may have at first

VARIABLES text

Init == text \in Initial

Run == \E c \in Commands : text' = Outcome(text, c)

Edit == text' \in Edits(text, EditLines)

Next == Run \/ Edit

Spec == Init /\ [][Next]_text

=============================================================================
