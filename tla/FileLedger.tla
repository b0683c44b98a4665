------------------------------ MODULE FileLedger ------------------------------
(***************************************************************************)
(* What `write_atomic` promises of a file: whoever looks at it finds a     *)
(* content somebody wrote, whole, and a loss of power takes it back at     *)
(* most to a content it had since its directory was last synced.           *)
(***************************************************************************)
CONSTANT Contents

VARIABLES
  content,  \* what a reader finds
  fallback  \* what a loss of power may leave

Init == content \in Contents /\ fallback = {content}

Put == content' \in Contents /\ fallback' = fallback \cup {content'}

Settle == content' = content /\ fallback' = {content}

PowerLoss == content' \in fallback /\ fallback' = {content'}

Next == Put \/ Settle \/ PowerLoss

Spec == Init /\ [][Next]_<<content, fallback>>

=============================================================================
