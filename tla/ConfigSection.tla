----------------------------- MODULE ConfigSection -----------------------------
(***************************************************************************)
(* The lines of one section of the AWS config file below its header, and   *)
(* the edits gac makes to them (src/aws_files/section.rs).                 *)
(*                                                                         *)
(* A line is its key and the words of its value.  A line that continues    *)
(* the value before it has the key Continued; a comment or a blank line    *)
(* has a key nobody asks for.  How a line is padded is left out.           *)
(***************************************************************************)
EXTENDS Integers, Sequences, SequencesExt

CONSTANT Continued  \* stands for the indentation of a continuation line

KeyLine == Seq(STRING) \ {<<>>}

Assigned(key, value) == <<key>> \o value

Positions(keys, key) == {i \in DOMAIN keys : keys[i][1] = key}

Has(keys, key) == Positions(keys, key) # {}

Position(keys, key) ==
  CHOOSE i \in Positions(keys, key) : \A j \in Positions(keys, key) : i <= j

\* The last line of the value that starts at line i.
ValueEnd(keys, i) ==
  CHOOSE j \in i .. Len(keys) :
    /\ \A x \in i + 1 .. j : keys[x][1] = Continued
    /\ j < Len(keys) => keys[j + 1][1] # Continued

\* Section::get: the words on the first line that has the key.
Get(keys, key) ==
  IF Has(keys, key) THEN Tail(keys[Position(keys, key)]) ELSE <<>>

\* Where Section::set puts a key that is not there: below the last value of
\* the `after` keys, or right below the header.
Anchor(keys, after) ==
  LET ends == {ValueEnd(keys, i) : i \in {j \in DOMAIN keys : keys[j][1] \in after}}
  IN IF ends = {} THEN 0 ELSE CHOOSE i \in ends : \A j \in ends : j <= i

SetKey(keys, key, value, after) ==
  IF Has(keys, key)
  THEN [keys EXCEPT ![Position(keys, key)] = Assigned(key, value)]
  ELSE SubSeq(keys, 1, Anchor(keys, after)) \o <<Assigned(key, value)>>
         \o SubSeq(keys, Anchor(keys, after) + 1, Len(keys))

RemoveKey(keys, key) ==
  IF Has(keys, key)
  THEN LET first == Position(keys, key)
       IN SubSeq(keys, 1, first - 1)
            \o SubSeq(keys, ValueEnd(keys, first) + 1, Len(keys))
  ELSE keys

\* What the SDKs read: the last line that has the key, and what continues it.
Value(keys, key) ==
  IF Has(keys, key)
  THEN LET last == CHOOSE i \in Positions(keys, key) :
                     \A j \in Positions(keys, key) : j <= i
       IN Tail(FlattenSeq([x \in 1 .. ValueEnd(keys, last) - last + 1 |->
                             IF x = 1 THEN keys[last]
                             ELSE Tail(keys[last + x - 1])]))
  ELSE <<>>

-----------------------------------------------------------------------------
(***************************************************************************)
(* What an edit must leave as it is.                                       *)
(***************************************************************************)
\* The elements at some places, in order.
LinesAt(s, places) ==
  FlattenSeq([i \in DOMAIN s |-> IF i \in places THEN <<s[i]>> ELSE <<>>])

\* The lines of the values of all keys but some.
KeysBut(keys, dropped) ==
  LET others == {i \in DOMAIN keys : keys[i][1] \notin dropped \cup {Continued}}
  IN LinesAt(keys, UNION {i .. ValueEnd(keys, i) : i \in others})

=============================================================================
