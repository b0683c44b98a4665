------------------------------ MODULE ConfigText ------------------------------
(***************************************************************************)
(* The text of the AWS config file and what the commands make of it: the   *)
(* managed blocks (src/aws_files/managed_block.rs), the default block      *)
(* (src/aws_files/default_block.rs), and the new text that `gac sync`,     *)
(* `setup`, `select` and `doctor --fix` compute from the text they read.   *)
(*                                                                         *)
(* A text is a sequence of lines, the last of which may lack its line      *)
(* ending.  A section is one line: its header with the lines below it      *)
(* (ConfigSection).  A BEGIN line has the block's settings in the same     *)
(* form.  The NOTICE line of a block belongs to its BEGIN line, and the    *)
(* blank lines that separate sections in a block are left out; both are    *)
(* only layout.                                                            *)
(***************************************************************************)
EXTENDS ConfigSection, FiniteSets

CONSTANTS
  Sessions,  \* the names sessions can have
  Default,   \* the name of the default profile
  None,      \* no name
  Garbled    \* the name on a marker, or a value, that does not parse

ASSUME NameAssumption ==
  /\ IsFiniteSet(Sessions)
  /\ None \notin Sessions
  /\ Garbled \notin Sessions

(***************************************************************************)
(* Lines.  "session" is an [sso-session] section, "profile" a [profile],   *)
(* "default" the [default] section; "open" and "close" mark the default    *)
(* block.                                                                  *)
(***************************************************************************)
Line ==
  [k : {"begin", "end"}, of : Sessions \cup {Garbled}, keys : Seq(KeyLine)]
    \cup [k : {"session"}, of : Sessions, keys : Seq(KeyLine)]
    \cup [k : {"profile"}, of : STRING, keys : Seq(KeyLine)]
    \cup [k : {"default", "open", "close", "comment", "blank"}, of : {None},
          keys : Seq(KeyLine)]

Text == [lines : Seq(Line), ended : BOOLEAN]

Section(kind, name, keys) == [k |-> kind, of |-> name, keys |-> keys]
Marked(kind, name) == Section(kind, name, <<>>)
Begin(s, settings) == Section("begin", s, settings)
End(s) == Marked("end", s)
Blank == Marked("blank", None)

Whole(ls) == [lines |-> ls, ended |-> TRUE]
WithLines(t, ls) == [lines |-> ls, ended |-> t.ended]
WithKeys(line, keys) == Section(line.k, line.of, keys)
Empty == Whole(<<>>)

Defines(line, kinds, name) == line.k \in kinds /\ line.of = name

At(t, kinds, name) == {i \in DOMAIN t.lines : Defines(t.lines[i], kinds, name)}

SessionsIn(t) == {s \in Sessions : At(t, {"session"}, s) # {}}

ProfilesIn(t) ==
  {line.of : line \in {l \in Range(t.lines) : l.k = "profile"}}
    \cup {Default : line \in {l \in Range(t.lines) : l.k = "default"}}

\* The SDKs merge the sections of one name, a later one over an earlier, and
\* prefer [profile default] to [default].
SectionKeys(t, kind, name) ==
  FlattenSeq([i \in DOMAIN t.lines |->
                IF Defines(t.lines[i], {kind}, name) THEN t.lines[i].keys ELSE <<>>])

ProfileKeys(t, n) ==
  IF n = Default /\ At(t, {"profile"}, n) = {}
  THEN SectionKeys(t, "default", None)
  ELSE SectionKeys(t, "profile", n)

-----------------------------------------------------------------------------
(***************************************************************************)
(* Bytes.  A line without its ending runs into the text put after it.      *)
(***************************************************************************)
Merged(line) ==
  CASE line.k \in {"begin", "end"} -> Marked(line.k, Garbled)
    [] line.k \in {"session", "profile", "default"} /\ line.keys # <<>> ->
         WithKeys(line, Append(Front(line.keys), <<Head(Last(line.keys)), Garbled>>))
    [] OTHER -> Marked("comment", None)

Join(a, b) ==
  CASE a.lines = <<>> -> b
    [] b.lines = <<>> -> a
    [] a.lines # <<>> /\ b.lines # <<>> ->
         [lines |-> IF a.ended
                    THEN a.lines \o b.lines
                    ELSE Front(a.lines) \o <<Merged(Last(a.lines))>>
                           \o Tail(b.lines),
          ended |-> b.ended]

Slice(t, first, last) ==
  [lines |-> SubSeq(t.lines, first, last),
   ended |-> last < first \/ last < Len(t.lines) \/ t.ended]

Before(t, range) == Slice(t, 1, range.first - 1)
After(t, range) == Slice(t, range.last + 1, Len(t.lines))

Without(t, range) == Join(Before(t, range), After(t, range))

Splice(t, range, new) == Join(Join(Before(t, range), new), After(t, range))

\* Mutant: the last line of the file is taken to be ended.
SeparatedUnended(t) == IF t.lines = <<>> THEN t ELSE Join(t, Whole(<<Blank>>))

\* What goes between the user's last line and the text appended after it.
Separated(t) ==
  LET ended == Whole(t.lines)
  IN IF t.lines = <<>> \/ Last(t.lines).k = "blank" THEN ended
     ELSE Join(ended, Whole(<<Blank>>))

AppendText(t, new) == Join(Separated(t), new)

-----------------------------------------------------------------------------
(***************************************************************************)
(* `scan`: the managed blocks, in order, or that the markers are broken.   *)
(***************************************************************************)
NoBlock == [of |-> None, first |-> 0]

\* Mutant: a session may have two blocks.
OpensSecondBlock(scan, line) == scan.open = NoBlock /\ line.of # Garbled

OpensBlock(scan, line) ==
  /\ scan.open = NoBlock
  /\ line.of # Garbled
  /\ \A i \in DOMAIN scan.blocks : scan.blocks[i].of # line.of

ClosesBlock(scan, line) ==
  /\ scan.open # NoBlock
  /\ scan.open.of = line.of

ScanLine(scan, line) ==
  LET here == scan.read + 1
      next == [scan EXCEPT !.read = here]
  IN CASE ~scan.ok -> scan
       [] scan.ok /\ line.k = "begin" ->
            IF OpensBlock(scan, line)
            THEN [next EXCEPT !.open = [of |-> line.of, first |-> here]]
            ELSE [next EXCEPT !.ok = FALSE]
       [] scan.ok /\ line.k = "end" ->
            IF ClosesBlock(scan, line)
            THEN [next EXCEPT !.open = NoBlock,
                              !.blocks = Append(@, [of |-> line.of,
                                                    first |-> scan.open.first,
                                                    last |-> here])]
            ELSE [next EXCEPT !.ok = FALSE]
       [] scan.ok /\ line.k \notin {"begin", "end"} -> next

Scan(t) ==
  LET upto[n \in 0 .. Len(t.lines)] ==
        IF n = 0
        THEN [ok |-> TRUE, read |-> 0, open |-> NoBlock, blocks |-> <<>>]
        ELSE ScanLine(upto[n - 1], t.lines[n])
      done == upto[Len(t.lines)]
  IN [ok |-> done.ok /\ done.open = NoBlock,
      blocks |-> IF done.ok THEN done.blocks ELSE <<>>]

Blocks(t) == LET scan == Scan(t) IN IF scan.ok THEN Range(scan.blocks) ELSE {}

HasBlock(t, s) == \E b \in Blocks(t) : b.of = s
BlockOf(t, s) == CHOOSE b \in Blocks(t) : b.of = s

Rendered(s, settings, body) ==
  Whole(<<Begin(s, settings)>> \o body \o <<End(s)>>)

Upsert(t, s, block) ==
  IF HasBlock(t, s) THEN Splice(t, BlockOf(t, s), block) ELSE AppendText(t, block)

-----------------------------------------------------------------------------
(***************************************************************************)
(* `default_block::find`: where [default] is and who owns it.              *)
(***************************************************************************)
OpensDefault(find, line) == line.k = "open" /\ find.managed = <<>>

FindLine(find, line) ==
  LET here == find.read + 1
      next == [find EXCEPT !.read = here]
      broken == [find EXCEPT !.ok = FALSE]
  IN CASE ~find.ok -> find
       [] find.ok /\ find.open # 0 ->
            CASE find.open = here - 1 /\ line.k # "default" -> broken
              [] find.open # here - 1 /\ line.k = "close" ->
                   [next EXCEPT !.open = 0,
                                !.managed = <<[first |-> find.open,
                                               last |-> here]>>]
              [] OTHER -> next
       [] find.ok /\ find.open = 0 ->
            CASE OpensDefault(find, line) -> [next EXCEPT !.open = here]
              [] line.k = "default" ->
                   IF find.hand = <<>>
                   THEN [next EXCEPT !.hand = <<[first |-> here,
                                                 last |-> here]>>]
                   ELSE broken
              [] \/ line.k = "close"
                 \/ line.k = "open" /\ ~OpensDefault(find, line)
                 \/ Defines(line, {"profile"}, Default) -> broken
              [] OTHER -> next

\* Mutant: the END marker may be missing.
OneFoundUnclosed(find) == find.ok /\ (find.managed = <<>> \/ find.hand = <<>>)

OneFound(find) ==
  find.ok /\ find.open = 0 /\ (find.managed = <<>> \/ find.hand = <<>>)

FindDefault(t) ==
  LET upto[n \in 0 .. Len(t.lines)] ==
        IF n = 0
        THEN [ok |-> TRUE, read |-> 0, open |-> 0, managed |-> <<>>,
              hand |-> <<>>]
        ELSE FindLine(upto[n - 1], t.lines[n])
      done == upto[Len(t.lines)]
  IN [ok |-> OneFound(done), managed |-> done.managed, hand |-> done.hand]

\* The lines of [default]: the body of the default block, or the section.
DefaultLines(t, found) ==
  IF found.managed # <<>>
  THEN SubSeq(t.lines, found.managed[1].first + 1, found.managed[1].last - 1)
  ELSE IF found.hand # <<>> THEN <<t.lines[found.hand[1].first]>>
  ELSE <<Marked("default", None)>>

\* In the default block every line below the header is taken for the section's,
\* another section's lines included: those of them that have one of the keys.
Holding(section, wanted) ==
  {i \in DOMAIN section :
     /\ section[i].k \in {"default", "profile", "session"}
     /\ \E key \in wanted : Has(section[i].keys, key)}

GetIn(section, key) ==
  IF Holding(section, {key}) = {} THEN <<>>
  ELSE Get(section[Min(Holding(section, {key}))].keys, key)

RenderedDefault(section) ==
  Whole(<<Marked("open", None)>> \o section \o <<Marked("close", None)>>)

=============================================================================
