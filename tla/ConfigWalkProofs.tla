---------------------------- MODULE ConfigWalkProofs ----------------------------
(***************************************************************************)
(* The two scanners of the config file, and what the commands do to the    *)
(* markers they look for, to the sessions and to the lines of the user:    *)
(* for every text and every command.                                       *)
(***************************************************************************)
EXTENDS ConfigWalk, ConfigSectionProofs, FiniteSetTheorems

-----------------------------------------------------------------------------
(***************************************************************************)
(* The scanners, line by line.                                             *)
(***************************************************************************)
\* `scan` and `find` read the lines one after the other.
LEMMA ScanReads ==
  ASSUME NEW t, Len(t.lines) \in Nat
  PROVE  LET L == Len(t.lines)
         IN \E r : /\ r[0] = [ok |-> TRUE, read |-> 0, open |-> NoBlock,
                              blocks |-> <<>>]
                   /\ \A n \in 1 .. L : r[n] = ScanLine(r[n - 1], t.lines[n])
                   /\ Scan(t).ok = (r[L].ok /\ r[L].open = NoBlock)
                   /\ Scan(t).blocks = IF r[L].ok THEN r[L].blocks ELSE <<>>
<1> DEFINE L == Len(t.lines)
           start == [ok |-> TRUE, read |-> 0, open |-> NoBlock, blocks |-> <<>>]
           step(g, n) == ScanLine(g[n - 1], t.lines[n])
           body(g, n) == IF n = 0 THEN start ELSE step(g, n)
           upto[n \in 0 .. L] ==
             IF n = 0
             THEN [ok |-> TRUE, read |-> 0, open |-> NoBlock, blocks |-> <<>>]
             ELSE ScanLine(upto[n - 1], t.lines[n])
           good == {m \in 0 .. L : \E g : g = [n \in 0 .. m |-> body(g, n)]}
<1> HIDE DEF start
<1>1. 0 \in good
  <2> DEFINE g == [n \in 0 .. 0 |-> start]
  <2>1. g = [n \in 0 .. 0 |-> body(g, n)]
    OBVIOUS
  <2>2. 0 \in 0 .. L
    OBVIOUS
  <2> HIDE DEF g
  <2> QED
    BY <2>1, <2>2, Zenon
<1>2. ASSUME NEW m \in 1 .. L, m - 1 \in good
      PROVE  m \in good
  <2>1. PICK h : h = [n \in 0 .. m - 1 |-> body(h, n)]
    BY <1>2
  <2> DEFINE g == [n \in 0 .. m |-> IF n = m THEN step(h, m) ELSE h[n]]
  <2>2. ASSUME NEW n \in 0 .. m
        PROVE  g[n] = body(g, n)
    <3>1. n # 0 => n - 1 \in 0 .. m - 1 /\ n - 1 \in 0 .. m /\ n - 1 # m
      OBVIOUS
    <3>2. n # 0 => g[n - 1] = h[n - 1]
      BY <3>1
    <3>3. n # m => n \in 0 .. m - 1 /\ g[n] = h[n] /\ h[n] = body(h, n)
      BY <2>1
    <3>4. n = m => g[n] = step(h, n) /\ n # 0
      OBVIOUS
    <3> HIDE DEF g
    <3> QED
      BY <3>2, <3>3, <3>4
  <2>3. g = [n \in 0 .. m |-> body(g, n)]
    BY <2>2
  <2> HIDE DEF g
  <2> QED
    BY <2>3
<1>3. L \in good
  <2>1. L \in Nat /\ L \in 0 .. L
    OBVIOUS
  <2> HIDE DEF good, L
  <2>2. \A m \in 1 .. L : m - 1 \in good => m \in good
    BY <1>2, Zenon
  <2>3. \A m \in 0 .. L : m \in good
    BY <1>1, <2>1, <2>2, UpTo
  <2> QED
    BY <2>1, <2>3
<1>4. upto = [n \in 0 .. L |-> body(upto, n)]
  BY <1>3 DEF start
<1>5. /\ Scan(t).ok = (upto[L].ok /\ upto[L].open = NoBlock)
      /\ Scan(t).blocks = IF upto[L].ok THEN upto[L].blocks ELSE <<>>
  BY Zenon DEF Scan
<1> HIDE DEF upto
<1>6. upto[0] = start /\ \A n \in 1 .. L : upto[n] = ScanLine(upto[n - 1], t.lines[n])
  BY <1>4
<1> QED
  BY <1>5, <1>6 DEF start

-----------------------------------------------------------------------------
(***************************************************************************)
(* `scan`: what is known when the first n lines are read.                  *)
(***************************************************************************)
BlockAt(t, p) == [of |-> t.lines[p[1]].of, first |-> p[1], last |-> p[2]]

Closed(t, n) == {p \in (1 .. n) \X (1 .. n) : Delimit(t, p[1], p[2])}

OpenAt(t, f) == [of |-> t.lines[f].of, first |-> f]

IsMark(t, x) == t.lines[x].k \in {"begin", "end"}

\* Line f is a BEGIN marker that parses, and no marker follows it up to line n.
Opened(t, n, f) ==
  /\ t.lines[f].k = "begin"
  /\ t.lines[f].of # Garbled
  /\ \A x \in f + 1 .. n : ~IsMark(t, x)

Knows(t, n, r) ==
  /\ r.read = n
  /\ r.blocks \in Seq({BlockAt(t, p) : p \in Closed(t, n)})
  /\ \A p \in Closed(t, n) : BlockAt(t, p) \in Range(r.blocks)
  /\ r.open = NoBlock \/ \E f \in 1 .. n : r.open = OpenAt(t, f) /\ Opened(t, n, f)
  /\ \A i \in 1 .. n :
       t.lines[i].k = "begin" =>
         r.open = OpenAt(t, i) \/ \E j \in 1 .. n : Delimit(t, i, j)
  /\ \A j \in 1 .. n :
       t.lines[j].k = "end" => \E i \in 1 .. n : Delimit(t, i, j)
  /\ \A i, j \in 1 .. n :
       t.lines[i].k = "begin" /\ t.lines[j].k = "begin"
         /\ t.lines[i].of = t.lines[j].of => i = j

ScanState(r) ==
  /\ r = [ok |-> r.ok, read |-> r.read, open |-> r.open, blocks |-> r.blocks]
  /\ r.ok \in BOOLEAN

Scanned(t, n, r) ==
  /\ ScanState(r)
  /\ r.ok => Knows(t, n, r)
  /\ ~r.ok => ~WellNested(t)

\* Delimit, with the lines between its two written as numbers.
LEMMA Delimiting ==
  ASSUME NEW t, IsLines(t),
         NEW i \in 1 .. Len(t.lines), NEW j \in 1 .. Len(t.lines)
  PROVE  Delimit(t, i, j) <=>
           /\ i < j
           /\ t.lines[i].k = "begin" /\ t.lines[j].k = "end"
           /\ t.lines[i].of = t.lines[j].of /\ t.lines[i].of # Garbled
           /\ \A x \in i + 1 .. j - 1 : ~IsMark(t, x)
<1>1. NoMarkBetween(t, i, j) <=> \A x \in i + 1 .. j - 1 : ~IsMark(t, x)
  BY DEF NoMarkBetween, Marks, IsMark, IsLines
<1> QED
  BY <1>1 DEF Delimit

\* What it is for blocks to be well nested, over the numbers of the lines.
LEMMA Nested ==
  ASSUME NEW t, IsLines(t)
  PROVE  WellNested(t) <=>
           LET L == Len(t.lines)
           IN /\ \A i \in 1 .. L : t.lines[i].k = "begin" =>
                   \E j \in 1 .. L : Delimit(t, i, j)
              /\ \A j \in 1 .. L : t.lines[j].k = "end" =>
                   \E i \in 1 .. L : Delimit(t, i, j)
              /\ \A i, j \in 1 .. L :
                   t.lines[i].k = "begin" /\ t.lines[j].k = "begin"
                     /\ t.lines[i].of = t.lines[j].of => i = j
<1>1. /\ Marks(t, {"begin"}) = {i \in 1 .. Len(t.lines) : t.lines[i].k = "begin"}
      /\ Marks(t, {"end"}) = {i \in 1 .. Len(t.lines) : t.lines[i].k = "end"}
  BY DEF Marks, IsLines
<1>2. ASSUME NEW i, NEW j, Delimit(t, i, j)
      PROVE  t.lines[i].k = "begin" /\ t.lines[j].k = "end"
  BY <1>2 DEF Delimit
<1> QED
  BY <1>1, <1>2 DEF WellNested

\* The blocks that end before line h, when line h does not end one.
LEMMA NoneCloses ==
  ASSUME NEW t, IsLines(t), NEW n \in Nat, n + 1 \in 1 .. Len(t.lines),
         t.lines[n + 1].k # "end"
  PROVE  Closed(t, n + 1) = Closed(t, n)
<1>1. ASSUME NEW i \in 1 .. n + 1, NEW j \in 1 .. n + 1, Delimit(t, i, j)
      PROVE  i \in 1 .. n /\ j \in 1 .. n
  <2>1. i < j /\ t.lines[j].k = "end"
    BY <1>1 DEF Delimit
  <2>2. j # n + 1
    BY <2>1
  <2> QED
    BY <2>1, <2>2
<1>2. ASSUME NEW p \in Closed(t, n + 1)
      PROVE  p \in Closed(t, n)
  <2>1. /\ p \in (1 .. n + 1) \X (1 .. n + 1)
        /\ Delimit(t, p[1], p[2])
    BY DEF Closed
  <2>2. p = <<p[1], p[2]>> /\ p[1] \in 1 .. n /\ p[2] \in 1 .. n
    BY <2>1, <1>1
  <2> QED
    BY <2>1, <2>2 DEF Closed
<1>3. ASSUME NEW p \in Closed(t, n)
      PROVE  p \in Closed(t, n + 1)
  <2>1. p \in (1 .. n) \X (1 .. n) /\ Delimit(t, p[1], p[2])
    BY DEF Closed
  <2>2. p \in (1 .. n + 1) \X (1 .. n + 1)
    BY <2>1
  <2> QED
    BY <2>1, <2>2 DEF Closed
<1> QED
  BY <1>2, <1>3

\* When line h ends the block that is open.
LEMMA OneCloses ==
  ASSUME NEW t, IsLines(t), NEW n \in Nat, n + 1 \in 1 .. Len(t.lines),
         NEW f \in 1 .. n, Opened(t, n, f),
         t.lines[n + 1].k = "end", t.lines[n + 1].of = t.lines[f].of
  PROVE  /\ Delimit(t, f, n + 1)
         /\ Closed(t, n + 1) = Closed(t, n) \cup {<<f, n + 1>>}
<1>1. Delimit(t, f, n + 1)
  BY Delimiting DEF Opened
<1>2. ASSUME NEW i \in 1 .. n + 1, NEW j \in 1 .. n + 1, Delimit(t, i, j)
      PROVE  i \in 1 .. n /\ (j \in 1 .. n \/ (i = f /\ j = n + 1))
  <2>1. /\ i < j /\ t.lines[i].k = "begin"
        /\ \A x \in i + 1 .. j - 1 : ~IsMark(t, x)
    BY <1>2, Delimiting, 1 .. n + 1 \subseteq 1 .. Len(t.lines)
  <2>2. i \in 1 .. n
    BY <2>1
  <2>3. ~ (f < i)
    BY <2>1, <2>2 DEF Opened, IsMark
  <2>4. j = n + 1 => ~ (i < f)
    BY <2>1, <2>2 DEF Opened, IsMark
  <2> QED
    BY <2>2, <2>3, <2>4
<1>3. ASSUME NEW p \in Closed(t, n + 1)
      PROVE  p \in Closed(t, n) \cup {<<f, n + 1>>}
  <2>1. /\ p \in (1 .. n + 1) \X (1 .. n + 1)
        /\ Delimit(t, p[1], p[2])
    BY DEF Closed
  <2>2. p = <<p[1], p[2]>> /\ p[1] \in 1 .. n
          /\ (p[2] \in 1 .. n \/ (p[1] = f /\ p[2] = n + 1))
    BY <2>1, <1>2
  <2> QED
    BY <2>1, <2>2 DEF Closed
<1>4. ASSUME NEW p \in Closed(t, n)
      PROVE  p \in Closed(t, n + 1)
  <2>1. p \in (1 .. n) \X (1 .. n) /\ Delimit(t, p[1], p[2])
    BY DEF Closed
  <2>2. p \in (1 .. n + 1) \X (1 .. n + 1)
    BY <2>1
  <2> QED
    BY <2>1, <2>2 DEF Closed
<1>5. <<f, n + 1>> \in Closed(t, n + 1)
  BY <1>1 DEF Closed
<1> QED
  BY <1>1, <1>3, <1>4, <1>5

\* A block that is open began at some line.
LEMMA OpenSomewhere ==
  ASSUME NEW t, NEW n \in Nat, NEW i \in 1 .. n
  PROVE  OpenAt(t, i) # NoBlock
<1>1. OpenAt(t, i).first = i /\ NoBlock.first = 0
  BY DEF OpenAt, NoBlock
<1> QED
  BY <1>1

\* A BEGIN marker opens a block.
LEMMA BeginOpens ==
  ASSUME NEW t, IsLines(t), NEW n \in Nat, n + 1 \in 1 .. Len(t.lines),
         NEW r, ScanState(r), r.ok, Knows(t, n, r),
         t.lines[n + 1].k = "begin", OpensBlock(r, t.lines[n + 1])
  PROVE  Scanned(t, n + 1, ScanLine(r, t.lines[n + 1]))
<1> DEFINE s == ScanLine(r, t.lines[n + 1])
<1>1. s = [ok |-> TRUE, read |-> n + 1, open |-> OpenAt(t, n + 1),
           blocks |-> r.blocks]
  BY DEF ScanLine, ScanState, OpenAt, Knows
<1> HIDE DEF s
<1>2. Closed(t, n + 1) = Closed(t, n)
  BY NoneCloses
<1>3. Opened(t, n + 1, n + 1)
  BY DEF Opened, OpensBlock
<1>4. \A i \in 1 .. n : r.open # OpenAt(t, i)
  BY OpenSomewhere DEF OpensBlock
<1>5. \A i \in 1 .. n + 1 :
        t.lines[i].k = "begin" =>
          s.open = OpenAt(t, i) \/ \E j \in 1 .. n + 1 : Delimit(t, i, j)
  BY <1>4, <1>1 DEF Knows
<1>6. \A j \in 1 .. n + 1 :
        t.lines[j].k = "end" => \E i \in 1 .. n + 1 : Delimit(t, i, j)
  BY DEF Knows
<1>7. ASSUME NEW i \in 1 .. n, t.lines[i].k = "begin"
      PROVE  t.lines[i].of # t.lines[n + 1].of
  <2>1. PICK j \in 1 .. n : Delimit(t, i, j)
    BY <1>4, <1>7 DEF Knows
  <2>2. <<i, j>> \in Closed(t, n)
    BY <2>1 DEF Closed
  <2>3. BlockAt(t, <<i, j>>) \in Range(r.blocks)
    BY <2>2, Zenon DEF Knows
  <2>4. PICK x \in DOMAIN r.blocks : r.blocks[x] = BlockAt(t, <<i, j>>)
    BY <2>3, Zenon DEF Range
  <2> QED
    BY <2>4 DEF OpensBlock, BlockAt
<1>8. \A i, j \in 1 .. n + 1 :
        t.lines[i].k = "begin" /\ t.lines[j].k = "begin"
          /\ t.lines[i].of = t.lines[j].of => i = j
  BY <1>7 DEF Knows
<1>9. n + 1 \in 1 .. n + 1
  OBVIOUS
<1>10. Knows(t, n + 1, s)
  <2>1. s.read = n + 1 /\ s.blocks = r.blocks /\ s.open = OpenAt(t, n + 1)
    BY <1>1
  <2>2. /\ r.blocks \in Seq({BlockAt(t, p) : p \in Closed(t, n)})
        /\ \A p \in Closed(t, n) : BlockAt(t, p) \in Range(r.blocks)
    BY Zenon DEF Knows
  <2> QED
    BY <1>2, <1>3, <1>5, <1>6, <1>8, <1>9, <2>1, <2>2, Zenon DEF Knows
<1> QED
  BY <1>1, <1>10 DEF Scanned, ScanState, s

\* An END marker closes it.
LEMMA EndCloses ==
  ASSUME NEW t, IsLines(t), NEW n \in Nat, n + 1 \in 1 .. Len(t.lines),
         NEW r, ScanState(r), r.ok, Knows(t, n, r),
         t.lines[n + 1].k = "end", ClosesBlock(r, t.lines[n + 1])
  PROVE  Scanned(t, n + 1, ScanLine(r, t.lines[n + 1]))
<1> DEFINE s == ScanLine(r, t.lines[n + 1])
<1>1. PICK f \in 1 .. n : r.open = OpenAt(t, f) /\ Opened(t, n, f)
  BY Zenon DEF Knows, ClosesBlock
<1>2. t.lines[n + 1].of = t.lines[f].of
  BY <1>1 DEF OpenAt, ClosesBlock
<1>3. /\ Delimit(t, f, n + 1)
      /\ Closed(t, n + 1) = Closed(t, n) \cup {<<f, n + 1>>}
  BY <1>1, <1>2, OneCloses
<1> DEFINE new == BlockAt(t, <<f, n + 1>>)
           B(m) == {BlockAt(t, p) : p \in Closed(t, m)}
<1>4. s = [ok |-> TRUE, read |-> n + 1, open |-> NoBlock,
           blocks |-> Append(r.blocks, new)]
  <2>1. new = [of |-> t.lines[n + 1].of, first |-> r.open.first, last |-> n + 1]
    BY <1>1, <1>2 DEF BlockAt, OpenAt
  <2> HIDE DEF new
  <2>2. s = [ok |-> TRUE, read |-> r.read + 1, open |-> NoBlock,
             blocks |-> Append(r.blocks,
                               [of |-> t.lines[n + 1].of,
                                first |-> r.open.first, last |-> r.read + 1])]
    BY DEF ScanLine, ScanState
  <2> QED
    BY <2>1, <2>2 DEF Knows
<1> HIDE DEF s
<1>5. /\ B(n) \subseteq B(n + 1) /\ new \in B(n + 1)
      /\ \A b \in B(n + 1) : b \in B(n) \/ b = new
  BY <1>3
<1>6. r.blocks \in Seq(B(n)) /\ B(n) \subseteq Range(r.blocks)
  BY Zenon DEF Knows
<1>7. /\ s.blocks \in Seq(B(n + 1))
      /\ \A b \in B(n + 1) : b \in Range(s.blocks)
  <2> HIDE DEF B, new
  <2>1. s.blocks = Append(r.blocks, new)
    BY <1>4
  <2>2. r.blocks \in Seq(B(n + 1))
    BY <1>5, <1>6
  <2>3. /\ s.blocks \in Seq(B(n + 1))
        /\ Len(s.blocks) = Len(r.blocks) + 1
        /\ \A x \in 1 .. Len(r.blocks) : s.blocks[x] = r.blocks[x]
        /\ s.blocks[Len(r.blocks) + 1] = new
    BY <1>5, <2>1, <2>2, AppendProperties
  <2>4. new \in Range(s.blocks)
    BY <2>2, <2>3 DEF Range
  <2>5. \A b \in Range(r.blocks) : b \in Range(s.blocks)
    BY <2>2, <2>3, SMTT(30) DEF Range
  <2> QED
    BY <1>5, <1>6, <2>3, <2>4, <2>5, Zenon
<1>8. \A i \in 1 .. n + 1 :
        t.lines[i].k = "begin" => \E j \in 1 .. n + 1 : Delimit(t, i, j)
  <2>1. ASSUME NEW i \in 1 .. n, t.lines[i].k = "begin", r.open = OpenAt(t, i)
        PROVE  i = f
    BY <1>1, <2>1 DEF OpenAt
  <2> QED
    BY <1>3, <2>1 DEF Knows
<1>9. \A j \in 1 .. n + 1 :
        t.lines[j].k = "end" => \E i \in 1 .. n + 1 : Delimit(t, i, j)
  BY <1>3 DEF Knows
<1>10. \A i, j \in 1 .. n + 1 :
         t.lines[i].k = "begin" /\ t.lines[j].k = "begin"
           /\ t.lines[i].of = t.lines[j].of => i = j
  BY DEF Knows
<1>11. Knows(t, n + 1, s)
  <2>1. s.read = n + 1 /\ s.open = NoBlock
    BY <1>4
  <2> QED
    BY <1>7, <1>8, <1>9, <1>10, <2>1, Zenon DEF Knows
<1> QED
  BY <1>4, <1>11 DEF Scanned, ScanState, s

\* A BEGIN marker where none may stand.
LEMMA BeginFails ==
  ASSUME NEW t, IsLines(t), NEW n \in Nat, n + 1 \in 1 .. Len(t.lines),
         NEW r, ScanState(r), r.ok, Knows(t, n, r),
         t.lines[n + 1].k = "begin", ~OpensBlock(r, t.lines[n + 1])
  PROVE  ~WellNested(t)
<1> SUFFICES ASSUME WellNested(t) PROVE FALSE
  OBVIOUS
<1>1. PICK m \in 1 .. Len(t.lines) : Delimit(t, n + 1, m)
  BY Nested
<1>2. t.lines[n + 1].of # Garbled
  BY <1>1 DEF Delimit
<1>3. CASE r.open # NoBlock
  <2>1. PICK f \in 1 .. n : Opened(t, n, f)
    BY <1>3, Zenon DEF Knows
  <2>2. f \in 1 .. Len(t.lines)
    BY DEF IsLines
  <2>3. PICK j \in 1 .. Len(t.lines) : Delimit(t, f, j)
    BY <2>1, <2>2, Nested DEF Opened
  <2>4. /\ f < j /\ t.lines[j].k = "end"
        /\ \A x \in f + 1 .. j - 1 : ~IsMark(t, x)
    BY <2>2, <2>3, Delimiting
  <2>5. j \notin f + 1 .. n /\ j # n + 1 /\ n + 1 \notin f + 1 .. j - 1
    BY <2>1, <2>4 DEF Opened, IsMark
  <2> QED
    BY <2>4, <2>5
<1>4. ASSUME NEW x \in DOMAIN r.blocks, r.blocks[x].of = t.lines[n + 1].of
      PROVE  FALSE
  <2>1. r.blocks[x] \in {BlockAt(t, p) : p \in Closed(t, n)}
    <3>1. r.blocks \in Seq({BlockAt(t, p) : p \in Closed(t, n)})
      BY Zenon DEF Knows
    <3> QED
      BY <3>1
  <2>2. PICK p \in Closed(t, n) : r.blocks[x] = BlockAt(t, p)
    BY <2>1
  <2>3. p[1] \in 1 .. n /\ t.lines[p[1]].k = "begin"
    BY DEF Closed, Delimit
  <2>4. t.lines[p[1]].of = t.lines[n + 1].of
    BY <1>4, <2>2 DEF BlockAt
  <2>5. p[1] = n + 1
    <3>1. p[1] \in 1 .. Len(t.lines)
      BY <2>3 DEF IsLines
    <3>2. \A i, j \in 1 .. Len(t.lines) :
            t.lines[i].k = "begin" /\ t.lines[j].k = "begin"
              /\ t.lines[i].of = t.lines[j].of => i = j
      BY Nested
    <3> QED
      BY <2>3, <2>4, <3>1, <3>2
  <2> QED
    BY <2>3, <2>5
<1> QED
  BY <1>2, <1>3, <1>4 DEF OpensBlock

\* An END marker where none may stand.
LEMMA EndFails ==
  ASSUME NEW t, IsLines(t), NEW n \in Nat, n + 1 \in 1 .. Len(t.lines),
         NEW r, ScanState(r), r.ok, Knows(t, n, r),
         t.lines[n + 1].k = "end", ~ClosesBlock(r, t.lines[n + 1])
  PROVE  ~WellNested(t)
<1> SUFFICES ASSUME WellNested(t) PROVE FALSE
  OBVIOUS
<1>1. PICK i \in 1 .. Len(t.lines) : Delimit(t, i, n + 1)
  BY Nested
<1>2. /\ i \in 1 .. n /\ t.lines[i].k = "begin"
      /\ t.lines[i].of = t.lines[n + 1].of
      /\ \A x \in i + 1 .. n : ~IsMark(t, x)
  BY <1>1, Delimiting
<1>3. CASE r.open = OpenAt(t, i)
  BY <1>2, <1>3, OpenSomewhere DEF ClosesBlock, OpenAt
<1>4. CASE r.open # OpenAt(t, i)
  <2>1. PICK j \in 1 .. n : Delimit(t, i, j)
    BY <1>2, <1>4 DEF Knows
  <2>2. i < j /\ t.lines[j].k = "end"
    BY <2>1 DEF Delimit
  <2> QED
    BY <1>2, <2>2 DEF IsMark
<1> QED
  BY <1>3, <1>4

\* A line that is no marker.
LEMMA NoMarkRead ==
  ASSUME NEW t, IsLines(t), NEW n \in Nat, n + 1 \in 1 .. Len(t.lines),
         NEW r, ScanState(r), r.ok, Knows(t, n, r), ~IsMark(t, n + 1)
  PROVE  Scanned(t, n + 1, ScanLine(r, t.lines[n + 1]))
<1> DEFINE s == ScanLine(r, t.lines[n + 1])
<1>1. s = [ok |-> TRUE, read |-> n + 1, open |-> r.open, blocks |-> r.blocks]
  BY DEF ScanLine, ScanState, IsMark, Knows
<1> HIDE DEF s
<1>2. Closed(t, n + 1) = Closed(t, n)
  BY NoneCloses DEF IsMark
<1>3. s.open = NoBlock
        \/ \E f \in 1 .. n + 1 : s.open = OpenAt(t, f) /\ Opened(t, n + 1, f)
  BY <1>1 DEF Knows, Opened
<1>4. \A i \in 1 .. n + 1 :
        t.lines[i].k = "begin" =>
          s.open = OpenAt(t, i) \/ \E j \in 1 .. n + 1 : Delimit(t, i, j)
  BY <1>1 DEF Knows, IsMark
<1>5. \A j \in 1 .. n + 1 :
        t.lines[j].k = "end" => \E i \in 1 .. n + 1 : Delimit(t, i, j)
  BY SMTT(30) DEF Knows, IsMark
<1>6. \A i, j \in 1 .. n + 1 :
        t.lines[i].k = "begin" /\ t.lines[j].k = "begin"
          /\ t.lines[i].of = t.lines[j].of => i = j
  BY DEF Knows, IsMark
<1>7. Knows(t, n + 1, s)
  <2>1. s.read = n + 1 /\ s.blocks = r.blocks
    BY <1>1
  <2>2. /\ r.blocks \in Seq({BlockAt(t, p) : p \in Closed(t, n)})
        /\ \A p \in Closed(t, n) : BlockAt(t, p) \in Range(r.blocks)
    BY Zenon DEF Knows
  <2> QED
    BY <1>2, <1>3, <1>4, <1>5, <1>6, <2>1, <2>2, Zenon DEF Knows
<1> QED
  BY <1>1, <1>7 DEF Scanned, ScanState, s

\* One more line: the scanner knows as much of the longer text, or has refused it.
LEMMA ScanStep ==
  ASSUME NEW t, IsLines(t), NEW n \in Nat, n + 1 \in 1 .. Len(t.lines),
         NEW r, Scanned(t, n, r)
  PROVE  Scanned(t, n + 1, ScanLine(r, t.lines[n + 1]))
<1> DEFINE line == t.lines[n + 1]
           s == ScanLine(r, line)
<1>1. CASE ~r.ok
  BY <1>1 DEF ScanLine, Scanned
<1>2. CASE r.ok /\ line.k = "begin"
  <2>1. CASE OpensBlock(r, line)
    BY <1>2, <2>1, BeginOpens DEF Scanned
  <2>2. CASE ~OpensBlock(r, line)
    <3>1. ~WellNested(t)
      BY <1>2, <2>2, BeginFails DEF Scanned
    <3>2. ScanState(s) /\ ~s.ok
      BY <1>2, <2>2 DEF ScanLine, Scanned, ScanState
    <3> QED
      BY <3>1, <3>2 DEF Scanned
  <2> QED
    BY <2>1, <2>2
<1>3. CASE r.ok /\ line.k = "end"
  <2>1. CASE ClosesBlock(r, line)
    BY <1>3, <2>1, EndCloses DEF Scanned
  <2>2. CASE ~ClosesBlock(r, line)
    <3>1. ~WellNested(t)
      BY <1>3, <2>2, EndFails DEF Scanned
    <3>2. ScanState(s) /\ ~s.ok
      BY <1>3, <2>2 DEF ScanLine, Scanned, ScanState
    <3> QED
      BY <3>1, <3>2 DEF Scanned
  <2> QED
    BY <2>1, <2>2
<1>4. CASE r.ok /\ line.k \notin {"begin", "end"}
  BY <1>4, NoMarkRead DEF Scanned, IsMark
<1> QED
  BY <1>1, <1>2, <1>3, <1>4 DEF Scanned

\* The blocks `scan` finds are the well-nested blocks of the text, and it refuses
\* the texts that have a marker too many.
LEMMA ScanRight ==
  ASSUME NEW t, IsLines(t)
  PROVE  /\ Scan(t).ok \in BOOLEAN
         /\ Scan(t).ok <=> WellNested(t)
         /\ Scan(t).ok =>
              Range(Scan(t).blocks) = {BlockAt(t, p) : p \in Closed(t, Len(t.lines))}
<1> DEFINE L == Len(t.lines)
<1>1. L \in Nat
  BY DEF IsLines
<1>2. PICK r : /\ r[0] = [ok |-> TRUE, read |-> 0, open |-> NoBlock,
                          blocks |-> <<>>]
               /\ \A n \in 1 .. L : r[n] = ScanLine(r[n - 1], t.lines[n])
               /\ Scan(t).ok = (r[L].ok /\ r[L].open = NoBlock)
               /\ Scan(t).blocks = IF r[L].ok THEN r[L].blocks ELSE <<>>
  BY <1>1, ScanReads
<1> DEFINE good == {n \in 0 .. L : Scanned(t, n, r[n])}
<1>3. 0 \in good
  <2>1. Closed(t, 0) = {}
    BY DEF Closed
  <2>2. Knows(t, 0, r[0]) /\ ScanState(r[0]) /\ r[0].ok
    BY <1>2, <2>1 DEF Knows, ScanState
  <2> QED
    BY <1>1, <2>2 DEF Scanned
<1>4. ASSUME NEW n \in 1 .. L, n - 1 \in good
      PROVE  n \in good
  <2>1. n - 1 \in Nat /\ (n - 1) + 1 = n
    BY <1>1
  <2>2. Scanned(t, n - 1, r[n - 1])
    BY <1>4
  <2>3. Scanned(t, n, ScanLine(r[n - 1], t.lines[n]))
    BY <2>1, <2>2, ScanStep
  <2> QED
    BY <1>1, <1>2, <2>3
<1>5. Scanned(t, L, r[L])
  <2>1. L \in 0 .. L
    BY <1>1
  <2> HIDE DEF good, L
  <2>2. \A n \in 1 .. L : n - 1 \in good => n \in good
    BY <1>4, Zenon
  <2>3. \A n \in 0 .. L : n \in good
    BY <1>1, <1>3, <2>2, UpTo
  <2>4. L \in good
    BY <2>1, <2>3
  <2> QED
    BY <2>4 DEF good
<1>6. CASE ~r[L].ok
  BY <1>2, <1>5, <1>6 DEF Scanned
<1>7. CASE r[L].ok /\ r[L].open = NoBlock
  <2>1. Knows(t, L, r[L])
    BY <1>5, <1>7 DEF Scanned
  <2>2. WellNested(t)
    <3>1. \A i \in 1 .. L : r[L].open # OpenAt(t, i)
      BY <1>1, <1>7, OpenSomewhere
    <3> QED
      BY <2>1, <3>1, Nested DEF Knows
  <2>3. Range(r[L].blocks) = {BlockAt(t, p) : p \in Closed(t, L)}
    <3> DEFINE B == {BlockAt(t, p) : p \in Closed(t, L)}
    <3>1. r[L].blocks \in Seq(B) /\ B \subseteq Range(r[L].blocks)
      BY <2>1, Zenon DEF Knows
    <3> HIDE DEF B
    <3>2. Range(r[L].blocks) = B
      BY <3>1 DEF Range
    <3> QED
      BY <3>2 DEF B
  <2>4. Scan(t).ok /\ Scan(t).blocks = r[L].blocks
    BY <1>2, <1>7
  <2> QED
    BY <2>2, <2>3, <2>4, Zenon
<1>8. CASE r[L].ok /\ r[L].open # NoBlock
  <2>1. PICK f \in 1 .. L : Opened(t, L, f)
    BY <1>5, <1>8, Zenon DEF Scanned, Knows
  <2>2. ~WellNested(t)
    <3> SUFFICES ASSUME WellNested(t) PROVE FALSE
      OBVIOUS
    <3>1. PICK j \in 1 .. L : Delimit(t, f, j)
      BY <2>1, Nested DEF Opened
    <3>2. f < j /\ t.lines[j].k = "end"
      BY <3>1 DEF Delimit
    <3> QED
      BY <1>1, <2>1, <3>2 DEF Opened, IsMark
  <2>3. Scan(t).ok = FALSE
    BY <1>2, <1>8
  <2> QED
    BY <2>2, <2>3
<1> QED
  BY <1>5, <1>6, <1>7, <1>8, Zenon DEF Scanned, ScanState

-----------------------------------------------------------------------------
(***************************************************************************)
(* `find`: what is known when the first n lines are read.                  *)
(***************************************************************************)
LEMMA FindReads ==
  ASSUME NEW t, Len(t.lines) \in Nat
  PROVE  LET L == Len(t.lines)
         IN \E r : /\ r[0] = [ok |-> TRUE, read |-> 0, open |-> 0,
                              managed |-> <<>>, hand |-> <<>>]
                   /\ \A n \in 1 .. L : r[n] = FindLine(r[n - 1], t.lines[n])
                   /\ FindDefault(t).ok = OneFound(r[L])
                   /\ FindDefault(t).managed = r[L].managed
                   /\ FindDefault(t).hand = r[L].hand
<1> DEFINE L == Len(t.lines)
           start == [ok |-> TRUE, read |-> 0, open |-> 0, managed |-> <<>>,
                     hand |-> <<>>]
           step(g, n) == FindLine(g[n - 1], t.lines[n])
           body(g, n) == IF n = 0 THEN start ELSE step(g, n)
           upto[n \in 0 .. L] ==
             IF n = 0
             THEN [ok |-> TRUE, read |-> 0, open |-> 0, managed |-> <<>>,
                   hand |-> <<>>]
             ELSE FindLine(upto[n - 1], t.lines[n])
           good == {m \in 0 .. L : \E g : g = [n \in 0 .. m |-> body(g, n)]}
<1> HIDE DEF start
<1>1. 0 \in good
  <2> DEFINE g == [n \in 0 .. 0 |-> start]
  <2>1. g = [n \in 0 .. 0 |-> body(g, n)]
    OBVIOUS
  <2>2. 0 \in 0 .. L
    OBVIOUS
  <2> HIDE DEF g
  <2> QED
    BY <2>1, <2>2, Zenon
<1>2. ASSUME NEW m \in 1 .. L, m - 1 \in good
      PROVE  m \in good
  <2>1. PICK h : h = [n \in 0 .. m - 1 |-> body(h, n)]
    BY <1>2
  <2> DEFINE g == [n \in 0 .. m |-> IF n = m THEN step(h, m) ELSE h[n]]
  <2>2. ASSUME NEW n \in 0 .. m
        PROVE  g[n] = body(g, n)
    <3>1. n # 0 => n - 1 \in 0 .. m - 1 /\ n - 1 \in 0 .. m /\ n - 1 # m
      OBVIOUS
    <3>2. n # 0 => g[n - 1] = h[n - 1]
      BY <3>1
    <3>3. n # m => n \in 0 .. m - 1 /\ g[n] = h[n] /\ h[n] = body(h, n)
      BY <2>1
    <3>4. n = m => g[n] = step(h, n) /\ n # 0
      OBVIOUS
    <3> HIDE DEF g
    <3> QED
      BY <3>2, <3>3, <3>4
  <2>3. g = [n \in 0 .. m |-> body(g, n)]
    BY <2>2
  <2> HIDE DEF g
  <2> QED
    BY <2>3
<1>3. L \in good
  <2>1. L \in Nat /\ L \in 0 .. L
    OBVIOUS
  <2> HIDE DEF good, L
  <2>2. \A m \in 1 .. L : m - 1 \in good => m \in good
    BY <1>2, Zenon
  <2>3. \A m \in 0 .. L : m \in good
    BY <1>1, <2>1, <2>2, UpTo
  <2> QED
    BY <2>1, <2>3
<1>4. upto = [n \in 0 .. L |-> body(upto, n)]
  BY <1>3 DEF start
<1>5. /\ FindDefault(t).ok = OneFound(upto[L])
      /\ FindDefault(t).managed = upto[L].managed
      /\ FindDefault(t).hand = upto[L].hand
  BY Zenon DEF FindDefault
<1> HIDE DEF upto
<1>6. upto[0] = start /\ \A n \in 1 .. L : upto[n] = FindLine(upto[n - 1], t.lines[n])
  BY <1>4
<1> QED
  BY <1>5, <1>6 DEF start

\* The default block of a text: from the first opening mark to the first closing
\* one after it.
IsManaged(t, a, b) ==
  /\ a < b
  /\ t.lines[a].k = "open" /\ t.lines[b].k = "close"
  /\ \A x \in 1 .. a - 1 : t.lines[x].k # "open"
  /\ \A x \in a + 1 .. b - 1 : t.lines[x].k # "close"

Inside(t, x) ==
  \E a, b \in 1 .. Len(t.lines) : IsManaged(t, a, b) /\ x \in a .. b

\* The default block is told by its first opening mark and the closing one after it.
LEMMA DefaultBlock ==
  ASSUME NEW t, IsLines(t)
  PROVE  DefaultBlocks(t) =
           {p \in (1 .. Len(t.lines)) \X (1 .. Len(t.lines)) : IsManaged(t, p[1], p[2])}
<1> DEFINE L == Len(t.lines)
<1>1. /\ Marks(t, {"open"}) = {i \in 1 .. L : t.lines[i].k = "open"}
      /\ Marks(t, {"close"}) = {i \in 1 .. L : t.lines[i].k = "close"}
  BY DEF Marks, IsLines
<1>2. ASSUME NEW a \in 1 .. L, NEW b \in 1 .. L
      PROVE  /\ a \in Marks(t, {"open"}) /\ b \in Marks(t, {"close"})
             /\ a < b
             /\ \A x \in Marks(t, {"open"}) : x >= a
             /\ \A x \in Marks(t, {"close"}) : x <= a \/ x >= b
             <=> IsManaged(t, a, b)
  BY <1>1 DEF IsManaged, IsLines
<1>3. ASSUME NEW p \in DefaultBlocks(t)
      PROVE  p \in (1 .. L) \X (1 .. L) /\ IsManaged(t, p[1], p[2])
  <2>1. /\ p \in Marks(t, {"open"}) \X Marks(t, {"close"})
        /\ p[1] < p[2]
        /\ \A x \in Marks(t, {"open"}) : x >= p[1]
        /\ \A x \in Marks(t, {"close"}) : x <= p[1] \/ x >= p[2]
    BY Zenon DEF DefaultBlocks
  <2>2. p = <<p[1], p[2]>> /\ p[1] \in Marks(t, {"open"}) /\ p[2] \in Marks(t, {"close"})
    BY <2>1
  <2>3. p[1] \in 1 .. L /\ p[2] \in 1 .. L
    BY <1>1, <2>2
  <2> QED
    BY <1>2, <2>1, <2>2, <2>3
<1>4. ASSUME NEW p \in (1 .. L) \X (1 .. L), IsManaged(t, p[1], p[2])
      PROVE  p \in DefaultBlocks(t)
  <2>1. p = <<p[1], p[2]>> /\ p[1] \in 1 .. L /\ p[2] \in 1 .. L
    OBVIOUS
  <2>2. /\ p[1] \in Marks(t, {"open"}) /\ p[2] \in Marks(t, {"close"})
        /\ p[1] < p[2]
        /\ \A x \in Marks(t, {"open"}) : x >= p[1]
        /\ \A x \in Marks(t, {"close"}) : x <= p[1] \/ x >= p[2]
    BY <1>2, <1>4, <2>1
  <2> QED
    BY <2>1, <2>2 DEF DefaultBlocks
<1> QED
  BY <1>3, <1>4

\* There is at most one.
LEMMA OneBlock ==
  ASSUME NEW t, IsLines(t),
         NEW a \in 1 .. Len(t.lines), NEW b \in 1 .. Len(t.lines),
         NEW c \in 1 .. Len(t.lines), NEW d \in 1 .. Len(t.lines),
         IsManaged(t, a, b), IsManaged(t, c, d)
  PROVE  a = c /\ b = d
BY DEF IsManaged, IsLines

\* OneDefault, without sets of ranges and their sizes.
LEMMA DefaultOnce ==
  ASSUME NEW t, IsLines(t)
  PROVE  OneDefault(t) <=>
           LET L == Len(t.lines)
           IN /\ \A x \in 1 .. L :
                   t.lines[x].k \in {"open", "close"} => Inside(t, x)
              /\ \A a, b \in 1 .. L :
                   IsManaged(t, a, b) => t.lines[a + 1].k = "default"
              /\ \A x, y \in 1 .. L :
                   /\ t.lines[x].k = "default" /\ ~Inside(t, x)
                   /\ t.lines[y].k = "default" /\ ~Inside(t, y)
                   => x = y
              /\ \A a, b, x \in 1 .. L :
                   IsManaged(t, a, b) /\ t.lines[x].k = "default" => Inside(t, x)
              /\ \A x \in 1 .. L :
                   Defines(t.lines[x], {"profile"}, Default) => Inside(t, x)
<1> DEFINE L == Len(t.lines)
           DB == DefaultBlocks(t)
           inside == UNION {b[1] .. b[2] : b \in DB}
           out == Marks(t, {"default"}) \ inside
<1>1. L \in Nat /\ DOMAIN t.lines = 1 .. L
  BY DEF IsLines
<1>2. DB = {p \in (1 .. L) \X (1 .. L) : IsManaged(t, p[1], p[2])}
  BY DefaultBlock
<1> HIDE DEF DB
<1>3. ASSUME NEW x \in 1 .. L
      PROVE  x \in inside <=> Inside(t, x)
  <2>1. ASSUME x \in inside PROVE Inside(t, x)
    <3>1. PICK p \in DB : x \in p[1] .. p[2]
      BY <2>1
    <3>2. p[1] \in 1 .. L /\ p[2] \in 1 .. L /\ IsManaged(t, p[1], p[2])
      BY <1>2
    <3> QED
      BY <3>1, <3>2 DEF Inside
  <2>2. ASSUME Inside(t, x) PROVE x \in inside
    <3>1. PICK a, b \in 1 .. L : IsManaged(t, a, b) /\ x \in a .. b
      BY <2>2 DEF Inside
    <3>2. <<a, b>> \in DB
      BY <1>2, <3>1
    <3> QED
      BY <3>1, <3>2
  <2> QED
    BY <2>1, <2>2
<1>4. (\A b \in DB : t.lines[b[1] + 1].k = "default") <=>
        \A a, b \in 1 .. L : IsManaged(t, a, b) => t.lines[a + 1].k = "default"
  <2>1. ASSUME \A b \in DB : t.lines[b[1] + 1].k = "default",
               NEW a \in 1 .. L, NEW b \in 1 .. L, IsManaged(t, a, b)
        PROVE  t.lines[a + 1].k = "default"
    <3>1. <<a, b>> \in DB
      BY <1>2, <2>1
    <3> QED
      BY <2>1, <3>1
  <2>2. ASSUME \A a, b \in 1 .. L : IsManaged(t, a, b) => t.lines[a + 1].k = "default",
               NEW p \in DB
        PROVE  t.lines[p[1] + 1].k = "default"
    <3>1. p[1] \in 1 .. L /\ p[2] \in 1 .. L /\ IsManaged(t, p[1], p[2])
      BY <1>2
    <3> QED
      BY <2>2, <3>1
  <2> QED
    BY <2>1, <2>2
<1>5. /\ IsFiniteSet(DB) /\ Cardinality(DB) \in Nat
      /\ IsFiniteSet(out) /\ Cardinality(out) \in Nat
      /\ out \subseteq 1 .. L
  <2>1. IsFiniteSet(1 .. L)
    BY <1>1, FS_Interval
  <2>2. IsFiniteSet((1 .. L) \X (1 .. L))
    BY <2>1, FS_Product
  <2>3. DB \subseteq (1 .. L) \X (1 .. L)
    BY <1>2
  <2>4. out \subseteq 1 .. L
    BY <1>1 DEF Marks
  <2> HIDE DEF out
  <2> QED
    BY <2>1, <2>2, <2>3, <2>4, FS_Subset, FS_CardinalityType
<1>6. (Cardinality(DB) + Cardinality(out) <= 1) <=>
        /\ \A x, y \in out : x = y
        /\ DB = {} \/ out = {}
  <2>1. \A p, q \in DB : p = q
    <3>1. ASSUME NEW p \in DB, NEW q \in DB
          PROVE  p = q
      <4>1. /\ p = <<p[1], p[2]>> /\ p[1] \in 1 .. L /\ p[2] \in 1 .. L
            /\ q = <<q[1], q[2]>> /\ q[1] \in 1 .. L /\ q[2] \in 1 .. L
            /\ IsManaged(t, p[1], p[2]) /\ IsManaged(t, q[1], q[2])
        BY <1>2
      <4>2. p[1] = q[1] /\ p[2] = q[2]
        BY <4>1, OneBlock
      <4> QED
        BY <4>1, <4>2
    <3> QED
      BY <3>1
  <2>2. ASSUME NEW S, IsFiniteSet(S)
        PROVE  /\ Cardinality(S) = 0 <=> S = {}
               /\ Cardinality(S) <= 1 <=> \A x, y \in S : x = y
    <3>1. Cardinality(S) = 0 <=> S = {}
      BY <2>2, FS_EmptySet
    <3>2. Cardinality(S) = 1 <=> \E m : S = {m}
      BY <2>2, FS_Singleton
    <3>3. Cardinality(S) \in Nat
      BY <2>2, FS_CardinalityType
    <3>4. (\A x, y \in S : x = y) <=> (S = {} \/ \E m : S = {m})
      OBVIOUS
    <3> QED
      BY <3>1, <3>2, <3>3, <3>4
  <2> HIDE DEF out
  <2>3. /\ Cardinality(DB) = 0 <=> DB = {}
        /\ Cardinality(DB) <= 1
    BY <1>5, <2>1, <2>2
  <2>4. /\ Cardinality(out) = 0 <=> out = {}
        /\ Cardinality(out) <= 1 <=> \A x, y \in out : x = y
    BY <1>5, <2>2
  <2>5. out = {} => \A x, y \in out : x = y
    OBVIOUS
  <2> QED
    BY <1>5, <2>3, <2>4, <2>5
<1>7. \A x : x \in out <=> x \in 1 .. L /\ t.lines[x].k = "default" /\ ~Inside(t, x)
  BY <1>1, <1>3 DEF Marks
<1>8. DB = {} <=> \A a, b \in 1 .. L : ~IsManaged(t, a, b)
  <2>1. ASSUME NEW a \in 1 .. L, NEW b \in 1 .. L, IsManaged(t, a, b)
        PROVE  <<a, b>> \in DB
    BY <1>2, <2>1
  <2>2. ASSUME NEW p \in DB
        PROVE  p[1] \in 1 .. L /\ p[2] \in 1 .. L /\ IsManaged(t, p[1], p[2])
    BY <1>2
  <2> QED
    BY <2>1, <2>2
<1>9. Marks(t, {"open", "close"}) \subseteq inside <=>
        \A x \in 1 .. L : t.lines[x].k \in {"open", "close"} => Inside(t, x)
  BY <1>1, <1>3 DEF Marks
<1>10. At(t, {"profile"}, Default) \subseteq inside <=>
         \A x \in 1 .. L : Defines(t.lines[x], {"profile"}, Default) => Inside(t, x)
  BY <1>1, <1>3 DEF At
<1>11. OneDefault(t) <=>
         /\ Marks(t, {"open", "close"}) \subseteq inside
         /\ \A b \in DB : t.lines[b[1] + 1].k = "default"
         /\ Cardinality(DB) + Cardinality(out) <= 1
         /\ At(t, {"profile"}, Default) \subseteq inside
  BY Zenon DEF OneDefault, DB
<1> HIDE DEF out, inside
<1>12. (\A x, y \in out : x = y) <=>
         \A x, y \in 1 .. L :
           /\ t.lines[x].k = "default" /\ ~Inside(t, x)
           /\ t.lines[y].k = "default" /\ ~Inside(t, y)
           => x = y
  BY <1>7
<1>13. (DB = {} \/ out = {}) <=>
         \A a, b, x \in 1 .. L :
           IsManaged(t, a, b) /\ t.lines[x].k = "default" => Inside(t, x)
  BY <1>7, <1>8
<1> QED
  BY <1>4, <1>6, <1>9, <1>10, <1>11, <1>12, <1>13, Zenon

RangeAt(a, b) == [first |-> a, last |-> b]

FindState(r) ==
  /\ r = [ok |-> r.ok, read |-> r.read, open |-> r.open, managed |-> r.managed,
          hand |-> r.hand]
  /\ r.ok \in BOOLEAN

\* Line x is in the default block, or in the one that is open.
Within(r, x) ==
  \/ \E a, b \in Nat : r.managed = <<RangeAt(a, b)>> /\ x \in a .. b
  \/ r.open # 0 /\ r.open <= x

OfDefault(t, x) == Defines(t.lines[x], {"profile"}, Default)

Owns(t, n, r) ==
  /\ r.read = n
  /\ r.managed = <<>>
       \/ \E a, b \in 1 .. n :
            /\ r.managed = <<RangeAt(a, b)>>
            /\ IsManaged(t, a, b) /\ t.lines[a + 1].k = "default"
  /\ r.hand = <<>>
       \/ \E h \in 1 .. n :
            /\ r.hand = <<RangeAt(h, h)>>
            /\ t.lines[h].k = "default" /\ ~Within(r, h)
  /\ r.open \in 0 .. n
  /\ r.open # 0 =>
       /\ r.managed = <<>>
       /\ t.lines[r.open].k = "open"
       /\ r.open < n => t.lines[r.open + 1].k = "default"
       /\ \A x \in r.open + 1 .. n : t.lines[x].k # "close"
  /\ \A x \in 1 .. n : t.lines[x].k \in {"open", "close"} => Within(r, x)
  /\ \A x \in 1 .. n :
       t.lines[x].k = "default" => Within(r, x) \/ r.hand = <<RangeAt(x, x)>>
  /\ \A x \in 1 .. n : OfDefault(t, x) => Within(r, x)

FoundTo(t, n, r) ==
  /\ FindState(r)
  /\ r.ok => Owns(t, n, r)
  /\ ~r.ok => ~OneDefault(t)

\* What `find` makes of one line.
LEMMA FindCases ==
  ASSUME NEW r, NEW line, NEW n \in Nat, FindState(r), r.ok, r.read = n
  PROVE  LET f == FindLine(r, line)
             passed == [ok |-> TRUE, read |-> n + 1, open |-> r.open,
                        managed |-> r.managed, hand |-> r.hand]
             fails == \/ line.k = "default" /\ r.hand # <<>>
                      \/ line.k = "close"
                      \/ line.k = "open" /\ r.managed # <<>>
                      \/ Defines(line, {"profile"}, Default)
         IN /\ r.open # 0 =>
                 /\ r.open = n /\ line.k # "default" => FindState(f) /\ ~f.ok
                 /\ r.open # n /\ line.k = "close" =>
                      f = [ok |-> TRUE, read |-> n + 1, open |-> 0,
                           managed |-> <<RangeAt(r.open, n + 1)>>,
                           hand |-> r.hand]
                 /\ r.open = n /\ line.k = "default" => f = passed
                 /\ r.open # n /\ line.k # "close" => f = passed
            /\ r.open = 0 =>
                 /\ line.k = "open" /\ r.managed = <<>> =>
                      f = [ok |-> TRUE, read |-> n + 1, open |-> n + 1,
                           managed |-> r.managed, hand |-> r.hand]
                 /\ line.k = "default" /\ r.hand = <<>> =>
                      f = [ok |-> TRUE, read |-> n + 1, open |-> 0,
                           managed |-> r.managed,
                           hand |-> <<RangeAt(n + 1, n + 1)>>]
                 /\ fails => FindState(f) /\ ~f.ok
                 /\ line.k \notin {"open", "default"} /\ ~fails => f = passed
<1> DEFINE f == FindLine(r, line)
           passed == [ok |-> TRUE, read |-> n + 1, open |-> r.open,
                      managed |-> r.managed, hand |-> r.hand]
<1>1. (n + 1) - 1 = n
  OBVIOUS
<1>2. r = [ok |-> TRUE, read |-> n, open |-> r.open, managed |-> r.managed,
           hand |-> r.hand]
  BY DEF FindState
<1>3. CASE r.open # 0
  BY <1>1, <1>2, <1>3 DEF FindLine, FindState, RangeAt
<1>4. CASE r.open = 0
  BY <1>1, <1>2, <1>4 DEF FindLine, FindState, RangeAt, OpensDefault, Defines
<1> QED
  BY <1>3, <1>4

\* What is found once is told from nothing, and from what is found elsewhere.
LEMMA Singletons ==
  \A x, y : <<x>> # <<>> /\ (<<x>> = <<y>> => x = y)
OBVIOUS

\* A range is its first and its last line.
LEMMA SameRange ==
  ASSUME NEW a, NEW b, NEW c, NEW d, RangeAt(a, b) = RangeAt(c, d)
  PROVE  a = c /\ b = d
<1>1. RangeAt(a, b).first = a /\ RangeAt(a, b).last = b
  BY DEF RangeAt
<1>2. RangeAt(c, d).first = c /\ RangeAt(c, d).last = d
  BY DEF RangeAt
<1> QED
  BY <1>1, <1>2

\* A line is within what is managed so far: the block that is closed, or one that is open.
LEMMA WithinBlock ==
  ASSUME NEW r, NEW x, NEW c \in Nat, NEW d \in Nat, r.managed = <<RangeAt(c, d)>>
  PROVE  Within(r, x) <=> x \in c .. d \/ (r.open # 0 /\ r.open <= x)
<1>1. ASSUME NEW a \in Nat, NEW b \in Nat, r.managed = <<RangeAt(a, b)>>
      PROVE  a = c /\ b = d
  <2>1. RangeAt(a, b) = RangeAt(c, d)
    BY <1>1, Singletons, Zenon
  <2> QED
    BY <2>1, SameRange
<1> QED
  BY <1>1, Zenon DEF Within

\* Before any block is closed, only an open one holds lines.
LEMMA WithinNone ==
  ASSUME NEW r, NEW x, r.managed = <<>>
  PROVE  Within(r, x) <=> r.open # 0 /\ r.open <= x
BY Singletons, Zenon DEF Within

\* The line after what is read is in the default block only if that is open.
LEMMA NextWithin ==
  ASSUME NEW t, NEW n \in Nat, NEW r, Owns(t, n, r), r.open = 0
  PROVE  ~Within(r, n + 1)
<1>1. CASE r.managed = <<>>
  BY <1>1, WithinNone
<1>2. CASE r.managed # <<>>
  <2>1. PICK c, d \in 1 .. n : r.managed = <<RangeAt(c, d)>>
    BY <1>2, Zenon DEF Owns
  <2>2. c \in Nat /\ d \in Nat /\ n + 1 \notin c .. d
    OBVIOUS
  <2> QED
    BY <2>1, <2>2, WithinBlock
<1> QED
  BY <1>1, <1>2

\* Line x is outside for good once it is read and found outside.
LEMMA StaysOutside ==
  ASSUME NEW t, IsLines(t), NEW n \in 0 .. Len(t.lines), NEW r, Owns(t, n, r),
         NEW x \in 1 .. Len(t.lines), ~Within(r, x),
         x <= n + 1, x = n + 1 => t.lines[x].k # "open" \/ r.managed # <<>>
  PROVE  ~Inside(t, x)
<1> SUFFICES ASSUME NEW a \in 1 .. Len(t.lines), NEW b \in 1 .. Len(t.lines),
                    IsManaged(t, a, b), x \in a .. b
             PROVE  FALSE
  BY DEF Inside
<1>1. CASE r.managed # <<>>
  <2>1. PICK c, d \in 1 .. n : r.managed = <<RangeAt(c, d)>> /\ IsManaged(t, c, d)
    BY <1>1, Zenon DEF Owns
  <2>2. a = c /\ b = d
    BY <2>1, OneBlock DEF IsLines
  <2>3. c \in Nat /\ d \in Nat
    OBVIOUS
  <2>4. Within(r, x)
    BY <2>1, <2>2, <2>3, Zenon DEF Within
  <2> QED
    BY <2>4
<1>2. CASE r.managed = <<>> /\ r.open = 0
  <2>1. \A y \in 1 .. n : ~Within(r, y)
    BY <1>2, Singletons, Zenon DEF Within
  <2>2. a \notin 1 .. n
    BY <2>1 DEF Owns, IsManaged
  <2>3. a <= x /\ n \in Nat
    BY DEF IsLines
  <2>4. a = n + 1 /\ x = n + 1
    BY <2>2, <2>3
  <2> QED
    BY <1>2, <2>4 DEF IsManaged
<1>3. CASE r.managed = <<>> /\ r.open # 0
  <2>1. r.open \in 1 .. n /\ t.lines[r.open].k = "open"
    BY <1>3 DEF Owns, IsLines
  <2>2. x < r.open
    BY <1>3, <2>1 DEF Within, IsLines
  <2>3. a < r.open
    BY <2>1, <2>2
  <2>4. ~Within(r, a)
    BY <1>3, <2>3, <2>1, Singletons DEF Within
  <2>5. a \in 1 .. n
    BY <2>1, <2>3
  <2> QED
    BY <2>4, <2>5 DEF Owns, IsManaged
<1> QED
  BY <1>1, <1>2, <1>3

\* A text that breaks at a line has more than one default profile, or a mark left
\* over.
LEMMA FindBreaks ==
  ASSUME NEW t, IsLines(t), NEW n \in Nat, n + 1 \in 1 .. Len(t.lines),
         NEW r, FindState(r), r.ok, Owns(t, n, r),
         ~FindLine(r, t.lines[n + 1]).ok
  PROVE  ~OneDefault(t)
<1> DEFINE here == n + 1
           L == Len(t.lines)
<1> SUFFICES ASSUME OneDefault(t) PROVE FALSE
  OBVIOUS
<1>1. /\ \A x \in 1 .. L :
           t.lines[x].k \in {"open", "close"} => Inside(t, x)
      /\ \A a, b \in 1 .. L :
           IsManaged(t, a, b) => t.lines[a + 1].k = "default"
      /\ \A x, y \in 1 .. L :
           /\ t.lines[x].k = "default" /\ ~Inside(t, x)
           /\ t.lines[y].k = "default" /\ ~Inside(t, y)
           => x = y
      /\ \A x \in 1 .. L : OfDefault(t, x) => Inside(t, x)
  BY DefaultOnce, Zenon DEF OfDefault
<1>2. n \in 0 .. L /\ here \in 1 .. L /\ L \in Nat /\ 1 .. n \subseteq 1 .. L
  BY DEF IsLines
<1>3. r.read = n /\ r.open \in 0 .. n
  BY DEF Owns
<1>4. CASE r.open # 0
  <2>1. r.open = n /\ t.lines[here].k # "default"
    BY <1>3, <1>4, FindCases
  <2>2. n \in 1 .. L /\ t.lines[n].k = "open"
    BY <1>2, <1>4, <2>1 DEF Owns
  <2>3. PICK a, b \in 1 .. L : IsManaged(t, a, b) /\ n \in a .. b
    BY <1>1, <2>2 DEF Inside
  <2>4. ~ (a < n)
    <3>1. ASSUME a < n PROVE ~Within(r, a)
      <4>1. r.managed = <<>>
        BY <1>4 DEF Owns
      <4>2. a \in Nat /\ ~ (n <= a)
        BY <3>1, <1>2
      <4> QED
        BY <2>1, <4>1, <4>2, WithinNone
    <3> QED
      BY <2>3, <3>1 DEF Owns, IsManaged
  <2>5. a = n
    BY <1>2, <2>3, <2>4
  <2> QED
    BY <1>1, <2>1, <2>3, <2>5
<1>5. CASE r.open = 0
  <2>1. ~Within(r, here)
    BY <1>5, NextWithin
  <2>2. t.lines[here].k # "open" \/ r.managed # <<>> => ~Inside(t, here)
    BY <1>2, <2>1, StaysOutside
  <2>3. \/ t.lines[here].k = "default" /\ r.hand # <<>>
        \/ t.lines[here].k = "close"
        \/ t.lines[here].k = "open" /\ r.managed # <<>>
        \/ OfDefault(t, here)
    BY <1>3, <1>5, FindCases DEF OpensDefault, OfDefault
  <2>4. OfDefault(t, here) => t.lines[here].k # "open"
    BY DEF OfDefault, Defines
  <2>5. CASE t.lines[here].k = "default" /\ r.hand # <<>>
    <3>1. PICK h \in 1 .. n : t.lines[h].k = "default" /\ ~Within(r, h)
      BY <2>5, Zenon DEF Owns
    <3>2. h \in 1 .. L /\ h <= n
      BY <1>2
    <3>3. ~Inside(t, h)
      <4>1. h <= n + 1 /\ h # n + 1
        BY <3>2
      <4> QED
        BY <1>2, <3>1, <3>2, <4>1, StaysOutside, Zenon
    <3>4. ~Inside(t, here)
      BY <2>2, <2>5
    <3>5. h = here
      BY <1>1, <1>2, <2>5, <3>1, <3>2, <3>3, <3>4
    <3> QED
      BY <3>5
  <2> QED
    BY <1>1, <1>2, <2>2, <2>3, <2>4, <2>5
<1> QED
  BY <1>4, <1>5

\* The opening mark.
LEMMA DefaultOpens ==
  ASSUME NEW t, IsLines(t), NEW n \in Nat, n + 1 \in 1 .. Len(t.lines),
         NEW r, FindState(r), r.ok, Owns(t, n, r),
         r.open = 0, OpensDefault(r, t.lines[n + 1])
  PROVE  FoundTo(t, n + 1, FindLine(r, t.lines[n + 1]))
<1> DEFINE s == FindLine(r, t.lines[n + 1])
<1>1. r.read = n
  BY DEF Owns
<1>2. r.managed = <<>> /\ t.lines[n + 1].k = "open"
  BY DEF OpensDefault
<1>3. s = [ok |-> TRUE, read |-> n + 1, open |-> n + 1,
           managed |-> r.managed, hand |-> r.hand]
  <2>1. r.open = 0 =>
          (t.lines[n + 1].k = "open" /\ r.managed = <<>> =>
             s = [ok |-> TRUE, read |-> n + 1, open |-> n + 1,
                  managed |-> r.managed, hand |-> r.hand])
    BY <1>1, FindCases, ZenonT(60)
  <2> QED
    BY <1>2, <2>1, Zenon
<1> HIDE DEF s
<1>4. /\ s.ok = TRUE /\ s.read = n + 1 /\ s.open = n + 1 /\ s.managed = <<>>
      /\ s.hand = r.hand
  BY <1>3, <1>2
<1>5. \A x : Within(s, x) <=> n + 1 <= x
  BY <1>4, WithinNone
<1>6. \A x : ~Within(r, x)
  BY <1>2, WithinNone
<1>7. r.hand = <<>>
        \/ \E h \in 1 .. n : /\ r.hand = <<RangeAt(h, h)>>
                             /\ t.lines[h].k = "default"
  BY Zenon DEF Owns
<1>8. s.hand = <<>>
        \/ \E h \in 1 .. n + 1 : /\ s.hand = <<RangeAt(h, h)>>
                                 /\ t.lines[h].k = "default" /\ ~Within(s, h)
  BY <1>4, <1>5, <1>7
<1>9. \A x \in 1 .. n + 1 : t.lines[x].k \in {"open", "close"} => Within(s, x)
  BY <1>5, <1>6 DEF Owns
<1>10. \A x \in 1 .. n + 1 :
        t.lines[x].k = "default" => Within(s, x) \/ s.hand = <<RangeAt(x, x)>>
  BY <1>2, <1>4, <1>5, <1>6 DEF Owns
<1>11. \A x \in 1 .. n + 1 : OfDefault(t, x) => Within(s, x)
  BY <1>5, <1>6 DEF Owns
<1>12. Owns(t, n + 1, s)
  <2>1. s.open \in 0 .. n + 1 /\ \A x \in s.open + 1 .. n + 1 : FALSE
    BY <1>4
  <2>2. ~ (s.open < n + 1)
    BY <1>4
  <2> QED
    BY <1>2, <1>4, <1>8, <1>9, <1>10, <1>11, <2>1, <2>2, Zenon DEF Owns
<1> QED
  BY <1>3, <1>4, <1>12 DEF FoundTo, FindState, s

\* The [default] section of the user.
LEMMA DefaultByHand ==
  ASSUME NEW t, IsLines(t), NEW n \in Nat, n + 1 \in 1 .. Len(t.lines),
         NEW r, FindState(r), r.ok, Owns(t, n, r),
         r.open = 0, t.lines[n + 1].k = "default", r.hand = <<>>
  PROVE  FoundTo(t, n + 1, FindLine(r, t.lines[n + 1]))
<1> DEFINE s == FindLine(r, t.lines[n + 1])
<1>1. r.read = n
  BY DEF Owns
<1>2. s = [ok |-> TRUE, read |-> n + 1, open |-> 0,
           managed |-> r.managed, hand |-> <<RangeAt(n + 1, n + 1)>>]
  BY <1>1, FindCases, ZenonT(60) DEF OpensDefault
<1> HIDE DEF s
<1>3. /\ s.ok = TRUE /\ s.read = n + 1 /\ s.open = 0 /\ s.managed = r.managed
      /\ s.hand = <<RangeAt(n + 1, n + 1)>>
  BY <1>2
<1>4. \A x : Within(s, x) <=> Within(r, x)
  BY <1>3, Zenon DEF Within
<1>5. ~Within(r, n + 1)
  BY NextWithin
<1>6. s.managed = <<>>
        \/ \E a, b \in 1 .. n + 1 :
             /\ s.managed = <<RangeAt(a, b)>>
             /\ IsManaged(t, a, b) /\ t.lines[a + 1].k = "default"
  <2>1. 1 .. n \subseteq 1 .. n + 1
    OBVIOUS
  <2> QED
    BY <1>3, <2>1, Zenon DEF Owns
<1>7. \A x \in 1 .. n + 1 : t.lines[x].k \in {"open", "close"} => Within(s, x)
  <2>1. \A x \in 1 .. n : t.lines[x].k \in {"open", "close"} => Within(s, x)
    BY <1>4, Zenon DEF Owns
  <2>2. \A x \in 1 .. n + 1 : x \in 1 .. n \/ x = n + 1
    OBVIOUS
  <2> QED
    BY <2>1, <2>2
<1>8. \A x \in 1 .. n + 1 :
        t.lines[x].k = "default" => Within(s, x) \/ s.hand = <<RangeAt(x, x)>>
  <2>1. \A x \in 1 .. n : t.lines[x].k = "default" => Within(r, x)
    BY Singletons, ZenonT(60) DEF Owns
  <2> QED
    BY <1>3, <1>4, <2>1
<1>9. \A x \in 1 .. n + 1 : OfDefault(t, x) => Within(s, x)
  <2>1. \A x \in 1 .. n : OfDefault(t, x) => Within(s, x)
    BY <1>4, Zenon DEF Owns
  <2>2. \A x \in 1 .. n + 1 : x \in 1 .. n \/ x = n + 1
    OBVIOUS
  <2>3. ~OfDefault(t, n + 1)
    BY DEF OfDefault, Defines
  <2> QED
    BY <2>1, <2>2, <2>3, Zenon
<1>10. Owns(t, n + 1, s)
  <2>1. s.open \in 0 .. n + 1 /\ n + 1 \in 1 .. n + 1
    BY <1>3
  <2> QED
    BY <1>3, <1>4, <1>5, <1>6, <1>7, <1>8, <1>9, <2>1, Zenon DEF Owns
<1> QED
  BY <1>2, <1>3, <1>10 DEF FoundTo, FindState, s

\* The closing mark.
LEMMA DefaultCloses ==
  ASSUME NEW t, IsLines(t), NEW n \in Nat, n + 1 \in 1 .. Len(t.lines),
         NEW r, FindState(r), r.ok, Owns(t, n, r),
         r.open # 0, r.open # n, t.lines[n + 1].k = "close"
  PROVE  FoundTo(t, n + 1, FindLine(r, t.lines[n + 1]))
<1> DEFINE s == FindLine(r, t.lines[n + 1])
           a == r.open
<1>1. r.read = n
  BY DEF Owns
<1>2. s = [ok |-> TRUE, read |-> n + 1, open |-> 0,
           managed |-> <<RangeAt(a, n + 1)>>, hand |-> r.hand]
  BY <1>1, FindCases
<1> HIDE DEF s
<1>3. /\ s.ok = TRUE /\ s.read = n + 1 /\ s.open = 0
      /\ s.managed = <<RangeAt(a, n + 1)>> /\ s.hand = r.hand
  BY <1>2
<1>4. /\ a \in 1 .. n /\ a < n /\ r.managed = <<>>
      /\ t.lines[a].k = "open" /\ t.lines[a + 1].k = "default"
      /\ \A x \in a + 1 .. n : t.lines[x].k # "close"
  BY DEF Owns
<1> HIDE DEF a
<1>5. \A x : Within(r, x) <=> a <= x
  BY <1>4, WithinNone DEF a
<1>6. \A x \in 1 .. n + 1 : Within(s, x) <=> a <= x
  <2>1. a \in Nat /\ n + 1 \in Nat
    BY <1>4
  <2>2. \A x : Within(s, x) <=> x \in a .. n + 1
    BY <1>3, <2>1, WithinBlock
  <2> QED
    BY <2>1, <2>2
<1>7. IsManaged(t, a, n + 1)
  <2>1. \A x \in 1 .. a - 1 : t.lines[x].k # "open"
    <3>1. ASSUME NEW x \in 1 .. a - 1 PROVE x \in 1 .. n /\ ~ (a <= x)
      BY <1>4
    <3> QED
      BY <1>5, <3>1 DEF Owns
  <2> QED
    BY <1>4, <2>1 DEF IsManaged
<1>8. s.hand = <<>>
        \/ \E h \in 1 .. n + 1 : /\ s.hand = <<RangeAt(h, h)>>
                                 /\ t.lines[h].k = "default" /\ ~Within(s, h)
  <2>1. \A h \in 1 .. n : h \in 1 .. n + 1 /\ (~Within(r, h) => ~Within(s, h))
    BY <1>5, <1>6
  <2> QED
    BY <1>3, <2>1, ZenonT(60) DEF Owns
<1>9. \A x \in 1 .. n + 1 : (x \in 1 .. n /\ Within(r, x)) \/ x = n + 1 => Within(s, x)
  BY <1>4, <1>5, <1>6
<1>10. \A x \in 1 .. n + 1 : x \in 1 .. n \/ x = n + 1
  BY <1>4
<1>11. /\ \A x \in 1 .. n : t.lines[x].k \in {"open", "close"} => Within(r, x)
       /\ \A x \in 1 .. n :
            t.lines[x].k = "default" => Within(r, x) \/ r.hand = <<RangeAt(x, x)>>
       /\ \A x \in 1 .. n : OfDefault(t, x) => Within(r, x)
  BY Zenon DEF Owns
<1>12. \A x \in 1 .. n + 1 : t.lines[x].k \in {"open", "close"} => Within(s, x)
  BY <1>9, <1>10, <1>11, Zenon
<1>13. \A x \in 1 .. n + 1 :
         t.lines[x].k = "default" => Within(s, x) \/ s.hand = <<RangeAt(x, x)>>
  BY <1>3, <1>9, <1>10, <1>11, Zenon
<1>14. \A x \in 1 .. n + 1 : OfDefault(t, x) => Within(s, x)
  BY <1>9, <1>10, <1>11, Zenon
<1>15. Owns(t, n + 1, s)
  <2>1. a \in 1 .. n + 1 /\ n + 1 \in 1 .. n + 1 /\ s.open \in 0 .. n + 1
    BY <1>3, <1>4
  <2> QED
    BY <1>3, <1>4, <1>7, <1>8, <1>12, <1>13, <1>14, <2>1, Zenon DEF Owns
<1> QED
  BY <1>2, <1>3, <1>15 DEF FoundTo, FindState, s

\* Any other line.
LEMMA DefaultPasses ==
  ASSUME NEW t, IsLines(t), NEW n \in Nat, n + 1 \in 1 .. Len(t.lines),
         NEW r, FindState(r), r.ok, Owns(t, n, r),
         r.open # 0 => /\ r.open = n => t.lines[n + 1].k = "default"
                       /\ r.open # n => t.lines[n + 1].k # "close",
         r.open = 0 => /\ t.lines[n + 1].k \notin {"open", "close", "default"}
                       /\ ~OfDefault(t, n + 1)
  PROVE  FoundTo(t, n + 1, FindLine(r, t.lines[n + 1]))
<1> DEFINE s == FindLine(r, t.lines[n + 1])
<1>1. r.read = n
  BY DEF Owns
<1>2. s = [ok |-> TRUE, read |-> n + 1, open |-> r.open,
           managed |-> r.managed, hand |-> r.hand]
  BY <1>1, FindCases, ZenonT(60) DEF OpensDefault, OfDefault
<1> HIDE DEF s
<1>3. /\ s.ok = TRUE /\ s.read = n + 1 /\ s.open = r.open
      /\ s.managed = r.managed /\ s.hand = r.hand
  BY <1>2
<1>4. \A x : Within(s, x) <=> Within(r, x)
  BY <1>3, Zenon DEF Within
<1>5. r.open # 0 => Within(r, n + 1)
  <2>1. r.open <= n + 1
    BY DEF Owns
  <2> QED
    BY <2>1, Zenon DEF Within
<1>6. /\ s.managed = <<>>
           \/ \E a, b \in 1 .. n + 1 :
                /\ s.managed = <<RangeAt(a, b)>>
                /\ IsManaged(t, a, b) /\ t.lines[a + 1].k = "default"
      /\ s.hand = <<>>
           \/ \E h \in 1 .. n + 1 :
                /\ s.hand = <<RangeAt(h, h)>>
                /\ t.lines[h].k = "default" /\ ~Within(s, h)
  <2>1. 1 .. n \subseteq 1 .. n + 1
    OBVIOUS
  <2> QED
    BY <1>3, <1>4, <2>1, Zenon DEF Owns
<1>7. s.open # 0 =>
        /\ s.managed = <<>>
        /\ t.lines[s.open].k = "open"
        /\ s.open < n + 1 => t.lines[s.open + 1].k = "default"
        /\ \A x \in s.open + 1 .. n + 1 : t.lines[x].k # "close"
  BY <1>3, SMTT(30) DEF Owns
<1>8. \A x \in 1 .. n + 1 : t.lines[x].k \in {"open", "close"} => Within(s, x)
  BY <1>4, <1>5 DEF Owns
<1>9. \A x \in 1 .. n + 1 :
        t.lines[x].k = "default" => Within(s, x) \/ s.hand = <<RangeAt(x, x)>>
  BY <1>3, <1>4, <1>5 DEF Owns
<1>10. \A x \in 1 .. n + 1 : OfDefault(t, x) => Within(s, x)
  BY <1>4, <1>5 DEF Owns
<1>11. s.open \in 0 .. n + 1
  BY <1>3 DEF Owns
<1>12. Owns(t, n + 1, s)
  BY <1>3, <1>6, <1>7, <1>8, <1>9, <1>10, <1>11, Zenon DEF Owns
<1> QED
  BY <1>2, <1>3, <1>12 DEF FoundTo, FindState, s

\* One more line: `find` knows as much of the longer text, or has refused it.
LEMMA FindStep ==
  ASSUME NEW t, IsLines(t), NEW n \in Nat, n + 1 \in 1 .. Len(t.lines),
         NEW r, FoundTo(t, n, r)
  PROVE  FoundTo(t, n + 1, FindLine(r, t.lines[n + 1]))
<1> DEFINE line == t.lines[n + 1]
           s == FindLine(r, line)
<1>1. CASE ~r.ok
  BY <1>1 DEF FindLine, FoundTo
<1>2. CASE r.ok
  <2>1. FindState(r) /\ Owns(t, n, r) /\ r.read = n
    BY <1>2 DEF FoundTo, Owns
  <2>2. CASE FindState(s) /\ ~s.ok
    BY <1>2, <2>1, <2>2, FindBreaks DEF FoundTo
  <2>3. CASE ~ (FindState(s) /\ ~s.ok)
    <3>1. CASE r.open # 0
      <4>1. r.open = n => line.k = "default"
        BY <1>2, <2>1, <2>3, <3>1, FindCases
      <4>2. CASE r.open # n /\ line.k = "close"
        BY <1>2, <2>1, <3>1, <4>2, DefaultCloses
      <4>3. CASE ~ (r.open # n /\ line.k = "close")
        BY <1>2, <2>1, <3>1, <4>1, <4>3, DefaultPasses
      <4> QED
        BY <4>2, <4>3
    <3>2. CASE r.open = 0
      <4>1. CASE OpensDefault(r, line)
        BY <1>2, <2>1, <3>2, <4>1, DefaultOpens
      <4>2. CASE line.k = "default" /\ r.hand = <<>>
        BY <1>2, <2>1, <3>2, <4>2, DefaultByHand
      <4>3. CASE ~OpensDefault(r, line) /\ ~ (line.k = "default" /\ r.hand = <<>>)
        <5>1. line.k \notin {"open", "close", "default"} /\ ~OfDefault(t, n + 1)
          BY <1>2, <2>1, <2>3, <3>2, <4>3, FindCases DEF OfDefault, OpensDefault
        <5> QED
          BY <1>2, <2>1, <3>2, <5>1, DefaultPasses
      <4> QED
        BY <4>1, <4>2, <4>3
    <3> QED
      BY <3>1, <3>2
  <2> QED
    BY <2>2, <2>3
<1> QED
  BY <1>1, <1>2 DEF FoundTo, FindState

\* `find` accepts the texts that have at most one default profile, knows whose it
\* is, and refuses the others.
LEMMA FindRight ==
  ASSUME NEW t, IsLines(t)
  PROVE  LET L == Len(t.lines)
             found == FindDefault(t)
         IN /\ found.ok \in BOOLEAN
            /\ found.ok <=> OneDefault(t)
            /\ found.ok =>
                 /\ found.managed = <<>> \/ found.hand = <<>>
                 /\ IF found.managed = <<>>
                    THEN DefaultBlocks(t) = {}
                    ELSE \E a, b \in 1 .. L :
                           /\ found.managed = <<RangeAt(a, b)>>
                           /\ IsManaged(t, a, b)
                           /\ DefaultBlocks(t) = {<<a, b>>}
                 /\ found.managed = <<>> =>
                      IF found.hand = <<>>
                      THEN Marks(t, {"default"}) = {}
                      ELSE \E h \in 1 .. L :
                             /\ found.hand = <<RangeAt(h, h)>>
                             /\ Marks(t, {"default"}) = {h}
<1> DEFINE L == Len(t.lines)
           found == FindDefault(t)
<1>1. L \in Nat /\ DOMAIN t.lines = 1 .. L /\ L \in 0 .. L
  BY DEF IsLines
<1>2. PICK r : /\ r[0] = [ok |-> TRUE, read |-> 0, open |-> 0,
                          managed |-> <<>>, hand |-> <<>>]
               /\ \A n \in 1 .. L : r[n] = FindLine(r[n - 1], t.lines[n])
               /\ found.ok = OneFound(r[L])
               /\ found.managed = r[L].managed
               /\ found.hand = r[L].hand
  BY <1>1, FindReads
<1> DEFINE good == {n \in 0 .. L : FoundTo(t, n, r[n])}
<1>3. 0 \in good
  <2>1. /\ r[0] = [ok |-> TRUE, read |-> 0, open |-> 0, managed |-> <<>>,
                   hand |-> <<>>]
        /\ 0 \in 0 .. L
    BY <1>1, <1>2
  <2>2. Owns(t, 0, r[0]) /\ FindState(r[0]) /\ r[0].ok
    BY <2>1 DEF Owns, FindState
  <2> QED
    BY <2>1, <2>2 DEF FoundTo
<1>4. ASSUME NEW n \in 1 .. L, n - 1 \in good
      PROVE  n \in good
  <2>1. n - 1 \in Nat /\ (n - 1) + 1 = n /\ n \in 0 .. L
    BY <1>1
  <2>2. FoundTo(t, n - 1, r[n - 1])
    BY <1>4
  <2>3. FoundTo(t, n, FindLine(r[n - 1], t.lines[n]))
    BY <2>1, <2>2, FindStep
  <2> QED
    BY <1>2, <2>1, <2>3
<1>5. FoundTo(t, L, r[L])
  <2> HIDE DEF good, L
  <2>1. \A n \in 1 .. L : n - 1 \in good => n \in good
    BY <1>4, Zenon
  <2>2. \A n \in 0 .. L : n \in good
    BY <1>1, <1>3, <2>1, UpTo
  <2>3. L \in good
    BY <1>1, <2>2
  <2> QED
    BY <2>3 DEF good
<1> DEFINE s == r[L]
<1> HIDE DEF good, L, s
<1>6. FindState(s) /\ (s.ok => Owns(t, L, s)) /\ (~s.ok => ~OneDefault(t))
  BY <1>5, Zenon DEF FoundTo, s
<1>7. /\ found.ok = OneFound(s) /\ found.managed = s.managed
      /\ found.hand = s.hand
  BY <1>2, Zenon DEF s
<1>8. OneFound(s) \in BOOLEAN
  BY <1>6 DEF OneFound, FindState
<1>9. CASE ~s.ok
  BY <1>6, <1>7, <1>8, <1>9 DEF OneFound
<1>10. CASE s.ok
  <2>1. Owns(t, L, s)
    BY <1>6, <1>10
  <2>2. \A x \in 1 .. L : ~Within(s, x) => ~Inside(t, x)
    <3>1. ASSUME NEW x \in 1 .. L PROVE x <= L + 1 /\ x # L + 1 /\ L \in 0 .. L
      BY <1>1
    <3> QED
      BY <2>1, <3>1, StaysOutside, Zenon DEF L
  <2>3. CASE s.open # 0
    <3>1. ASSUME OneDefault(t) PROVE FALSE
      <4>1. s.open \in 1 .. L /\ t.lines[s.open].k = "open" /\ s.managed = <<>>
        BY <1>1, <2>1, <2>3 DEF Owns
      <4>2. Inside(t, s.open)
        BY <3>1, <4>1, DefaultOnce DEF L
      <4>3. PICK a, b \in 1 .. L : IsManaged(t, a, b) /\ s.open \in a .. b
        BY <4>2 DEF Inside, L
      <4>4. ~ (a < s.open)
        <5>1. ASSUME a < s.open PROVE ~Within(s, a)
          BY <2>1, <4>1, <4>3, <5>1, WithinNone
        <5> QED
          BY <2>1, <4>3, <5>1 DEF Owns, IsManaged
      <4>5. a = s.open
        BY <4>1, <4>3, <4>4
      <4> QED
        BY <1>1, <2>1, <2>3, <4>3, <4>5 DEF Owns, IsManaged
    <3> QED
      BY <1>7, <2>3, <3>1 DEF OneFound
  <2>4. CASE s.open = 0
    <3>1. \A x \in 1 .. L : Inside(t, x) <=> Within(s, x)
      <4>1. ASSUME NEW x \in 1 .. L, Within(s, x) PROVE Inside(t, x)
        <5>1. s.managed # <<>>
          BY <2>4, <4>1, WithinNone
        <5>2. PICK a, b \in 1 .. L : s.managed = <<RangeAt(a, b)>> /\ IsManaged(t, a, b)
          BY <2>1, <5>1, Zenon DEF Owns
        <5>3. x \in a .. b
          <6>1. a \in Nat /\ b \in Nat
            OBVIOUS
          <6> QED
            BY <2>4, <4>1, <5>2, <6>1, WithinBlock
        <5> QED
          BY <5>2, <5>3 DEF Inside, L
      <4> QED
        BY <2>2, <4>1
    <3>2. CASE s.managed # <<>>
      <4>1. PICK a, b \in 1 .. L : /\ s.managed = <<RangeAt(a, b)>>
                                   /\ IsManaged(t, a, b)
                                   /\ t.lines[a + 1].k = "default"
        BY <2>1, <3>2, Zenon DEF Owns
      <4>2. DefaultBlocks(t) = {<<a, b>>}
        <5>1. ASSUME NEW p \in (1 .. L) \X (1 .. L), IsManaged(t, p[1], p[2])
              PROVE  p = <<a, b>>
          <6>1. p[1] = a /\ p[2] = b
            BY <4>1, <5>1, OneBlock DEF L
          <6> QED
            BY <6>1
        <5>2. <<a, b>> \in (1 .. L) \X (1 .. L) /\ <<a, b>>[1] = a /\ <<a, b>>[2] = b
          OBVIOUS
        <5> QED
          BY <4>1, <5>1, <5>2, DefaultBlock DEF L
      <4>3. \A c, d \in 1 .. L : IsManaged(t, c, d) => c = a /\ d = b
        BY <4>1, OneBlock DEF L
      <4>4. OneDefault(t) <=> s.hand = <<>>
        <5>1. ASSUME s.hand = <<>> PROVE OneDefault(t)
          <6>1. \A x \in 1 .. L : t.lines[x].k = "default" => Inside(t, x)
            BY <2>1, <3>1, <5>1, Singletons, Zenon DEF Owns
          <6>2. \A x \in 1 .. L : t.lines[x].k \in {"open", "close"} => Inside(t, x)
            BY <2>1, <3>1, Zenon DEF Owns
          <6>3. \A x \in 1 .. L : OfDefault(t, x) => Inside(t, x)
            BY <2>1, <3>1, Zenon DEF Owns
          <6> QED
            BY <4>1, <4>3, <6>1, <6>2, <6>3, DefaultOnce, Zenon DEF L, OfDefault
        <5>2. ASSUME s.hand # <<>> PROVE ~OneDefault(t)
          <6>1. PICK h \in 1 .. L : t.lines[h].k = "default" /\ ~Within(s, h)
            BY <2>1, <5>2, Zenon DEF Owns
          <6>2. ~Inside(t, h)
            BY <3>1, <6>1
          <6> QED
            BY <4>1, <6>1, <6>2, DefaultOnce, Zenon DEF L
        <5> QED
          BY <5>1, <5>2
      <4>5. OneFound(s) <=> s.hand = <<>>
        BY <1>10, <2>4, <3>2 DEF OneFound
      <4> QED
        BY <1>7, <1>8, <3>2, <4>1, <4>2, <4>4, <4>5, Zenon DEF L
    <3>3. CASE s.managed = <<>>
      <4>1. \A x \in 1 .. L : ~Within(s, x)
        BY <2>4, <3>3, WithinNone
      <4>2. \A c, d \in 1 .. L : ~IsManaged(t, c, d)
        BY <2>1, <4>1, Zenon DEF Owns, IsManaged
      <4>3. DefaultBlocks(t) = {}
        <5>1. ASSUME NEW p \in (1 .. L) \X (1 .. L)
              PROVE  ~IsManaged(t, p[1], p[2])
          BY <4>2
        <5> QED
          BY <5>1, DefaultBlock DEF L
      <4>4. Marks(t, {"default"}) = {x \in 1 .. L : t.lines[x].k = "default"}
        BY <1>1 DEF Marks, L
      <4>5. \A x \in 1 .. L : t.lines[x].k = "default" => s.hand = <<RangeAt(x, x)>>
        BY <2>1, <4>1 DEF Owns
      <4>6. IF s.hand = <<>>
            THEN Marks(t, {"default"}) = {}
            ELSE \E h \in 1 .. L : /\ s.hand = <<RangeAt(h, h)>>
                                   /\ Marks(t, {"default"}) = {h}
        <5>1. CASE s.hand = <<>>
          BY <4>4, <4>5, <5>1, Singletons
        <5>2. CASE s.hand # <<>>
          <6>1. PICK h \in 1 .. L : s.hand = <<RangeAt(h, h)>> /\ t.lines[h].k = "default"
            BY <2>1, <5>2, Zenon DEF Owns
          <6>2. \A x \in 1 .. L : t.lines[x].k = "default" => x = h
            BY <4>5, <6>1, Singletons, SameRange
          <6>3. Marks(t, {"default"}) = {h}
            BY <4>4, <6>1, <6>2
          <6> QED
            BY <5>2, <6>1, <6>3
        <5> QED
          BY <5>1, <5>2
      <4>7. OneDefault(t)
        <5>1. \A x, y \in 1 .. L :
                t.lines[x].k = "default" /\ t.lines[y].k = "default" => x = y
          BY <4>5, Singletons, SameRange
        <5>2. \A x \in 1 .. L : t.lines[x].k \in {"open", "close"} => Inside(t, x)
          BY <2>1, <3>1, Zenon DEF Owns
        <5>3. \A x \in 1 .. L : OfDefault(t, x) => Inside(t, x)
          BY <2>1, <3>1, Zenon DEF Owns
        <5> QED
          BY <4>2, <5>1, <5>2, <5>3, DefaultOnce, Zenon DEF L, OfDefault
      <4>8. OneFound(s)
        BY <1>10, <2>4, <3>3 DEF OneFound
      <4> QED
        BY <1>7, <1>8, <3>3, <4>3, <4>6, <4>7, <4>8, Zenon DEF L
    <3> QED
      BY <3>2, <3>3
  <2> QED
    BY <2>3, <2>4
<1> QED
  BY <1>9, <1>10

-----------------------------------------------------------------------------
(***************************************************************************)
(* Replacing lines: lines p .. q of a text t by n others, u.               *)
(***************************************************************************)

\* The line of a session stays that session's, and the session keeps its portal.
SamePortal(l, m) ==
  l.k = "session" => l.of = m.of /\ Portal(l.keys) = Portal(m.keys)

\* A line with the same mark or name: its other keys do not matter to the scanners.
Same(l, m) ==
  /\ l.k = m.k
  /\ l.k \in {"begin", "end", "profile"} => l.of = m.of
  /\ SamePortal(l, m)

\* Where line x of t is in u, when it is not one of those that are replaced.
Shift(p, q, n, x) == IF x < p THEN x ELSE x + n - (q - p + 1)

Outer(t, p, q) == {x \in 1 .. Len(t.lines) : x < p \/ q < x}

Swaps(t, u, p, q, n) ==
  /\ IsLines(t) /\ IsLines(u)
  /\ p \in 1 .. Len(t.lines) + 1 /\ q \in 0 .. Len(t.lines) /\ p <= q + 1
  /\ n \in Nat
  /\ Len(u.lines) = Len(t.lines) + n - (q - p + 1)
  /\ \A x \in Outer(t, p, q) : Same(t.lines[x], u.lines[Shift(p, q, n, x)])

\* The lines that are not replaced stay as they are, their keys as well.
Exact(t, u, p, q, n) ==
  \A x \in Outer(t, p, q) : u.lines[Shift(p, q, n, x)] = t.lines[x]

\* The lines that stay keep their order, and there are no others but the new ones.
LEMMA Shifting ==
  ASSUME NEW t, NEW u, NEW p, NEW q, NEW n, Swaps(t, u, p, q, n)
  PROVE  /\ Outer(t, p, q) \subseteq 1 .. Len(t.lines)
         /\ \A x \in Outer(t, p, q) :
              /\ Shift(p, q, n, x) \in Outer(u, p, p + n - 1)
              /\ Same(t.lines[x], u.lines[Shift(p, q, n, x)])
         /\ \A y \in Outer(u, p, p + n - 1) :
              \E x \in Outer(t, p, q) : y = Shift(p, q, n, x)
         /\ \A x, y \in Outer(t, p, q) :
              x < y <=> Shift(p, q, n, x) < Shift(p, q, n, y)
         /\ p \in Nat /\ q \in Nat /\ n \in Nat /\ p + n - 1 \in Nat
         /\ \A y \in p .. p + n - 1 : y \in 1 .. Len(u.lines)
         /\ \A x \in p .. q : x \in 1 .. Len(t.lines)
<1> DEFINE L == Len(t.lines)
           K == Len(u.lines)
<1>1. /\ L \in Nat /\ K \in Nat /\ p \in Nat /\ q \in Nat /\ n \in Nat
      /\ 1 <= p /\ p <= q + 1 /\ q <= L /\ K = L + n - (q - p + 1)
  <2>1. L \in Nat /\ K \in Nat
    BY DEF Swaps, IsLines
  <2>2. /\ p \in 1 .. L + 1 /\ q \in 0 .. L /\ p <= q + 1 /\ n \in Nat
        /\ K = L + n - (q - p + 1)
    BY DEF Swaps
  <2> HIDE DEF L, K
  <2> QED
    BY <2>1, <2>2
<1>2. /\ Outer(t, p, q) = {x \in 1 .. L : x < p \/ q < x}
      /\ Outer(u, p, p + n - 1) = {x \in 1 .. K : x < p \/ p + n - 1 < x}
  BY DEF Outer
<1>3. \A x \in Outer(t, p, q) : Same(t.lines[x], u.lines[Shift(p, q, n, x)])
  BY DEF Swaps
<1> HIDE DEF L, K
<1>4. \A y \in Outer(u, p, p + n - 1) :
        \E x \in Outer(t, p, q) : y = Shift(p, q, n, x)
  <2> TAKE y \in Outer(u, p, p + n - 1)
  <2>1. CASE y < p
    <3>1. y \in Outer(t, p, q) /\ y = Shift(p, q, n, y)
      BY <1>1, <1>2, <2>1 DEF Shift
    <3> QED
      BY <3>1
  <2>2. CASE y > p + n - 1
    <3> DEFINE x == y - n + (q - p + 1)
    <3>1. x \in Outer(t, p, q) /\ y = Shift(p, q, n, x)
      BY <1>1, <1>2, <2>2 DEF Shift
    <3> QED
      BY <3>1
  <2> QED
    BY <2>1, <2>2, <1>1, <1>2
<1>5. \A x \in Outer(t, p, q) : Shift(p, q, n, x) \in Outer(u, p, p + n - 1)
  BY <1>1, <1>2 DEF Shift
<1>6. \A x, y \in Outer(t, p, q) :
        x < y <=> Shift(p, q, n, x) < Shift(p, q, n, y)
  BY <1>1, <1>2 DEF Shift
<1>7. /\ Outer(t, p, q) \subseteq 1 .. L
      /\ p + n - 1 \in Nat
      /\ \A y \in p .. p + n - 1 : y \in 1 .. K
      /\ \A x \in p .. q : x \in 1 .. L
  BY <1>1, <1>2
<1> QED
  BY <1>1, <1>3, <1>4, <1>5, <1>6, <1>7 DEF L, K

\* A marker delimits one block only.
LEMMA SameBlock ==
  ASSUME NEW t, IsLines(t),
         NEW i \in 1 .. Len(t.lines), NEW j \in 1 .. Len(t.lines),
         NEW a \in 1 .. Len(t.lines), NEW b \in 1 .. Len(t.lines),
         Delimit(t, i, j), Delimit(t, a, b)
  PROVE  i = a <=> j = b
<1>1. /\ i < j /\ t.lines[i].k = "begin" /\ t.lines[j].k = "end"
      /\ \A x \in i + 1 .. j - 1 : ~IsMark(t, x)
  BY Delimiting
<1>2. /\ a < b /\ t.lines[a].k = "begin" /\ t.lines[b].k = "end"
      /\ \A x \in a + 1 .. b - 1 : ~IsMark(t, x)
  BY Delimiting
<1>3. IsMark(t, i) /\ IsMark(t, j) /\ IsMark(t, a) /\ IsMark(t, b)
  BY <1>1, <1>2 DEF IsMark
<1> QED
  BY <1>1, <1>2, <1>3

Unmarked(t, p, q) == \A x \in p .. q : ~IsMark(t, x)

\* Lines p .. q have one block and no other marker, or none at all.
OneIn(t, p, q, i, j) ==
  /\ i \in p .. q /\ j \in p .. q
  /\ Delimit(t, i, j)
  /\ \A x \in p .. q : IsMark(t, x) => x = i \/ x = j

Balanced(t, p, q) ==
  Unmarked(t, p, q) \/ \E i, j \in p .. q : OneIn(t, p, q, i, j)

\* The markers that come in fit: one block at most, of a session that has no
\* other, and not within another block.
Fits(t, u, p, q, n) ==
  /\ Balanced(t, p, q) /\ Balanced(u, p, p + n - 1)
  /\ Unmarked(u, p, p + n - 1) \/ ~Unmarked(t, p, q) \/ q = Len(t.lines)
  /\ \A y \in p .. p + n - 1 : u.lines[y].k = "begin" =>
       \A x \in Outer(t, p, q) :
         t.lines[x].k = "begin" => t.lines[x].of # u.lines[y].of

\* The other end of a block that is not replaced is not replaced either.
LEMMA PartnerStays ==
  ASSUME NEW t, IsLines(t), NEW p \in Nat, NEW q \in Nat, Balanced(t, p, q),
         p .. q \subseteq 1 .. Len(t.lines),
         NEW i \in 1 .. Len(t.lines), NEW j \in 1 .. Len(t.lines), Delimit(t, i, j)
  PROVE  i \in p .. q <=> j \in p .. q
<1>1. Len(t.lines) \in Nat
  BY DEF IsLines
<1>2. t.lines[i].k = "begin" /\ t.lines[j].k = "end"
  BY Delimiting
<1>3. IsMark(t, i) /\ IsMark(t, j)
  BY <1>2 DEF IsMark
<1>4. SUFFICES ASSUME i \in p .. q \/ j \in p .. q
               PROVE  i \in p .. q /\ j \in p .. q
  OBVIOUS
<1>5. PICK a \in p .. q, b \in p .. q : OneIn(t, p, q, a, b)
  BY <1>3, <1>4 DEF Balanced, Unmarked
<1>6. a \in 1 .. Len(t.lines) /\ b \in 1 .. Len(t.lines) /\ Delimit(t, a, b)
  BY <1>5 DEF OneIn
<1>7. t.lines[a].k = "begin" /\ t.lines[b].k = "end"
  BY <1>6, Delimiting
<1>8. i = a \/ j = b
  BY <1>2, <1>3, <1>4, <1>5, <1>7 DEF OneIn
<1>9. i = a /\ j = b
  BY <1>6, <1>8, SameBlock
<1> QED
  BY <1>9

\* A block that is not replaced stays a block.
LEMMA BlockStays ==
  ASSUME NEW t, NEW u, NEW p, NEW q, NEW n, Swaps(t, u, p, q, n), Fits(t, u, p, q, n),
         NEW i \in Outer(t, p, q), NEW j \in Outer(t, p, q), Delimit(t, i, j)
  PROVE  Delimit(u, Shift(p, q, n, i), Shift(p, q, n, j))
<1> DEFINE f == Shift(p, q, n, i)
           g == Shift(p, q, n, j)
           S(x) == Shift(p, q, n, x)
<1>1. /\ IsLines(t) /\ IsLines(u) /\ p \in Nat /\ q \in Nat /\ n \in Nat
      /\ i \in 1 .. Len(t.lines) /\ j \in 1 .. Len(t.lines)
      /\ Len(t.lines) \in Nat
  BY Shifting DEF Swaps, IsLines
<1>2. /\ i < j
      /\ t.lines[i].k = "begin" /\ t.lines[j].k = "end"
      /\ t.lines[i].of = t.lines[j].of /\ t.lines[i].of # Garbled
      /\ \A x \in i + 1 .. j - 1 : ~IsMark(t, x)
  BY <1>1, Delimiting
<1>3. /\ f \in Outer(u, p, p + n - 1) /\ g \in Outer(u, p, p + n - 1) /\ f < g
      /\ Same(t.lines[i], u.lines[f]) /\ Same(t.lines[j], u.lines[g])
  BY <1>2, Shifting
<1>4. f \in 1 .. Len(u.lines) /\ g \in 1 .. Len(u.lines) /\ Len(u.lines) \in Nat
  BY <1>1, <1>3 DEF Outer, IsLines
<1>5. /\ u.lines[f].k = "begin" /\ u.lines[g].k = "end"
      /\ u.lines[f].of = u.lines[g].of /\ u.lines[f].of # Garbled
  BY <1>2, <1>3 DEF Same
<1>6. \A y \in f + 1 .. g - 1 : ~IsMark(u, y)
  <2> TAKE y \in f + 1 .. g - 1
  <2>1. y \in 1 .. Len(u.lines) /\ f < y /\ y < g
    BY <1>4
  <2>2. CASE y \in Outer(u, p, p + n - 1)
    <3>1. PICK x \in Outer(t, p, q) : y = Shift(p, q, n, x)
      BY <2>2, Shifting
    <3>2. i < x /\ x < j /\ Same(t.lines[x], u.lines[y])
      BY <2>1, <3>1, Shifting
    <3>3. x \in 1 .. Len(t.lines)
      BY DEF Outer
    <3>4. ~IsMark(t, x)
      BY <1>1, <1>2, <3>2, <3>3
    <3> QED
      BY <3>2, <3>4 DEF IsMark, Same
  <2>3. CASE y \notin Outer(u, p, p + n - 1)
    <3>1. y \in p .. p + n - 1
      BY <1>1, <2>1, <2>3 DEF Outer
    <3>2. f < p /\ p + n - 1 < g
      BY <1>1, <1>3, <1>4, <2>1, <3>1 DEF Outer
    <3>3. i < p /\ q < j
      <4>1. /\ p >= 1 /\ i \in Nat /\ j \in Nat
            /\ i < p \/ q < i
            /\ j < p \/ q < j
            /\ p <= q + 1
        BY <1>1 DEF Outer, Swaps
      <4>2. f = (IF i < p THEN i ELSE i + n - (q - p + 1)) /\ g = (IF j < p THEN j ELSE j + n - (q - p + 1))
        BY DEF Shift
      <4> QED
        BY <1>1, <3>2, <4>1, <4>2
    <3>4. \A x \in p .. q : x \in i + 1 .. j - 1
      BY <1>1, <3>3
    <3>5. Unmarked(t, p, q) /\ q # Len(t.lines)
      BY <1>1, <1>2, <3>3, <3>4 DEF Unmarked
    <3>6. Unmarked(u, p, p + n - 1)
      BY <3>5 DEF Fits
    <3> QED
      BY <3>1, <3>6 DEF Unmarked
  <2> QED
    BY <2>2, <2>3
<1> HIDE DEF f, g
<1>7. Delimit(u, f, g)
  BY <1>1, <1>3, <1>4, <1>5, <1>6, Delimiting
<1> QED
  BY <1>7 DEF f, g

\* Every block of the new text that is not new was a block before.
LEMMA BlockWas ==
  ASSUME NEW t, NEW u, NEW p, NEW q, NEW n, Swaps(t, u, p, q, n), Fits(t, u, p, q, n),
         WellNested(t),
         NEW f \in 1 .. Len(u.lines), NEW g \in 1 .. Len(u.lines), Delimit(u, f, g)
  PROVE  \/ OneIn(u, p, p + n - 1, f, g)
         \/ \E i, j \in Outer(t, p, q) :
              /\ Delimit(t, i, j)
              /\ f = Shift(p, q, n, i) /\ g = Shift(p, q, n, j)
<1>1. /\ IsLines(t) /\ IsLines(u) /\ p \in Nat /\ q \in Nat /\ n \in Nat
      /\ p .. q \subseteq 1 .. Len(t.lines) /\ p + n - 1 \in Nat
      /\ p .. p + n - 1 \subseteq 1 .. Len(u.lines)
      /\ Balanced(t, p, q) /\ Balanced(u, p, p + n - 1)
  BY Shifting DEF Swaps, Fits
<1>2. u.lines[f].k = "begin" /\ u.lines[g].k = "end"
  BY <1>1, Delimiting
<1>3. f \in p .. p + n - 1 <=> g \in p .. p + n - 1
  BY <1>1, PartnerStays
<1>4. CASE f \in p .. p + n - 1
  <2>1. IsMark(u, f) /\ IsMark(u, g)
    BY <1>2 DEF IsMark
  <2>2. PICK a \in p .. p + n - 1, b \in p .. p + n - 1 : OneIn(u, p, p + n - 1, a, b)
    <3>1. ~Unmarked(u, p, p + n - 1)
      BY <1>4, <2>1 DEF Unmarked
    <3> QED
      BY <3>1, <1>1, Zenon DEF Balanced
  <2>3. u.lines[a].k = "begin" /\ u.lines[b].k = "end"
    BY <1>1, <2>2, Delimiting DEF OneIn
  <2>4. f = a /\ g = b
    BY <1>2, <1>3, <1>4, <2>1, <2>2, <2>3 DEF OneIn
  <2> QED
    BY <2>2, <2>4
<1>5. CASE f \notin p .. p + n - 1
  <2>1. f \in Outer(u, p, p + n - 1) /\ g \in Outer(u, p, p + n - 1)
    BY <1>1, <1>3, <1>5 DEF Outer, IsLines
  <2>2. PICK i \in Outer(t, p, q) : f = Shift(p, q, n, i)
    BY <2>1, Shifting
  <2>3. i \in 1 .. Len(t.lines) /\ t.lines[i].k = "begin"
    BY <1>2, <2>2, Shifting, SMTT(60) DEF Same, Outer
  <2>4. PICK j \in 1 .. Len(t.lines) : Delimit(t, i, j)
    BY <1>1, <2>3, Nested
  <2>5. j \in Outer(t, p, q)
    <3>1. i \notin p .. q
      BY <1>1 DEF Outer
    <3>2. j \notin p .. q
      BY <1>1, <2>3, <2>4, <3>1, PartnerStays
    <3> QED
      BY <1>1, <3>2 DEF Outer, IsLines
  <2>6. Delimit(u, f, Shift(p, q, n, j))
    BY <2>2, <2>4, <2>5, BlockStays
  <2>7. Shift(p, q, n, j) \in 1 .. Len(u.lines)
    BY <2>5, Shifting DEF Outer
  <2>8. g = Shift(p, q, n, j)
    BY <1>1, <2>6, <2>7, SameBlock
  <2> QED
    BY <2>2, <2>4, <2>5, <2>8
<1> QED
  BY <1>4, <1>5

\* Markers that were in order are in order, when what comes in fits.
LEMMA StaysNested ==
  ASSUME NEW t, NEW u, NEW p, NEW q, NEW n, Swaps(t, u, p, q, n), Fits(t, u, p, q, n),
         WellNested(t)
  PROVE  WellNested(u)
<1> DEFINE N == p .. p + n - 1
<1>1. /\ IsLines(t) /\ IsLines(u) /\ p \in Nat /\ q \in Nat /\ n \in Nat
      /\ p .. q \subseteq 1 .. Len(t.lines) /\ p + n - 1 \in Nat
      /\ N \subseteq 1 .. Len(u.lines)
      /\ Balanced(t, p, q) /\ Balanced(u, p, p + n - 1)
  BY Shifting DEF Swaps, Fits
<1>2. \A y \in 1 .. Len(u.lines) : y \notin N =>
        \E x \in Outer(t, p, q) :
          /\ x \in 1 .. Len(t.lines) /\ x \notin p .. q
          /\ y = Shift(p, q, n, x) /\ Same(t.lines[x], u.lines[y])
  <2> TAKE y \in 1 .. Len(u.lines)
  <2> HAVE y \notin N
  <2>1. y \in Outer(u, p, p + n - 1)
    BY <1>1 DEF Outer, IsLines
  <2>2. PICK x \in Outer(t, p, q) : y = Shift(p, q, n, x)
    BY <2>1, Shifting
  <2>3. Same(t.lines[x], u.lines[y])
    BY <2>2, Shifting
  <2>4. x \in 1 .. Len(t.lines) /\ x \notin p .. q
    BY <1>1 DEF Outer
  <2> QED
    BY <2>2, <2>3, <2>4
<1>3. \A i, j \in 1 .. Len(t.lines) : Delimit(t, i, j) /\ (i \notin p .. q \/ j \notin p .. q)
        => /\ Shift(p, q, n, i) \in 1 .. Len(u.lines)
           /\ Shift(p, q, n, j) \in 1 .. Len(u.lines)
           /\ Delimit(u, Shift(p, q, n, i), Shift(p, q, n, j))
  <2> SUFFICES ASSUME NEW i \in 1 .. Len(t.lines), NEW j \in 1 .. Len(t.lines),
                      Delimit(t, i, j), i \notin p .. q \/ j \notin p .. q
               PROVE  /\ Shift(p, q, n, i) \in 1 .. Len(u.lines)
                      /\ Shift(p, q, n, j) \in 1 .. Len(u.lines)
                      /\ Delimit(u, Shift(p, q, n, i), Shift(p, q, n, j))
    OBVIOUS
  <2>1. i \notin p .. q /\ j \notin p .. q
    BY <1>1, PartnerStays
  <2>2. i \in Outer(t, p, q) /\ j \in Outer(t, p, q)
    BY <1>1, <2>1 DEF Outer, IsLines
  <2>3. Delimit(u, Shift(p, q, n, i), Shift(p, q, n, j))
    BY <2>2, BlockStays
  <2>4. Shift(p, q, n, i) \in 1 .. Len(u.lines) /\ Shift(p, q, n, j) \in 1 .. Len(u.lines)
    BY <2>2, Shifting DEF Outer
  <2> QED
    BY <2>3, <2>4
<1>4. \A y \in 1 .. Len(u.lines) : u.lines[y].k = "begin" =>
        \E z \in 1 .. Len(u.lines) : Delimit(u, y, z)
  <2> TAKE y \in 1 .. Len(u.lines)
  <2> HAVE u.lines[y].k = "begin"
  <2>1. CASE y \in N
    <3>1. IsMark(u, y)
      BY DEF IsMark
    <3>2. PICK a \in N, b \in N : OneIn(u, p, p + n - 1, a, b)
      BY <1>1, <2>1, <3>1 DEF Balanced, Unmarked
    <3>3. a \in 1 .. Len(u.lines) /\ b \in 1 .. Len(u.lines)
      BY <1>1
    <3>4. Delimit(u, a, b) /\ (y = a \/ y = b)
      BY <2>1, <3>1, <3>2 DEF OneIn
    <3>5. y = a
      BY <1>1, <3>3, <3>4, Delimiting
    <3> QED
      BY <3>3, <3>4, <3>5
  <2>2. CASE y \notin N
    <3>1. PICK x \in Outer(t, p, q) :
            /\ x \in 1 .. Len(t.lines) /\ x \notin p .. q
            /\ y = Shift(p, q, n, x) /\ Same(t.lines[x], u.lines[y])
      BY <1>2, <2>2
    <3>2. t.lines[x].k = "begin"
      BY <3>1 DEF Same
    <3>3. PICK j \in 1 .. Len(t.lines) : Delimit(t, x, j)
      BY <1>1, <3>1, <3>2, Nested
    <3> QED
      BY <1>3, <3>1, <3>3
  <2> QED
    BY <2>1, <2>2
<1>5. \A z \in 1 .. Len(u.lines) : u.lines[z].k = "end" =>
        \E y \in 1 .. Len(u.lines) : Delimit(u, y, z)
  <2> TAKE z \in 1 .. Len(u.lines)
  <2> HAVE u.lines[z].k = "end"
  <2>1. CASE z \in N
    <3>1. IsMark(u, z)
      BY DEF IsMark
    <3>2. PICK a \in N, b \in N : OneIn(u, p, p + n - 1, a, b)
      BY <1>1, <2>1, <3>1 DEF Balanced, Unmarked
    <3>3. a \in 1 .. Len(u.lines) /\ b \in 1 .. Len(u.lines)
      BY <1>1
    <3>4. Delimit(u, a, b) /\ (z = a \/ z = b)
      BY <2>1, <3>1, <3>2 DEF OneIn
    <3>5. z = b
      BY <1>1, <3>3, <3>4, Delimiting
    <3> QED
      BY <3>3, <3>4, <3>5
  <2>2. CASE z \notin N
    <3>1. PICK x \in Outer(t, p, q) :
            /\ x \in 1 .. Len(t.lines) /\ x \notin p .. q
            /\ z = Shift(p, q, n, x) /\ Same(t.lines[x], u.lines[z])
      BY <1>2, <2>2
    <3>2. t.lines[x].k = "end"
      BY <3>1 DEF Same
    <3>3. PICK i \in 1 .. Len(t.lines) : Delimit(t, i, x)
      BY <1>1, <3>1, <3>2, Nested
    <3> QED
      BY <1>3, <3>1, <3>3
  <2> QED
    BY <2>1, <2>2
<1>6. \A y, z \in 1 .. Len(u.lines) :
        u.lines[y].k = "begin" /\ u.lines[z].k = "begin" /\ u.lines[y].of = u.lines[z].of
          => y = z
  <2>1. \A y, z \in 1 .. Len(u.lines) :
          y \in N /\ z \in N /\ u.lines[y].k = "begin" /\ u.lines[z].k = "begin" => y = z
    <3> SUFFICES ASSUME NEW y \in N, NEW z \in N,
                        u.lines[y].k = "begin", u.lines[z].k = "begin"
                 PROVE  y = z
      OBVIOUS
    <3>1. IsMark(u, y) /\ IsMark(u, z)
      BY DEF IsMark
    <3>2. PICK a \in N, b \in N : OneIn(u, p, p + n - 1, a, b)
      BY <1>1, <3>1 DEF Balanced, Unmarked
    <3>3. u.lines[b].k = "end"
      BY <1>1, <3>2, Delimiting DEF OneIn
    <3> QED
      BY <3>1, <3>2, <3>3 DEF OneIn
  <2>2. \A y, z \in 1 .. Len(u.lines) :
          y \in N /\ z \notin N /\ u.lines[y].k = "begin" /\ u.lines[z].k = "begin"
            => u.lines[y].of # u.lines[z].of
    BY <1>2 DEF Fits, Same
  <2>3. \A y, z \in 1 .. Len(u.lines) :
          y \notin N /\ z \notin N /\ u.lines[y].k = "begin" /\ u.lines[z].k = "begin"
            /\ u.lines[y].of = u.lines[z].of => y = z
    <3> SUFFICES ASSUME NEW y \in 1 .. Len(u.lines), NEW z \in 1 .. Len(u.lines),
                        y \notin N, z \notin N,
                        u.lines[y].k = "begin", u.lines[z].k = "begin",
                        u.lines[y].of = u.lines[z].of
                 PROVE  y = z
      OBVIOUS
    <3>1. PICK v \in Outer(t, p, q) :
            /\ v \in 1 .. Len(t.lines)
            /\ y = Shift(p, q, n, v) /\ Same(t.lines[v], u.lines[y])
      BY <1>2
    <3>2. PICK w \in Outer(t, p, q) :
            /\ w \in 1 .. Len(t.lines)
            /\ z = Shift(p, q, n, w) /\ Same(t.lines[w], u.lines[z])
      BY <1>2
    <3>3. /\ t.lines[v].k = "begin" /\ t.lines[w].k = "begin"
          /\ t.lines[v].of = t.lines[w].of
      BY <3>1, <3>2 DEF Same
    <3>4. v = w
      BY <1>1, <3>1, <3>2, <3>3, Nested
    <3> QED
      BY <3>1, <3>2, <3>4
  <2> QED
    BY <2>1, <2>2, <2>3
<1> QED
  BY <1>1, <1>4, <1>5, <1>6, Nested

-----------------------------------------------------------------------------
(***************************************************************************)
(* The same for the default block.                                         *)
(***************************************************************************)
\* The default block is not among the lines that are replaced.
Untouched(t, p, q) ==
  \A a, b \in 1 .. Len(t.lines) : IsManaged(t, a, b) => b < p \/ q < a

\* Nothing that comes in is a mark of the default block.
NoMarks(u, p, q) == \A y \in p .. q : u.lines[y].k \notin {"open", "close"}

\* Nor is it a part of it, or the default profile.
NoDefault(u, p, q) ==
  \A y \in p .. q :
    u.lines[y].k \notin {"open", "close", "default"} /\ ~OfDefault(u, y)

\* A line of the new text is a new one, or was there before.
LEMMA OldOrNew ==
  ASSUME NEW t, NEW u, NEW p, NEW q, NEW n, Swaps(t, u, p, q, n),
         NEW y \in 1 .. Len(u.lines), y \notin p .. p + n - 1
  PROVE  \E x \in Outer(t, p, q) :
           /\ x \in 1 .. Len(t.lines) /\ x \notin p .. q
           /\ y = Shift(p, q, n, x) /\ Same(t.lines[x], u.lines[y])
<1>1. /\ p \in Nat /\ q \in Nat /\ n \in Nat /\ Len(u.lines) \in Nat
      /\ p + n - 1 \in Nat
  BY Shifting DEF Swaps, IsLines
<1>2. y \in Outer(u, p, p + n - 1)
  BY <1>1 DEF Outer
<1>3. PICK x \in Outer(t, p, q) : y = Shift(p, q, n, x)
  BY <1>2, Shifting
<1>4. Same(t.lines[x], u.lines[y])
  BY <1>3, Shifting
<1>5. x \in 1 .. Len(t.lines) /\ x \notin p .. q
  BY <1>1 DEF Outer
<1> QED
  BY <1>3, <1>4, <1>5

\* What an old line is, in the new text.
LEMMA StillThere ==
  ASSUME NEW t, NEW u, NEW p, NEW q, NEW n, Swaps(t, u, p, q, n),
         NEW x \in Outer(t, p, q)
  PROVE  LET y == Shift(p, q, n, x)
         IN /\ x \in 1 .. Len(t.lines) /\ y \in 1 .. Len(u.lines)
            /\ y \notin p .. p + n - 1
            /\ t.lines[x].k = u.lines[y].k
            /\ OfDefault(t, x) <=> OfDefault(u, y)
<1>1. /\ p \in Nat /\ q \in Nat /\ n \in Nat /\ Len(u.lines) \in Nat
      /\ p + n - 1 \in Nat
  BY Shifting DEF Swaps, IsLines
<1>2. /\ Shift(p, q, n, x) \in Outer(u, p, p + n - 1)
      /\ Same(t.lines[x], u.lines[Shift(p, q, n, x)])
  BY Shifting
<1>3. x \in 1 .. Len(t.lines) /\ Shift(p, q, n, x) \in 1 .. Len(u.lines)
  BY <1>2 DEF Outer
<1>4. Shift(p, q, n, x) \notin p .. p + n - 1
  BY <1>1, <1>2 DEF Outer
<1>5. t.lines[x].k = u.lines[Shift(p, q, n, x)].k
  BY <1>2 DEF Same
<1>6. OfDefault(t, x) <=> OfDefault(u, Shift(p, q, n, x))
  BY <1>2 DEF Same, OfDefault, Defines
<1> QED
  BY <1>3, <1>4, <1>5, <1>6

\* The default block stays when lines outside it are replaced by lines without its marks.
LEMMA ManagedStays ==
  ASSUME NEW t, NEW u, NEW p, NEW q, NEW n, Swaps(t, u, p, q, n),
         Untouched(t, p, q), NoMarks(u, p, p + n - 1),
         NEW a \in 1 .. Len(t.lines), NEW b \in 1 .. Len(t.lines), IsManaged(t, a, b)
  PROVE  /\ a \in Outer(t, p, q) /\ b \in Outer(t, p, q)
         /\ \A x \in a .. b : x \in Outer(t, p, q)
         /\ a + 1 \in a .. b /\ Shift(p, q, n, a + 1) = Shift(p, q, n, a) + 1
         /\ IsManaged(u, Shift(p, q, n, a), Shift(p, q, n, b))
<1> DEFINE f == Shift(p, q, n, a)
           g == Shift(p, q, n, b)
<1>1. /\ p \in Nat /\ q \in Nat /\ n \in Nat /\ Len(u.lines) \in Nat
      /\ Len(t.lines) \in Nat /\ p <= q + 1
  BY Shifting DEF Swaps, IsLines
<1>2. /\ a < b /\ t.lines[a].k = "open" /\ t.lines[b].k = "close"
      /\ \A x \in 1 .. a - 1 : t.lines[x].k # "open"
      /\ \A x \in a + 1 .. b - 1 : t.lines[x].k # "close"
  BY DEF IsManaged
<1>3. b < p \/ q < a
  BY DEF Untouched
<1>4. \A x \in a .. b : x \in Outer(t, p, q)
  BY <1>1, <1>2, <1>3 DEF Outer
<1>5. a \in Outer(t, p, q) /\ b \in Outer(t, p, q) /\ a + 1 \in a .. b
  BY <1>1, <1>2, <1>4
<1>6. Shift(p, q, n, a + 1) = f + 1
  BY <1>1, <1>2, <1>3 DEF Shift
<1>7. /\ f \in 1 .. Len(u.lines) /\ g \in 1 .. Len(u.lines) /\ f < g
      /\ u.lines[f].k = "open" /\ u.lines[g].k = "close"
  <2>1. \A x \in Outer(t, p, q) : /\ Shift(p, q, n, x) \in 1 .. Len(u.lines)
                                  /\ t.lines[x].k = u.lines[Shift(p, q, n, x)].k
    BY StillThere
  <2>2. f < g
    BY <1>2, <1>5, Shifting
  <2> QED
    BY <1>2, <1>5, <2>1, <2>2
<1>8. \A y \in 1 .. f - 1 : u.lines[y].k # "open"
  <2> TAKE y \in 1 .. f - 1
  <2>1. y \in 1 .. Len(u.lines) /\ y < f
    BY <1>1, <1>7, SMTT(30)
  <2>2. CASE y \in p .. p + n - 1
    BY <2>2 DEF NoMarks
  <2>3. CASE y \notin p .. p + n - 1
    <3>1. PICK x \in Outer(t, p, q) :
            /\ x \in 1 .. Len(t.lines)
            /\ y = Shift(p, q, n, x) /\ Same(t.lines[x], u.lines[y])
      BY <2>1, <2>3, OldOrNew
    <3>2. x < a
      BY <1>5, <2>1, <3>1, Shifting, SMTT(30)
    <3> QED
      BY <1>1, <1>2, <3>1, <3>2, SMTT(30) DEF Same
  <2> QED
    BY <2>2, <2>3
<1>9. \A y \in f + 1 .. g - 1 : u.lines[y].k # "close"
  <2> TAKE y \in f + 1 .. g - 1
  <2>1. y \in 1 .. Len(u.lines) /\ f < y /\ y < g
    BY <1>1, <1>7, SMTT(30)
  <2>2. CASE y \in p .. p + n - 1
    BY <2>2 DEF NoMarks
  <2>3. CASE y \notin p .. p + n - 1
    <3>1. PICK x \in Outer(t, p, q) :
            /\ x \in 1 .. Len(t.lines)
            /\ y = Shift(p, q, n, x) /\ Same(t.lines[x], u.lines[y])
      BY <2>1, <2>3, OldOrNew
    <3>2. a < x /\ x < b
      BY <1>5, <2>1, <3>1, Shifting, SMTT(30)
    <3> QED
      BY <1>1, <1>2, <3>1, <3>2, SMTT(30) DEF Same
  <2> QED
    BY <2>2, <2>3
<1>10. IsManaged(u, f, g)
  BY <1>7, <1>8, <1>9 DEF IsManaged
<1> QED
  BY <1>4, <1>5, <1>6, <1>10

\* The default block of the new text was the default block before.
LEMMA ManagedWas ==
  ASSUME NEW t, NEW u, NEW p, NEW q, NEW n, Swaps(t, u, p, q, n),
         Untouched(t, p, q), NoMarks(u, p, p + n - 1), OneDefault(t),
         NEW f \in 1 .. Len(u.lines), NEW g \in 1 .. Len(u.lines), IsManaged(u, f, g)
  PROVE  \E a, b \in 1 .. Len(t.lines) :
           /\ a \in Outer(t, p, q) /\ b \in Outer(t, p, q)
           /\ IsManaged(t, a, b)
           /\ f = Shift(p, q, n, a) /\ g = Shift(p, q, n, b)
<1>1. IsLines(t) /\ IsLines(u)
  BY DEF Swaps
<1>2. u.lines[f].k = "open" /\ u.lines[g].k = "close"
  BY DEF IsManaged
<1>3. f \notin p .. p + n - 1 /\ g \notin p .. p + n - 1
  BY <1>2 DEF NoMarks
<1>4. PICK a \in Outer(t, p, q) :
        /\ a \in 1 .. Len(t.lines)
        /\ f = Shift(p, q, n, a) /\ Same(t.lines[a], u.lines[f])
  BY <1>3, OldOrNew
<1>5. t.lines[a].k = "open"
  BY <1>2, <1>4 DEF Same
<1>6. Inside(t, a)
  BY <1>1, <1>4, <1>5, DefaultOnce
<1>7. PICK c \in 1 .. Len(t.lines), d \in 1 .. Len(t.lines) :
        IsManaged(t, c, d) /\ a \in c .. d
  BY <1>6 DEF Inside
<1>8. /\ c \in Outer(t, p, q) /\ d \in Outer(t, p, q)
      /\ IsManaged(u, Shift(p, q, n, c), Shift(p, q, n, d))
  BY <1>7, ManagedStays
<1>9. Shift(p, q, n, c) \in 1 .. Len(u.lines) /\ Shift(p, q, n, d) \in 1 .. Len(u.lines)
  BY <1>8, StillThere
<1>10. f = Shift(p, q, n, c) /\ g = Shift(p, q, n, d)
  BY <1>1, <1>8, <1>9, OneBlock
<1> QED
  BY <1>7, <1>8, <1>10

\* A line is in the default block of the new text when it was in that of the old.
LEMMA InsideStays ==
  ASSUME NEW t, NEW u, NEW p, NEW q, NEW n, Swaps(t, u, p, q, n),
         Untouched(t, p, q), NoMarks(u, p, p + n - 1), OneDefault(t),
         NEW x \in Outer(t, p, q)
  PROVE  Inside(t, x) <=> Inside(u, Shift(p, q, n, x))
<1>1. IsLines(t) /\ IsLines(u)
  BY DEF Swaps
<1>2. ASSUME Inside(t, x)
      PROVE  Inside(u, Shift(p, q, n, x))
  <2>1. PICK a \in 1 .. Len(t.lines), b \in 1 .. Len(t.lines) :
          IsManaged(t, a, b) /\ x \in a .. b
    BY <1>2 DEF Inside
  <2>2. /\ a \in Outer(t, p, q) /\ b \in Outer(t, p, q)
        /\ IsManaged(u, Shift(p, q, n, a), Shift(p, q, n, b))
    BY <2>1, ManagedStays
  <2>3. /\ Shift(p, q, n, a) \in 1 .. Len(u.lines)
        /\ Shift(p, q, n, b) \in 1 .. Len(u.lines)
        /\ Shift(p, q, n, x) \in 1 .. Len(u.lines)
    BY <2>2, StillThere
  <2>4. ~(x < a) /\ ~(b < x)
    BY <1>1, <2>1 DEF IsLines
  <2>5. ~(Shift(p, q, n, x) < Shift(p, q, n, a)) /\ ~(Shift(p, q, n, b) < Shift(p, q, n, x))
    BY <2>2, <2>4, Shifting
  <2>6. Shift(p, q, n, x) \in Shift(p, q, n, a) .. Shift(p, q, n, b)
    BY <1>1, <2>3, <2>5 DEF IsLines
  <2> QED
    BY <2>2, <2>3, <2>6 DEF Inside
<1>3. ASSUME Inside(u, Shift(p, q, n, x))
      PROVE  Inside(t, x)
  <2>1. PICK f \in 1 .. Len(u.lines), g \in 1 .. Len(u.lines) :
          IsManaged(u, f, g) /\ Shift(p, q, n, x) \in f .. g
    BY <1>3 DEF Inside
  <2>2. PICK a \in 1 .. Len(t.lines), b \in 1 .. Len(t.lines) :
          /\ a \in Outer(t, p, q) /\ b \in Outer(t, p, q)
          /\ IsManaged(t, a, b)
          /\ f = Shift(p, q, n, a) /\ g = Shift(p, q, n, b)
    BY <2>1, ManagedWas
  <2>3. ~(Shift(p, q, n, x) < Shift(p, q, n, a)) /\ ~(Shift(p, q, n, b) < Shift(p, q, n, x))
    BY <1>1, <2>1, <2>2 DEF IsLines
  <2>4. ~(x < a) /\ ~(b < x)
    BY <2>2, <2>3, Shifting
  <2>5. x \in a .. b
    BY <1>1, <2>4, StillThere DEF IsLines
  <2> QED
    BY <2>2, <2>5 DEF Inside
<1> QED
  BY <1>2, <1>3

\* A text with one default profile at most has no other, when what comes in has
\* none and the default block stays.
LEMMA StaysOneDefault ==
  ASSUME NEW t, NEW u, NEW p, NEW q, NEW n, Swaps(t, u, p, q, n),
         Untouched(t, p, q), NoDefault(u, p, p + n - 1), OneDefault(t)
  PROVE  OneDefault(u)
<1>1. NoMarks(u, p, p + n - 1)
  BY DEF NoDefault, NoMarks
<1>2. IsLines(t) /\ IsLines(u)
  BY DEF Swaps
<1>3. \A x \in Outer(t, p, q) : Inside(t, x) <=> Inside(u, Shift(p, q, n, x))
  BY <1>1, InsideStays
<1>4. \A y \in 1 .. Len(u.lines) :
        u.lines[y].k \in {"open", "close", "default"} \/ OfDefault(u, y) =>
          \E x \in Outer(t, p, q) :
            /\ x \in 1 .. Len(t.lines) /\ y = Shift(p, q, n, x)
            /\ t.lines[x].k = u.lines[y].k
            /\ OfDefault(t, x) <=> OfDefault(u, y)
            /\ Inside(t, x) <=> Inside(u, y)
  <2> TAKE y \in 1 .. Len(u.lines)
  <2> HAVE u.lines[y].k \in {"open", "close", "default"} \/ OfDefault(u, y)
  <2>1. y \notin p .. p + n - 1
    BY DEF NoDefault
  <2>2. PICK x \in Outer(t, p, q) : x \in 1 .. Len(t.lines) /\ y = Shift(p, q, n, x)
    BY <2>1, OldOrNew
  <2> QED
    BY <1>3, <2>2, StillThere
<1>5. \A x \in 1 .. Len(t.lines) : t.lines[x].k \in {"open", "close"} => Inside(t, x)
  BY <1>2, DefaultOnce
<1>6. \A a, b \in 1 .. Len(t.lines) : IsManaged(t, a, b) => t.lines[a + 1].k = "default"
  BY <1>2, DefaultOnce
<1>7. \A x, y \in 1 .. Len(t.lines) :
        /\ t.lines[x].k = "default" /\ ~Inside(t, x)
        /\ t.lines[y].k = "default" /\ ~Inside(t, y)
        => x = y
  BY <1>2, DefaultOnce
<1>8. \A a, b, x \in 1 .. Len(t.lines) :
        IsManaged(t, a, b) /\ t.lines[x].k = "default" => Inside(t, x)
  BY <1>2, DefaultOnce
<1>9. \A x \in 1 .. Len(t.lines) : OfDefault(t, x) => Inside(t, x)
  BY <1>2, DefaultOnce DEF OfDefault
<1>10. \A y \in 1 .. Len(u.lines) : u.lines[y].k \in {"open", "close"} => Inside(u, y)
  BY <1>4, <1>5
<1>11. \A f, g \in 1 .. Len(u.lines) : IsManaged(u, f, g) => u.lines[f + 1].k = "default"
  <2> SUFFICES ASSUME NEW f \in 1 .. Len(u.lines), NEW g \in 1 .. Len(u.lines),
                      IsManaged(u, f, g)
               PROVE  u.lines[f + 1].k = "default"
    OBVIOUS
  <2>1. PICK a \in 1 .. Len(t.lines), b \in 1 .. Len(t.lines) :
          IsManaged(t, a, b) /\ f = Shift(p, q, n, a)
    BY <1>1, ManagedWas
  <2>2. a + 1 \in Outer(t, p, q) /\ Shift(p, q, n, a + 1) = f + 1
    BY <1>1, <2>1, ManagedStays
  <2> QED
    BY <1>6, <2>1, <2>2, StillThere
<1>12. \A x, y \in 1 .. Len(u.lines) :
         /\ u.lines[x].k = "default" /\ ~Inside(u, x)
         /\ u.lines[y].k = "default" /\ ~Inside(u, y)
         => x = y
  BY <1>4, <1>7
<1>13. \A f, g, y \in 1 .. Len(u.lines) :
         IsManaged(u, f, g) /\ u.lines[y].k = "default" => Inside(u, y)
  BY <1>1, <1>4, <1>8, ManagedWas
<1>14. \A y \in 1 .. Len(u.lines) : OfDefault(u, y) => Inside(u, y)
  BY <1>4, <1>9
<1> QED
  BY <1>2, <1>10, <1>11, <1>12, <1>13, <1>14, DefaultOnce DEF OfDefault

\* Blocks and the default block that were apart stay apart.
AreApart(t) ==
  \A i, j, a, b \in 1 .. Len(t.lines) :
    Delimit(t, i, j) /\ IsManaged(t, a, b) => j < a \/ b < i

\* No block comes to overlap the default block when lines outside it are replaced.
LEMMA StaysApart ==
  ASSUME NEW t, NEW u, NEW p, NEW q, NEW n, Swaps(t, u, p, q, n), Fits(t, u, p, q, n),
         Untouched(t, p, q), NoDefault(u, p, p + n - 1),
         OneDefault(t), WellNested(t), AreApart(t)
  PROVE  AreApart(u)
<1> SUFFICES ASSUME NEW i \in 1 .. Len(u.lines), NEW j \in 1 .. Len(u.lines),
                    NEW f \in 1 .. Len(u.lines), NEW g \in 1 .. Len(u.lines),
                    Delimit(u, i, j), IsManaged(u, f, g)
             PROVE  j < f \/ g < i
  BY DEF AreApart
<1>1. NoMarks(u, p, p + n - 1)
  BY DEF NoDefault, NoMarks
<1>2. PICK a \in 1 .. Len(t.lines), b \in 1 .. Len(t.lines) :
        /\ a \in Outer(t, p, q) /\ b \in Outer(t, p, q)
        /\ IsManaged(t, a, b)
        /\ f = Shift(p, q, n, a) /\ g = Shift(p, q, n, b)
  BY <1>1, ManagedWas
<1>3. CASE OneIn(u, p, p + n - 1, i, j)
  <2>1. b < p \/ q < a
    BY <1>2 DEF Untouched
  <2>2. /\ p \in Nat /\ q \in Nat /\ n \in Nat /\ p <= q + 1 /\ Len(t.lines) \in Nat
        /\ Len(u.lines) \in Nat
    BY Shifting DEF Swaps, IsLines
  <2>3. i \in p .. p + n - 1 /\ j \in p .. p + n - 1
    BY <1>3 DEF OneIn
  <2>4. a < b
    BY <1>2 DEF IsManaged
  <2> QED
    BY <1>2, <2>1, <2>2, <2>3, <2>4 DEF Shift
<1>4. CASE ~OneIn(u, p, p + n - 1, i, j)
  <2>1. PICK x \in Outer(t, p, q), y \in Outer(t, p, q) :
          /\ Delimit(t, x, y)
          /\ i = Shift(p, q, n, x) /\ j = Shift(p, q, n, y)
    BY <1>4, BlockWas
  <2>2. x \in 1 .. Len(t.lines) /\ y \in 1 .. Len(t.lines)
    BY DEF Outer
  <2>3. y < a \/ b < x
    BY <1>2, <2>1, <2>2 DEF AreApart
  <2> QED
    BY <1>2, <2>1, <2>3, Shifting
<1> QED
  BY <1>3, <1>4

\* A text without a default profile that gets a default block has one.
LEMMA TakesOver ==
  ASSUME NEW t, NEW u, NEW p, NEW q, NEW n, Swaps(t, u, p, q, n),
         \A x \in Outer(t, p, q) :
           t.lines[x].k \notin {"open", "close", "default"} /\ ~OfDefault(t, x),
         NEW o \in p .. p + n - 1, o + 2 \in p .. p + n - 1,
         u.lines[o].k = "open", u.lines[o + 1].k = "default",
         u.lines[o + 2].k = "close",
         \A y \in p .. p + n - 1 : y \notin {o, o + 1, o + 2} =>
           u.lines[y].k \notin {"open", "close", "default"} /\ ~OfDefault(u, y)
  PROVE  OneDefault(u)
<1>1. /\ IsLines(u) /\ p \in Nat /\ q \in Nat /\ n \in Nat
      /\ p .. p + n - 1 \subseteq 1 .. Len(u.lines) /\ o \in Nat
  <2>1. /\ p \in Nat /\ q \in Nat /\ n \in Nat
        /\ \A y \in p .. p + n - 1 : y \in 1 .. Len(u.lines)
    BY Shifting
  <2>2. IsLines(u)
    BY DEF Swaps
  <2> QED
    BY <2>1, <2>2
<1>2. o \in 1 .. Len(u.lines) /\ o + 1 \in 1 .. Len(u.lines) /\ o + 2 \in 1 .. Len(u.lines)
  BY <1>1
<1>3. \A y \in 1 .. Len(u.lines) : y \notin {o, o + 1, o + 2} =>
        u.lines[y].k \notin {"open", "close", "default"} /\ ~OfDefault(u, y)
  <2> TAKE y \in 1 .. Len(u.lines)
  <2> HAVE y \notin {o, o + 1, o + 2}
  <2>1. CASE y \in p .. p + n - 1
    BY <2>1
  <2>2. CASE y \notin p .. p + n - 1
    <3>1. PICK x \in Outer(t, p, q) : y = Shift(p, q, n, x)
      BY <2>2, OldOrNew
    <3>2. t.lines[x].k = u.lines[y].k /\ (OfDefault(t, x) <=> OfDefault(u, y))
      BY <3>1, StillThere
    <3> QED
      BY <3>2
  <2> QED
    BY <2>1, <2>2
<1>4. \A y \in {o, o + 1, o + 2} : ~OfDefault(u, y)
  BY DEF OfDefault, Defines
<1>5. /\ \A y \in 1 .. Len(u.lines) : u.lines[y].k = "open" <=> y = o
      /\ \A y \in 1 .. Len(u.lines) : u.lines[y].k = "close" <=> y = o + 2
      /\ \A y \in 1 .. Len(u.lines) : u.lines[y].k = "default" <=> y = o + 1
      /\ \A y \in 1 .. Len(u.lines) : ~OfDefault(u, y)
  BY <1>1, <1>3, <1>4
<1>6. \A f, g \in 1 .. Len(u.lines) : IsManaged(u, f, g) <=> f = o /\ g = o + 2
  <2> TAKE f \in 1 .. Len(u.lines), g \in 1 .. Len(u.lines)
  <2>1. IsManaged(u, f, g) => f = o /\ g = o + 2
    BY <1>5 DEF IsManaged
  <2>2. IsManaged(u, o, o + 2)
    BY <1>1, <1>2, <1>5 DEF IsManaged, IsLines
  <2> QED
    BY <2>1, <2>2
<1>7. \A y \in {o, o + 1, o + 2} : Inside(u, y)
  BY <1>1, <1>2, <1>6 DEF Inside
<1>8. /\ \A y \in 1 .. Len(u.lines) : u.lines[y].k \in {"open", "close"} => Inside(u, y)
      /\ \A y \in 1 .. Len(u.lines) : u.lines[y].k = "default" => Inside(u, y)
  BY <1>5, <1>7
<1>9. \A f, g \in 1 .. Len(u.lines) : IsManaged(u, f, g) => u.lines[f + 1].k = "default"
  BY <1>6
<1> QED
  BY <1>1, <1>5, <1>8, <1>9, DefaultOnce DEF OfDefault

-----------------------------------------------------------------------------
(***************************************************************************)
(* What the commands do to a text, told as lines that are replaced.        *)
(***************************************************************************)
Puts(u, p, ls) == \A i \in 1 .. Len(ls) : u.lines[p + i - 1] = ls[i]

\* Lines are left out, and others put in their place.
LEMMA PartsSwap ==
  ASSUME NEW t, IsText(t), NEW range, IsRange(t, range), NEW ls, AreLines(ls)
  PROVE  \A u : /\ IsText(u)
                /\ u.lines = (SubSeq(t.lines, 1, range.first - 1) \o ls)
                               \o SubSeq(t.lines, range.last + 1, Len(t.lines))
                => /\ Swaps(t, u, range.first, range.last, Len(ls))
                   /\ Exact(t, u, range.first, range.last, Len(ls))
                   /\ Puts(u, range.first, ls)
<1>1. SUFFICES ASSUME NEW u, IsText(u),
                      u.lines = (SubSeq(t.lines, 1, range.first - 1) \o ls)
                                  \o SubSeq(t.lines, range.last + 1, Len(t.lines))
               PROVE  /\ Swaps(t, u, range.first, range.last, Len(ls))
                      /\ Exact(t, u, range.first, range.last, Len(ls))
                      /\ Puts(u, range.first, ls)
  OBVIOUS
<1> DEFINE L == Len(t.lines)
           p == range.first
           q == range.last
           n == Len(ls)
           a == SubSeq(t.lines, 1, p - 1)
           c == SubSeq(t.lines, q + 1, L)
<1>2. u.lines = (a \o ls) \o c
  BY <1>1
<1>3. /\ IsLines(t) /\ IsLines(u) /\ L \in Nat /\ IsSeq(t.lines) /\ IsSeq(ls)
      /\ n \in Nat
  BY <1>1, TextFacts, SeqFacts DEF AreLines
<1>4. p \in 1 .. L /\ q \in 1 .. L /\ p <= q
  BY DEF IsRange
<1>5. /\ IsSeq(a) /\ Len(a) = p - 1 /\ \A i \in 1 .. p - 1 : a[i] = t.lines[i]
      /\ IsSeq(c) /\ Len(c) = L - q /\ \A i \in 1 .. L - q : c[i] = t.lines[q + i]
  <2>1. /\ p - 1 \in 0 .. L /\ 1 <= p - 1 + 1 /\ q + 1 \in Nat \ {0} /\ L \in 0 .. L
        /\ q + 1 <= L + 1 /\ 1 \in Nat \ {0}
    BY <1>3, <1>4
  <2>2. IsSeq(a) /\ Len(a) = p - 1 - 1 + 1 /\ \A i \in 1 .. p - 1 - 1 + 1 : a[i] = t.lines[1 + i - 1]
    BY <1>3, <2>1, PartFacts
  <2>3. /\ IsSeq(c) /\ Len(c) = L - (q + 1) + 1
        /\ \A i \in 1 .. L - (q + 1) + 1 : c[i] = t.lines[q + 1 + i - 1]
    BY <1>3, <2>1, PartFacts
  <2>4. p - 1 - 1 + 1 = p - 1 /\ L - (q + 1) + 1 = L - q
    BY <1>3, <1>4
  <2>5. /\ \A i \in 1 .. p - 1 : 1 + i - 1 = i
        /\ \A i \in 1 .. L - q : q + 1 + i - 1 = q + i
    BY <1>3, <1>4
  <2> HIDE DEF a, c
  <2> QED
    BY <2>2, <2>3, <2>4, <2>5
<1> HIDE DEF a, c, L, n, p, q
<1>6. /\ IsSeq(a \o ls) /\ Len(a \o ls) = p - 1 + n
      /\ \A i \in 1 .. p - 1 + n :
           (a \o ls)[i] = IF i <= p - 1 THEN a[i] ELSE ls[i - (p - 1)]
  BY <1>3, <1>5, ConcatFacts DEF n
<1>7. /\ Len(u.lines) = p - 1 + n + (L - q)
      /\ \A i \in 1 .. p - 1 + n + (L - q) :
           u.lines[i] = IF i <= p - 1 + n THEN (a \o ls)[i] ELSE c[i - (p - 1 + n)]
  BY <1>2, <1>5, <1>6, ConcatFacts
<1>8. \A x \in Outer(t, p, q) : u.lines[Shift(p, q, n, x)] = t.lines[x]
  <2> TAKE x \in Outer(t, p, q)
  <2>1. x \in 1 .. L /\ (x < p \/ q < x)
    BY DEF Outer, L
  <2>2. CASE x < p
    BY <1>3, <1>4, <1>5, <1>6, <1>7, <2>1, <2>2 DEF Shift
  <2>3. CASE ~(x < p)
    <3>1. Shift(p, q, n, x) = x + n - (q - p + 1)
      BY <2>3 DEF Shift
    <3>2. /\ x + n - (q - p + 1) \in 1 .. p - 1 + n + (L - q)
          /\ ~(x + n - (q - p + 1) <= p - 1 + n)
          /\ x + n - (q - p + 1) - (p - 1 + n) = x - q
          /\ x - q \in 1 .. L - q /\ q + (x - q) = x
      BY <1>3, <1>4, <2>1, <2>3
    <3>3. u.lines[x + n - (q - p + 1)] = c[x - q]
      <4>1. \A i \in 1 .. p - 1 + n + (L - q) :
              ~(i <= p - 1 + n) => u.lines[i] = c[i - (p - 1 + n)]
        BY <1>7
      <4> DEFINE v == x + n - (q - p + 1)
      <4>2. /\ v \in 1 .. p - 1 + n + (L - q) /\ ~(v <= p - 1 + n)
            /\ v - (p - 1 + n) = x - q
        BY <1>3, <1>4, <2>1, <2>3
      <4> HIDE DEF v
      <4>3. u.lines[v] = c[v - (p - 1 + n)]
        BY <4>1, <4>2
      <4>4. u.lines[v] = c[x - q]
        BY <4>2, <4>3
      <4> QED
        BY <4>4 DEF v
    <3> QED
      BY <1>5, <3>1, <3>2, <3>3
  <2> QED
    BY <2>2, <2>3
<1>9. \A i \in 1 .. n : u.lines[p + i - 1] = ls[i]
  <2> TAKE i \in 1 .. n
  <2>1. /\ p + i - 1 \in 1 .. p - 1 + n + (L - q) /\ p + i - 1 \in 1 .. p - 1 + n
        /\ p + i - 1 <= p - 1 + n /\ ~(p + i - 1 <= p - 1) /\ p + i - 1 - (p - 1) = i
    BY <1>3, <1>4
  <2>2. u.lines[p + i - 1] = (a \o ls)[p + i - 1]
    BY <1>7, <2>1, Zenon
  <2>3. \A j \in 1 .. p - 1 + n : ~(j <= p - 1) => (a \o ls)[j] = ls[j - (p - 1)]
    BY <1>6
  <2> DEFINE v == p + i - 1
  <2>4. v \in 1 .. p - 1 + n /\ ~(v <= p - 1) /\ v - (p - 1) = i
    BY <1>3, <1>4
  <2>5. u.lines[v] = (a \o ls)[v]
    BY <2>2
  <2> HIDE DEF v
  <2>6. (a \o ls)[v] = ls[v - (p - 1)]
    BY <2>3, <2>4
  <2>7. u.lines[v] = ls[i]
    BY <2>4, <2>5, <2>6
  <2> QED
    BY <2>7 DEF v
<1>10. Swaps(t, u, p, q, n)
  <2>1. p \in 1 .. L + 1 /\ q \in 0 .. L /\ p <= q + 1 /\ Len(u.lines) = L + n - (q - p + 1)
    BY <1>3, <1>4, <1>7
  <2>2. \A x \in Outer(t, p, q) : Same(t.lines[x], u.lines[Shift(p, q, n, x)])
    BY <1>8 DEF Same, SamePortal
  <2> QED
    BY <1>3, <2>1, <2>2 DEF Swaps, L
<1>11. Exact(t, u, p, q, n)
  BY <1>8 DEF Exact
<1> QED
  BY <1>9, <1>10, <1>11 DEF n, p, q, Puts

\* Lines are replaced.
LEMMA SpliceSwaps ==
  ASSUME NEW t, IsText(t), NEW range, IsRange(t, range), NEW ls, AreLines(ls)
  PROVE  LET u == Splice(t, range, Whole(ls))
         IN /\ IsText(u)
            /\ Swaps(t, u, range.first, range.last, Len(ls))
            /\ Exact(t, u, range.first, range.last, Len(ls))
            /\ Puts(u, range.first, ls)
<1> DEFINE u == Splice(t, range, Whole(ls))
<1>1. /\ IsText(u)
      /\ u.lines = (SubSeq(t.lines, 1, range.first - 1) \o ls)
                     \o SubSeq(t.lines, range.last + 1, Len(t.lines))
  BY SpliceLines
<1> HIDE DEF u
<1>2. /\ range.first \in 1 .. Len(t.lines) /\ range.last \in 1 .. Len(t.lines)
      /\ range.first <= range.last
  BY DEF IsRange
<1>3. /\ Swaps(t, u, range.first, range.last, Len(ls))
      /\ Exact(t, u, range.first, range.last, Len(ls))
      /\ Puts(u, range.first, ls)
  BY <1>1, <1>2, PartsSwap
<1> QED
  BY <1>1, <1>3 DEF u

\* Lines are taken out.
LEMMA WithoutSwaps ==
  ASSUME NEW t, IsText(t), NEW range, IsRange(t, range)
  PROVE  LET u == Without(t, range)
         IN /\ IsText(u) /\ Swaps(t, u, range.first, range.last, 0)
            /\ Exact(t, u, range.first, range.last, 0)
<1> DEFINE u == Without(t, range)
           a == SubSeq(t.lines, 1, range.first - 1)
           c == SubSeq(t.lines, range.last + 1, Len(t.lines))
<1>1. IsText(u) /\ u.lines = a \o c
  BY WithoutLines
<1> HIDE DEF u
<1>2. /\ range.first \in 1 .. Len(t.lines) /\ range.last \in 1 .. Len(t.lines)
      /\ range.first <= range.last
  BY DEF IsRange
<1>3. IsSeq(a)
  <2>1. /\ IsSeq(t.lines) /\ 1 \in Nat \ {0} /\ range.first - 1 \in 0 .. Len(t.lines)
        /\ 1 <= range.first - 1 + 1
    BY <1>2, TextFacts
  <2> QED
    BY <2>1, PartFacts
<1>4. u.lines = (a \o <<>>) \o c
  BY <1>1, <1>3, ConcatNothing
<1>5. AreLines(<<>>) /\ Len(<<>>) = 0
  BY SmallSeqs DEF AreLines
<1>6. /\ Swaps(t, u, range.first, range.last, Len(<<>>))
      /\ Exact(t, u, range.first, range.last, Len(<<>>))
  BY <1>1, <1>2, <1>4, <1>5, PartsSwap
<1> QED
  BY <1>1, <1>5, <1>6 DEF u

\* Lines are put after the last, and a blank one before them if there is none.
LEMMA AppendSwaps ==
  ASSUME NEW t, IsText(t), NEW ls, AreLines(ls)
  PROVE  LET u == AppendText(t, Whole(ls))
             L == Len(t.lines)
         IN /\ IsText(u)
            /\ \E e \in {0, 1} :
                 /\ Swaps(t, u, L + 1, L, e + Len(ls))
                 /\ Exact(t, u, L + 1, L, e + Len(ls))
                 /\ e = 1 => u.lines[L + 1] = Blank
                 /\ Puts(u, L + 1 + e, ls)
<1> DEFINE u == AppendText(t, Whole(ls))
           L == Len(t.lines)
           n == Len(ls)
           s == Separated(t).lines
<1>1. /\ IsText(u) /\ u.lines = s \o ls
      /\ s \in {t.lines, t.lines \o <<Blank>>} /\ IsText(Separated(t))
  BY AppendLines
<1> HIDE DEF u, s
<1>2. /\ IsLines(t) /\ IsLines(u) /\ L \in Nat /\ IsSeq(t.lines) /\ IsSeq(ls)
      /\ n \in Nat
  BY <1>1, TextFacts, SeqFacts DEF AreLines
<1>3. PICK e \in {0, 1} :
        /\ IsSeq(s) /\ Len(s) = L + e
        /\ \A i \in 1 .. L : s[i] = t.lines[i]
        /\ e = 1 => s[L + 1] = Blank
  <2>1. CASE s = t.lines
    BY <1>2, <2>1
  <2>2. CASE s = t.lines \o <<Blank>>
    <3>1. IsSeq(<<Blank>>) /\ Len(<<Blank>>) = 1 /\ <<Blank>>[1] = Blank
      BY SmallSeqs
    <3>2. /\ IsSeq(s) /\ Len(s) = L + 1
          /\ \A i \in 1 .. L + 1 :
               s[i] = IF i <= L THEN t.lines[i] ELSE <<Blank>>[i - L]
      BY <1>2, <2>2, <3>1, ConcatFacts
    <3>3. L + 1 \in 1 .. L + 1 /\ ~(L + 1 <= L) /\ L + 1 - L = 1
      BY <1>2
    <3>4. s[L + 1] = Blank
      BY <3>1, <3>2, <3>3
    <3> QED
      BY <1>2, <3>2, <3>4
  <2> QED
    BY <1>1, <2>1, <2>2
<1> HIDE DEF L, n
<1>4. /\ Len(u.lines) = L + e + n
      /\ \A i \in 1 .. L + e + n :
           u.lines[i] = IF i <= L + e THEN s[i] ELSE ls[i - (L + e)]
  <2>1. /\ Len(s \o ls) = Len(s) + Len(ls)
        /\ \A i \in 1 .. Len(s) + Len(ls) :
             (s \o ls)[i] = IF i <= Len(s) THEN s[i] ELSE ls[i - Len(s)]
    BY <1>2, <1>3, ConcatFacts
  <2>2. Len(s) = L + e /\ Len(ls) = n /\ s \o ls = u.lines
    BY <1>1, <1>3 DEF n
  <2> HIDE <1>1
  <2> QED
    BY <2>1, <2>2
<1>5. \A x \in Outer(t, L + 1, L) :
        Shift(L + 1, L, e + n, x) = x /\ u.lines[x] = t.lines[x]
  BY <1>2, <1>3, <1>4 DEF Outer, Shift, L
<1>6. e = 1 => u.lines[L + 1] = Blank
  <2>1. ASSUME e = 1
        PROVE  u.lines[L + 1] = Blank
    <3>1. L + 1 \in 1 .. L + e + n /\ L + 1 <= L + e
      BY <1>2, <2>1
    <3> QED
      BY <1>3, <1>4, <2>1, <3>1
  <2> QED
    BY <2>1
<1>7. \A i \in 1 .. n : u.lines[L + 1 + e + i - 1] = ls[i]
  <2> TAKE i \in 1 .. n
  <2> DEFINE v == L + 1 + e + i - 1
  <2>1. v \in 1 .. L + e + n /\ ~(v <= L + e) /\ v - (L + e) = i
    BY <1>2
  <2> HIDE DEF v
  <2>2. u.lines[v] = ls[i]
    BY <1>4, <2>1
  <2> QED
    BY <2>2 DEF v
<1>8. Swaps(t, u, L + 1, L, e + n)
  <2>1. /\ L + 1 \in 1 .. L + 1 /\ L \in 0 .. L /\ L + 1 <= L + 1 /\ e + n \in Nat
        /\ Len(u.lines) = L + (e + n) - (L - (L + 1) + 1)
    BY <1>2, <1>4
  <2>2. \A x \in Outer(t, L + 1, L) : Same(t.lines[x], u.lines[Shift(L + 1, L, e + n, x)])
    BY <1>5 DEF Same, SamePortal
  <2> QED
    BY <1>2, <2>1, <2>2 DEF Swaps, L
<1>9. Exact(t, u, L + 1, L, e + n)
  BY <1>5 DEF Exact
<1> QED
  BY <1>1, <1>6, <1>7, <1>8, <1>9 DEF u, n, L, Puts

\* Only keys of lines change.
Alike(t, u) ==
  /\ Len(u.lines) = Len(t.lines)
  /\ \A x \in 1 .. Len(t.lines) : Same(t.lines[x], u.lines[x])

\* A text that has the same marks and names line by line has no line replaced.
LEMMA AlikeSwaps ==
  ASSUME NEW t, NEW u, IsText(t), IsText(u), Alike(t, u)
  PROVE  Swaps(t, u, Len(t.lines) + 1, Len(t.lines), 0)
<1> DEFINE L == Len(t.lines)
<1>1. IsLines(t) /\ IsLines(u) /\ L \in Nat
  BY TextFacts
<1>2. \A x \in Outer(t, L + 1, L) : x \in 1 .. L /\ Shift(L + 1, L, 0, x) = x
  BY <1>1 DEF Outer, Shift
<1>3. /\ L + 1 \in 1 .. L + 1 /\ L \in 0 .. L /\ L + 1 <= L + 1 /\ 0 \in Nat
      /\ Len(u.lines) = L + 0 - (L - (L + 1) + 1)
  BY <1>1 DEF Alike
<1>4. \A x \in Outer(t, L + 1, L) : Same(t.lines[x], u.lines[Shift(L + 1, L, 0, x)])
  BY <1>2 DEF Alike
<1> QED
  BY <1>1, <1>3, <1>4 DEF Swaps

-----------------------------------------------------------------------------
(***************************************************************************)
(* Blocks that are put in, replaced and taken out.                         *)
(***************************************************************************)
Begun(t, s) ==
  \E i \in 1 .. Len(t.lines) : t.lines[i].k = "begin" /\ t.lines[i].of = s

\* What `scan` and HasBlock say of a text, in terms of its lines.
LEMMA BlockFacts ==
  ASSUME NEW t, IsText(t)
  PROVE  /\ Scan(t).ok \in BOOLEAN /\ (Scan(t).ok <=> WellNested(t))
         /\ \A b \in Blocks(t) :
              /\ WellNested(t) /\ IsRange(t, b) /\ Delimit(t, b.first, b.last)
              /\ t.lines[b.first].of = b.of
         /\ \A i, j \in 1 .. Len(t.lines) :
              WellNested(t) /\ Delimit(t, i, j) =>
                [of |-> t.lines[i].of, first |-> i, last |-> j] \in Blocks(t)
         /\ \A s : HasBlock(t, s) <=> WellNested(t) /\ Begun(t, s)
         /\ \A s : HasBlock(t, s) => BlockOf(t, s) \in Blocks(t) /\ BlockOf(t, s).of = s
<1> DEFINE L == Len(t.lines)
<1>1. IsLines(t) /\ L \in Nat
  BY TextFacts
<1>2. /\ Scan(t).ok \in BOOLEAN /\ (Scan(t).ok <=> WellNested(t))
      /\ Scan(t).ok => Range(Scan(t).blocks) = {BlockAt(t, p) : p \in Closed(t, L)}
  BY <1>1, ScanRight
<1>3. Blocks(t) = IF WellNested(t) THEN {BlockAt(t, p) : p \in Closed(t, L)} ELSE {}
  BY <1>2 DEF Blocks
<1>4. \A b \in Blocks(t) :
        /\ WellNested(t) /\ IsRange(t, b) /\ Delimit(t, b.first, b.last)
        /\ t.lines[b.first].of = b.of
  <2> TAKE b \in Blocks(t)
  <2>1. WellNested(t) /\ b \in {BlockAt(t, p) : p \in Closed(t, L)}
    BY <1>3
  <2>2. PICK p \in Closed(t, L) : b = BlockAt(t, p)
    BY <2>1
  <2>3. p[1] \in 1 .. L /\ p[2] \in 1 .. L /\ Delimit(t, p[1], p[2])
    BY DEF Closed
  <2>4. p[1] < p[2]
    BY <1>1, <2>3, Delimiting
  <2>5. b.first = p[1] /\ b.last = p[2] /\ b.of = t.lines[p[1]].of
    BY <2>2 DEF BlockAt
  <2>6. IsRange(t, b)
    BY <1>1, <2>3, <2>4, <2>5 DEF IsRange
  <2> QED
    BY <2>1, <2>3, <2>5, <2>6
<1>5. \A i, j \in 1 .. L : WellNested(t) /\ Delimit(t, i, j) =>
        [of |-> t.lines[i].of, first |-> i, last |-> j] \in Blocks(t)
  <2> SUFFICES ASSUME NEW i \in 1 .. L, NEW j \in 1 .. L, WellNested(t), Delimit(t, i, j)
               PROVE  [of |-> t.lines[i].of, first |-> i, last |-> j] \in Blocks(t)
    OBVIOUS
  <2>1. <<i, j>> \in Closed(t, L)
    BY DEF Closed
  <2>2. BlockAt(t, <<i, j>>) = [of |-> t.lines[i].of, first |-> i, last |-> j]
    BY DEF BlockAt
  <2>3. BlockAt(t, <<i, j>>) \in Blocks(t)
    BY <1>3, <2>1
  <2> QED
    BY <2>2, <2>3
<1>6. \A s : HasBlock(t, s) <=> WellNested(t) /\ Begun(t, s)
  <2> TAKE s
  <2>1. ASSUME HasBlock(t, s)
        PROVE  WellNested(t) /\ Begun(t, s)
    <3>1. PICK b \in Blocks(t) : b.of = s
      BY <2>1 DEF HasBlock
    <3>2. /\ WellNested(t) /\ b.first \in 1 .. L /\ b.last \in 1 .. L
          /\ Delimit(t, b.first, b.last) /\ t.lines[b.first].of = s
      BY <1>4, <3>1 DEF IsRange
    <3>3. t.lines[b.first].k = "begin"
      BY <1>1, <3>2, Delimiting
    <3> QED
      BY <3>2, <3>3 DEF Begun
  <2>2. ASSUME WellNested(t), Begun(t, s)
        PROVE  HasBlock(t, s)
    <3>1. PICK i \in 1 .. L : t.lines[i].k = "begin" /\ t.lines[i].of = s
      BY <2>2 DEF Begun
    <3>2. PICK j \in 1 .. L : Delimit(t, i, j)
      BY <1>1, <2>2, <3>1, Nested
    <3> QED
      BY <1>5, <2>2, <3>1, <3>2 DEF HasBlock
  <2> QED
    BY <2>1, <2>2
<1>7. \A s : HasBlock(t, s) => BlockOf(t, s) \in Blocks(t) /\ BlockOf(t, s).of = s
  BY DEF HasBlock, BlockOf
<1> QED
  BY <1>2, <1>4, <1>5, <1>6, <1>7

\* Lines p .. q are a block of s, with sessions and profiles in it, and at most one
\* blank line before it.
PutsBlock(u, p, q, s) ==
  \E i \in p .. q :
    /\ i < q
    /\ u.lines[i].k = "begin" /\ u.lines[i].of = s
    /\ u.lines[q].k = "end" /\ u.lines[q].of = s
    /\ \A y \in p .. q : \/ y = i \/ y = q
                         \/ y < i /\ y = p /\ u.lines[y] = Blank
                         \/ i < y /\ u.lines[y].k \in {"session", "profile"}

\* What kind of line a blank one is.
LEMMA BlankKind == Blank.k = "blank"
BY DEF Blank, Marked, Section

\* A block with only sections in it is balanced, and has none of the marks of the default block.
LEMMA NewBlock ==
  ASSUME NEW u, IsLines(u), NEW p \in Nat, NEW q \in Nat,
         p .. q \subseteq 1 .. Len(u.lines), NEW s, s # Garbled, PutsBlock(u, p, q, s)
  PROVE  /\ Balanced(u, p, q)
         /\ \A y \in p .. q : u.lines[y].k = "begin" => u.lines[y].of = s
         /\ \E y \in p .. q : u.lines[y].k = "begin" /\ u.lines[y].of = s
         /\ \A y \in p .. q : u.lines[y].k \notin {"open", "close", "default"}
<1>1. PICK i \in p .. q :
        /\ i < q
        /\ u.lines[i].k = "begin" /\ u.lines[i].of = s
        /\ u.lines[q].k = "end" /\ u.lines[q].of = s
        /\ \A y \in p .. q : \/ y = i \/ y = q
                             \/ y < i /\ u.lines[y].k = "blank"
                             \/ i < y /\ u.lines[y].k \in {"session", "profile"}
  BY BlankKind DEF PutsBlock
<1>2. i \in 1 .. Len(u.lines) /\ q \in 1 .. Len(u.lines) /\ q \in p .. q
  BY <1>1
<1>3. \A y \in p .. q : IsMark(u, y) => y = i \/ y = q
  BY <1>1 DEF IsMark
<1>4. \A x \in i + 1 .. q - 1 : ~IsMark(u, x)
  BY <1>2, <1>3
<1>5. Delimit(u, i, q)
  BY <1>1, <1>2, <1>4, Delimiting
<1>6. OneIn(u, p, q, i, q)
  BY <1>2, <1>3, <1>5 DEF OneIn
<1>7. Balanced(u, p, q)
  BY <1>2, <1>6 DEF Balanced
<1> QED
  BY <1>1, <1>7

\* The lines of a block as it is rendered.
BodyLines(body) ==
  AreLines(body) /\ \A i \in 1 .. Len(body) : body[i].k \in {"session", "profile"}

BlockLines(s, settings, body) == <<Begin(s, settings)>> \o body \o <<End(s)>>

\* Lines between a first and a last one.
Around(f, body, l) == <<f>> \o body \o <<l>>

\* They are the first, the others in their order, and the last.
LEMMA Bracketed ==
  ASSUME NEW f, IsLine(f), NEW l, IsLine(l), NEW body, AreLines(body)
  PROVE  LET ls == Around(f, body, l)
         IN /\ AreLines(ls) /\ Len(ls) = Len(body) + 2 /\ Len(body) \in Nat
            /\ ls[1] = f /\ ls[Len(body) + 2] = l
            /\ \A i \in 1 .. Len(body) : ls[i + 1] = body[i]
<1> DEFINE b == <<f>>
           e == <<l>>
           n == Len(body)
           ls == <<f>> \o body \o <<l>>
<1>1. /\ AreLines(b) /\ Len(b) = 1 /\ b[1] = f
      /\ AreLines(e) /\ Len(e) = 1 /\ e[1] = l
  BY SmallSeqs DEF AreLines
<1>2. /\ n \in Nat /\ Len(body) = n /\ 1 \in Nat
      /\ IsSeq(body) /\ IsSeq(b) /\ IsSeq(e)
  BY <1>1, SeqFacts DEF AreLines
<1>3. ls = (b \o body) \o e
  OBVIOUS
<1>4. AreLines(b \o body)
  BY <1>1, <1>2, ConcatLines
<1>5. AreLines((b \o body) \o e)
  BY <1>1, <1>4, ConcatLines
<1> DEFINE c == b \o body
<1> HIDE DEF b, e, ls, n
<1>6. /\ IsSeq(c) /\ Len(c) = 1 + n
      /\ \A i \in 1 .. 1 : c[i] = b[i]
      /\ \A i \in 1 .. n : c[1 + i] = body[i]
  <2>1. /\ IsSeq(c) /\ Len(c) = Len(b) + Len(body)
        /\ \A i \in 1 .. Len(b) : c[i] = b[i]
        /\ \A i \in 1 .. Len(body) : c[Len(b) + i] = body[i]
    BY <1>2, ConcatAt
  <2> HIDE DEF c
  <2>2. Len(b) = 1
    BY <1>1
  <2> QED
    BY <1>2, <2>1, <2>2
<1>7. /\ Len(ls) = 1 + n + 1
      /\ \A i \in 1 .. 1 + n : ls[i] = c[i]
      /\ \A i \in 1 .. 1 : ls[1 + n + i] = e[i]
  <2>1. ls = c \o e
    BY <1>3
  <2> HIDE DEF c
  <2> DEFINE d == c \o e
  <2>2. /\ Len(d) = Len(c) + Len(e)
        /\ \A i \in 1 .. Len(c) : d[i] = c[i]
        /\ \A i \in 1 .. Len(e) : d[Len(c) + i] = e[i]
    BY <1>2, <1>6, ConcatAt, SMTT(30)
  <2>3. Len(e) = 1 /\ Len(c) = 1 + n
    BY <1>1, <1>6
  <2> HIDE DEF d
  <2>4. /\ Len(d) = 1 + n + 1
        /\ \A i \in 1 .. 1 + n : d[i] = c[i]
        /\ \A i \in 1 .. 1 : d[1 + n + i] = e[i]
    BY <2>2, <2>3
  <2>5. ls = d
    BY <2>1 DEF d
  <2> QED
    BY <2>4, <2>5
<1> HIDE DEF c
<1>8. Len(ls) = n + 2 /\ ls[1] = b[1] /\ ls[n + 2] = e[1]
  <2>1. 1 \in 1 .. 1 + n /\ 1 \in 1 .. 1 /\ 1 + n + 1 = n + 2
    BY <1>2
  <2>2. ls[1] = b[1] /\ ls[1 + n + 1] = e[1]
    BY <1>6, <1>7, <2>1
  <2> QED
    BY <1>7, <2>1, <2>2
<1>9. \A i \in 1 .. n : ls[i + 1] = body[i]
  <2> TAKE i \in 1 .. n
  <2>1. 1 + i \in 1 .. 1 + n /\ 1 + i = i + 1
    BY <1>2
  <2>2. ls[1 + i] = body[i]
    BY <1>6, <1>7, <2>1
  <2> QED
    BY <2>1, <2>2
<1> QED
  BY <1>1, <1>2, <1>3, <1>5, <1>8, <1>9 DEF n, ls, Around

\* The lines of a block as it is written.
IsRendering(ls, s, settings, body) ==
  /\ AreLines(ls) /\ Len(ls) = Len(body) + 2 /\ Len(body) \in Nat
  /\ ls[1].k = "begin" /\ ls[1].of = s /\ ls[1].keys = settings
  /\ ls[Len(body) + 2].k = "end" /\ ls[Len(body) + 2].of = s
  /\ \A i \in 1 .. Len(body) : ls[i + 1] = body[i]
  /\ Rendered(s, settings, body) = Whole(ls)

\* That is what gac writes for a block.
LEMMA RenderedLines ==
  ASSUME NEW s, NEW settings, AreKeys(settings), NEW body, BodyLines(body)
  PROVE  IsRendering(BlockLines(s, settings, body), s, settings, body)
<1> DEFINE f == Begin(s, settings)
           l == End(s)
           ls == <<f>> \o body \o <<l>>
<1>1. /\ IsLine(f) /\ f.k = "begin" /\ f.of = s /\ f.keys = settings
      /\ IsLine(l) /\ l.k = "end" /\ l.of = s
  BY SomeKeys DEF IsLine, Begin, End, Marked, Section
<1>2. AreLines(body)
  BY DEF BodyLines
<1>3. BlockLines(s, settings, body) = ls /\ Rendered(s, settings, body) = Whole(ls)
  BY DEF BlockLines, Rendered
<1>4. BlockLines(s, settings, body) = Around(f, body, l)
  BY <1>3 DEF Around
<1> HIDE DEF f, l, ls
<1>5. IsLine(f) /\ IsLine(l)
  BY <1>1
<1> DEFINE ar == Around(f, body, l)
<1>6. AreLines(ar)
  BY <1>2, <1>5, Bracketed
<1>7. Len(ar) = Len(body) + 2 /\ Len(body) \in Nat
  BY <1>2, <1>5, Bracketed
<1>8. ar[1] = f
  BY <1>2, <1>5, Bracketed
<1>9. ar[Len(body) + 2] = l
  BY <1>2, <1>5, Bracketed
<1>10. \A i \in 1 .. Len(body) : ar[i + 1] = body[i]
  BY <1>2, <1>5, Bracketed
<1>11. BlockLines(s, settings, body) = ar /\ Rendered(s, settings, body) = Whole(ar)
  BY <1>3, <1>4
<1> HIDE DEF ar
<1>12. IsRendering(ar, s, settings, body)
  BY <1>1, <1>6, <1>7, <1>8, <1>9, <1>10, <1>11 DEF IsRendering
<1> QED
  BY <1>11, <1>12

-----------------------------------------------------------------------------
(***************************************************************************)
(* What a step of a command keeps in order.                                *)
(***************************************************************************)
InOrder(t) == WellNested(t) /\ OneDefault(t) /\ AreApart(t)

Safe(t, u) ==
  /\ WellNested(t) => WellNested(u)
  /\ InOrder(t) => OneDefault(u) /\ AreApart(u)

\* A replacement that fits breaks neither the blocks nor the default block.
LEMMA KeepsOrder ==
  ASSUME NEW t, NEW u, NEW p, NEW q, NEW n, Swaps(t, u, p, q, n), Fits(t, u, p, q, n),
         AreApart(t) => Untouched(t, p, q), NoDefault(u, p, p + n - 1)
  PROVE  Safe(t, u)
<1>1. WellNested(t) => WellNested(u)
  BY StaysNested
<1>2. ASSUME InOrder(t)
      PROVE  OneDefault(u) /\ AreApart(u)
  <2>1. WellNested(t) /\ OneDefault(t) /\ AreApart(t) /\ Untouched(t, p, q)
    BY <1>2 DEF InOrder
  <2> QED
    BY <2>1, StaysOneDefault, StaysApart
<1> QED
  BY <1>1, <1>2 DEF Safe

\* Nothing is replaced when lines are appended.
LEMMA AtTheEnd ==
  ASSUME NEW t, IsLines(t)
  PROVE  LET L == Len(t.lines)
         IN Untouched(t, L + 1, L) /\ Unmarked(t, L + 1, L) /\ Outer(t, L + 1, L) = 1 .. L
BY DEF IsLines, Untouched, Unmarked, Outer

\* An edit of keys alone fits: it adds no mark.
LEMMA AlikeFits ==
  ASSUME NEW t, NEW u, IsText(t), IsText(u), Alike(t, u)
  PROVE  /\ Fits(t, u, Len(t.lines) + 1, Len(t.lines), 0)
         /\ NoDefault(u, Len(t.lines) + 1, Len(t.lines) + 1 + 0 - 1)
<1> DEFINE L == Len(t.lines)
<1>1. IsLines(t) /\ L \in Nat
  BY TextFacts
<1>2. Unmarked(t, L + 1, L)
  BY <1>1, AtTheEnd
<1>3. L + 1 .. L + 1 + 0 - 1 = {}
  BY <1>1
<1>4. NoDefault(u, L + 1, L + 1 + 0 - 1) /\ Unmarked(u, L + 1, L + 1 + 0 - 1)
  BY <1>3 DEF NoDefault, Unmarked
<1> QED
  BY <1>2, <1>3, <1>4 DEF Fits, Balanced

\* An edit of keys alone breaks no marker.
LEMMA AlikeKeeps ==
  ASSUME NEW t, NEW u, IsText(t), IsText(u), Alike(t, u)
  PROVE  /\ Safe(t, u) /\ (OneDefault(t) => OneDefault(u))
         /\ \A s : Begun(u, s) <=> Begun(t, s)
<1> DEFINE L == Len(t.lines)
<1>1. Swaps(t, u, L + 1, L, 0) /\ IsLines(t)
  BY AlikeSwaps, TextFacts
<1>2. Untouched(t, L + 1, L)
  BY <1>1, AtTheEnd
<1>3. Fits(t, u, L + 1, L, 0) /\ NoDefault(u, L + 1, L + 1 + 0 - 1)
  BY AlikeFits
<1>4. Safe(t, u)
  BY <1>1, <1>2, <1>3, KeepsOrder
<1>5. OneDefault(t) => OneDefault(u)
  BY <1>1, <1>2, <1>3, StaysOneDefault
<1>6. \A s : Begun(u, s) <=> Begun(t, s)
  BY <1>1 DEF Alike, Same, Begun
<1> QED
  BY <1>4, <1>5, <1>6

\* The sections among lines p .. q are those of the body, which ends before line q.
FromBody(u, p, q, body) ==
  /\ \A y \in p .. q : u.lines[y].k \in {"session", "profile"} =>
       \E i \in 1 .. Len(body) : y = q - 1 - Len(body) + i /\ u.lines[y] = body[i]
  /\ \A i \in 1 .. Len(body) :
       q - 1 - Len(body) + i \in p .. q /\ u.lines[q - 1 - Len(body) + i] = body[i]

\* A block is appended.
LEMMA AppendBlock ==
  ASSUME NEW t, IsText(t), NEW s, s # Garbled, NEW settings, AreKeys(settings),
         NEW body, BodyLines(body)
  PROVE  LET u == AppendText(t, Rendered(s, settings, body))
             L == Len(t.lines)
         IN /\ IsText(u)
            /\ \E n : /\ Swaps(t, u, L + 1, L, n) /\ PutsBlock(u, L + 1, L + 1 + n - 1, s)
                      /\ FromBody(u, L + 1, L + 1 + n - 1, body)
                      /\ Exact(t, u, L + 1, L, n)
<1> DEFINE u == AppendText(t, Rendered(s, settings, body))
           L == Len(t.lines)
           m == Len(body)
           ls == BlockLines(s, settings, body)
<1>1. /\ AreLines(ls) /\ Len(ls) = m + 2 /\ m \in Nat
      /\ ls[1].k = "begin" /\ ls[1].of = s
      /\ ls[m + 2].k = "end" /\ ls[m + 2].of = s
      /\ \A i \in 1 .. m : ls[i + 1] = body[i]
      /\ Rendered(s, settings, body) = Whole(ls)
  <2>1. IsRendering(ls, s, settings, body)
    BY RenderedLines
  <2> HIDE DEF ls
  <2> QED
    BY <2>1 DEF IsRendering
<1> HIDE DEF ls
<1>2. /\ IsText(u)
      /\ \E e \in {0, 1} :
           /\ Swaps(t, u, L + 1, L, e + Len(ls))
           /\ Exact(t, u, L + 1, L, e + Len(ls))
           /\ e = 1 => u.lines[L + 1] = Blank
           /\ Puts(u, L + 1 + e, ls)
  BY <1>1, AppendSwaps
<1> HIDE DEF u, L
<1>3. PICK e \in {0, 1} :
        /\ Swaps(t, u, L + 1, L, e + (m + 2))
        /\ Exact(t, u, L + 1, L, e + (m + 2))
        /\ e = 1 => u.lines[L + 1] = Blank
        /\ Puts(u, L + 1 + e, ls)
  BY <1>1, <1>2
<1>4. L \in Nat
  BY TextFacts DEF L
<1>5. \A i \in 1 .. m + 2 : u.lines[L + 1 + e + i - 1] = ls[i]
  BY <1>1, <1>3 DEF Puts
<1> DEFINE f == L + 1 + e
           g == L + 1 + (e + (m + 2)) - 1
<1> HIDE DEF m
<1>6. /\ f \in Nat /\ g \in Nat /\ f \in L + 1 .. g /\ f < g
      /\ f = L + 1 + e + 1 - 1 /\ g = L + 1 + e + (m + 2) - 1
      /\ 1 \in 1 .. m + 2 /\ m + 2 \in 1 .. m + 2
  BY <1>1, <1>4
<1>7. u.lines[f] = ls[1] /\ u.lines[g] = ls[m + 2]
  BY <1>5, <1>6
<1>8. \A y \in L + 1 .. g :
        \/ y = f \/ y = g
        \/ y < f /\ y = L + 1 /\ u.lines[y] = Blank
        \/ f < y /\ \E i \in 1 .. m : /\ u.lines[y] = body[i] /\ y = f + i
                                     /\ body[i].k \in {"session", "profile"}
  <2> SUFFICES ASSUME NEW y \in L + 1 .. g, y # f, y # g
               PROVE  \/ y < f /\ y = L + 1 /\ u.lines[y] = Blank
                      \/ f < y /\ \E i \in 1 .. m : /\ u.lines[y] = body[i] /\ y = f + i
                                                   /\ body[i].k \in {"session", "profile"}
    OBVIOUS
  <2>1. CASE y < f
    <3>1. e = 1 /\ y = L + 1
      BY <1>4, <2>1
    <3> QED
      BY <1>3, <2>1, <3>1
  <2>2. CASE f < y
    <3> DEFINE i == y - f
    <3>1. /\ i \in 1 .. m /\ i + 1 \in 1 .. m + 2 /\ L + 1 + e + (i + 1) - 1 = y
          /\ y = f + i
      <4>1. m \in Nat /\ L \in Nat /\ e \in {0, 1}
        BY <1>1, <1>4
      <4> QED
        BY ONLY <4>1, <2>2, y \in L + 1 .. g, y # g, SMTT(30)
    <3> HIDE DEF i
    <3>2. u.lines[y] = ls[i + 1]
      BY <1>5, <3>1
    <3>3. u.lines[y] = body[i]
      BY <1>1, <3>1, <3>2
    <3>4. body[i].k \in {"session", "profile"}
      BY <3>1 DEF BodyLines, m
    <3> QED
      BY <2>2, <3>1, <3>3, <3>4
  <2> QED
    BY <1>4, <1>6, <2>1, <2>2
<1>9. PutsBlock(u, L + 1, g, s)
  <2>1. \A y \in L + 1 .. g : \/ y = f \/ y = g
                              \/ y < f /\ y = L + 1 /\ u.lines[y] = Blank
                              \/ f < y /\ u.lines[y].k \in {"session", "profile"}
    BY <1>8
  <2> QED
    BY <1>1, <1>6, <1>7, <2>1 DEF PutsBlock
<1>10. FromBody(u, L + 1, g, body)
  <2>1. \A i \in 1 .. m : /\ g - 1 - m + i = f + i
                          /\ f + i \in L + 1 .. g /\ i + 1 \in 1 .. m + 2
                          /\ L + 1 + e + (i + 1) - 1 = f + i
    <3>1. m \in Nat /\ L \in Nat /\ e \in {0, 1}
      BY <1>1, <1>4
    <3> QED
      BY ONLY <3>1, SMTT(30)
  <2>2. ASSUME NEW y \in L + 1 .. g, u.lines[y].k \in {"session", "profile"}
        PROVE  \E i \in 1 .. m : y = f + i /\ u.lines[y] = body[i]
    <3>1. y # f /\ y # g
      BY <1>1, <1>7, <2>2
    <3>2. u.lines[y] # Blank
      BY <2>2, BlankKind
    <3> QED
      BY <1>8, <3>1, <3>2
  <2>3. \A i \in 1 .. m : u.lines[f + i] = body[i]
    BY <1>1, <1>5, <2>1
  <2> HIDE DEF f, g
  <2> QED
    BY <2>1, <2>2, <2>3 DEF FromBody, m
<1> QED
  BY <1>2, <1>3, <1>9, <1>10 DEF u, L, m

\* A block is put in the place of others.
LEMMA SpliceBlock ==
  ASSUME NEW t, IsText(t), NEW range, IsRange(t, range),
         NEW s, s # Garbled, NEW settings, AreKeys(settings),
         NEW body, BodyLines(body)
  PROVE  LET u == Splice(t, range, Rendered(s, settings, body))
             p == range.first
         IN /\ IsText(u)
            /\ \E n : /\ Swaps(t, u, p, range.last, n) /\ PutsBlock(u, p, p + n - 1, s)
                      /\ FromBody(u, p, p + n - 1, body)
                      /\ Exact(t, u, p, range.last, n)
                      /\ \A y \in p .. p + n - 1 : u.lines[y] # Blank
<1> DEFINE u == Splice(t, range, Rendered(s, settings, body))
           p == range.first
           m == Len(body)
           ls == BlockLines(s, settings, body)
<1>1. /\ AreLines(ls) /\ Len(ls) = m + 2 /\ m \in Nat
      /\ ls[1].k = "begin" /\ ls[1].of = s
      /\ ls[m + 2].k = "end" /\ ls[m + 2].of = s
      /\ \A i \in 1 .. m : ls[i + 1] = body[i]
      /\ Rendered(s, settings, body) = Whole(ls)
  <2>1. IsRendering(ls, s, settings, body)
    BY RenderedLines
  <2> HIDE DEF ls
  <2> QED
    BY <2>1 DEF IsRendering
<1> HIDE DEF ls
<1>2. /\ IsText(u) /\ Swaps(t, u, p, range.last, Len(ls))
      /\ Exact(t, u, p, range.last, Len(ls)) /\ Puts(u, p, ls)
  BY <1>1, SpliceSwaps
<1>3. p \in Nat
  BY TextFacts DEF IsRange
<1> HIDE DEF u, p
<1>4. Swaps(t, u, p, range.last, m + 2) /\ Exact(t, u, p, range.last, m + 2)
  BY <1>1, <1>2
<1>5. \A i \in 1 .. m + 2 : u.lines[p + i - 1] = ls[i]
  BY <1>1, <1>2 DEF Puts
<1> DEFINE g == p + (m + 2) - 1
<1> HIDE DEF m
<1>6. /\ g \in Nat /\ p \in p .. g /\ p < g /\ p = p + 1 - 1
      /\ 1 \in 1 .. m + 2 /\ m + 2 \in 1 .. m + 2
  BY <1>1, <1>3
<1>7. u.lines[p] = ls[1] /\ u.lines[g] = ls[m + 2]
  BY <1>5, <1>6
<1>8. \A y \in p .. g :
        \/ y = p \/ y = g
        \/ \E i \in 1 .. m : /\ u.lines[y] = body[i] /\ y = p + i
                             /\ body[i].k \in {"session", "profile"}
  <2> SUFFICES ASSUME NEW y \in p .. g, y # p, y # g
               PROVE  \E i \in 1 .. m : /\ u.lines[y] = body[i] /\ y = p + i
                                        /\ body[i].k \in {"session", "profile"}
    OBVIOUS
  <2> DEFINE i == y - p
  <2>1. /\ i \in 1 .. m /\ i + 1 \in 1 .. m + 2 /\ p + (i + 1) - 1 = y
        /\ y = p + i
    BY <1>1, <1>3
  <2> HIDE DEF i
  <2>2. u.lines[y] = ls[i + 1]
    BY <1>5, <2>1
  <2>3. u.lines[y] = body[i]
    BY <1>1, <2>1, <2>2
  <2>4. body[i].k \in {"session", "profile"}
    BY <2>1 DEF BodyLines, m
  <2> QED
    BY <2>1, <2>3, <2>4
<1>9. PutsBlock(u, p, g, s)
  <2>1. \A y \in p .. g : \/ y = p \/ y = g
                          \/ p < y /\ u.lines[y].k \in {"session", "profile"}
    BY <1>3, <1>6, <1>8
  <2>2. /\ u.lines[p].k = "begin" /\ u.lines[p].of = s
        /\ u.lines[g].k = "end" /\ u.lines[g].of = s
    BY <1>1, <1>7
  <2>3. p \in p .. g /\ p < g
    BY <1>6
  <2> HIDE DEF g
  <2> SUFFICES \E i \in p .. g :
                 /\ i < g
                 /\ u.lines[i].k = "begin" /\ u.lines[i].of = s
                 /\ u.lines[g].k = "end" /\ u.lines[g].of = s
                 /\ \A y \in p .. g :
                      \/ y = i \/ y = g
                      \/ y < i /\ y = p /\ u.lines[y] = Blank
                      \/ i < y /\ u.lines[y].k \in {"session", "profile"}
    BY DEF PutsBlock
  <2> p \in p .. g
    BY <2>3
  <2> WITNESS p \in p .. g
  <2> QED
    BY <2>1, <2>2, <2>3
<1>10. FromBody(u, p, g, body)
  <2>1. \A i \in 1 .. m : /\ g - 1 - m + i = p + i
                          /\ p + i \in p .. g /\ i + 1 \in 1 .. m + 2
                          /\ p + (i + 1) - 1 = p + i
    <3>1. m \in Nat /\ g = p + (m + 2) - 1
      BY <1>1
    <3> HIDE DEF g
    <3> QED
      BY ONLY <1>3, <3>1
  <2>2. ASSUME NEW y \in p .. g, u.lines[y].k \in {"session", "profile"}
        PROVE  \E i \in 1 .. m : y = p + i /\ u.lines[y] = body[i]
    <3>1. y # p /\ y # g
      BY <1>1, <1>7, <2>2
    <3> QED
      BY <1>8, <3>1
  <2>3. \A i \in 1 .. m : u.lines[p + i] = body[i]
    BY <1>1, <1>5, <2>1
  <2> HIDE DEF g
  <2> QED
    BY <2>1, <2>2, <2>3 DEF FromBody, m
<1>11. \A y \in p .. g : u.lines[y] # Blank
  BY <1>1, <1>7, <1>8, BlankKind
<1> QED
  BY <1>2, <1>4, <1>9, <1>10, <1>11 DEF u, p, m

\* What an appended block does to the markers.
LEMMA AppendFits ==
  ASSUME NEW t, NEW u, IsText(t), NEW n, NEW s, s # Garbled,
         Swaps(t, u, Len(t.lines) + 1, Len(t.lines), n),
         PutsBlock(u, Len(t.lines) + 1, Len(t.lines) + 1 + n - 1, s)
  PROVE  /\ ~Begun(t, s) => Fits(t, u, Len(t.lines) + 1, Len(t.lines), n)
         /\ \A x : Begun(u, x) <=> Begun(t, x) \/ x = s
<1> DEFINE L == Len(t.lines)
           g == L + 1 + n - 1
<1>1. /\ IsLines(t) /\ IsLines(u) /\ L \in Nat /\ n \in Nat /\ L + 1 \in Nat /\ g \in Nat
      /\ L + 1 .. g \subseteq 1 .. Len(u.lines)
  <2>1. IsLines(t) /\ IsLines(u) /\ L \in Nat /\ n \in Nat
    BY TextFacts DEF Swaps
  <2>2. g \in Nat /\ \A y \in L + 1 .. g : y \in 1 .. Len(u.lines)
    BY Shifting
  <2> QED
    BY <2>1, <2>2
<1>2. /\ Balanced(u, L + 1, g)
      /\ \A y \in L + 1 .. g : u.lines[y].k = "begin" => u.lines[y].of = s
      /\ \E y \in L + 1 .. g : u.lines[y].k = "begin" /\ u.lines[y].of = s
  <2> DEFINE f == L + 1
  <2>1. /\ PutsBlock(u, f, g, s) /\ IsLines(u) /\ f \in Nat /\ g \in Nat
        /\ f .. g \subseteq 1 .. Len(u.lines)
    BY <1>1
  <2> HIDE DEF f, g
  <2>2. /\ Balanced(u, f, g)
        /\ \A y \in f .. g : u.lines[y].k = "begin" => u.lines[y].of = s
        /\ \E y \in f .. g : u.lines[y].k = "begin" /\ u.lines[y].of = s
    BY <2>1, NewBlock
  <2> QED
    BY <2>2 DEF f
<1>3. Unmarked(t, L + 1, L) /\ Outer(t, L + 1, L) = 1 .. L
  BY <1>1, AtTheEnd
<1>4. ~Begun(t, s) => Fits(t, u, L + 1, L, n)
  BY <1>2, <1>3 DEF Fits, Balanced, Begun
<1>5. \A x \in 1 .. L : x \in 1 .. Len(u.lines) /\ Same(t.lines[x], u.lines[x])
  <2> TAKE x \in 1 .. L
  <2>1. x \in Outer(t, L + 1, L)
    BY <1>3
  <2>2. Shift(L + 1, L, n, x) = x
    BY <1>1 DEF Shift
  <2>3. Shift(L + 1, L, n, x) \in 1 .. Len(u.lines)
    BY <2>1, StillThere
  <2> QED
    BY <2>1, <2>2, <2>3 DEF Swaps
<1>6. \A y \in 1 .. Len(u.lines) : y \in 1 .. L \/ y \in L + 1 .. g
  BY <1>1 DEF Swaps
<1>7. \A x : Begun(u, x) <=> Begun(t, x) \/ x = s
  <2> TAKE x
  <2>1. Begun(t, x) => Begun(u, x)
    BY <1>5 DEF Begun, Same
  <2>2. Begun(u, s)
    BY <1>1, <1>2 DEF Begun
  <2>3. ASSUME Begun(u, x), x # s
        PROVE  Begun(t, x)
    <3>1. PICK y \in 1 .. Len(u.lines) : u.lines[y].k = "begin" /\ u.lines[y].of = x
      BY <2>3 DEF Begun
    <3>2. y \in 1 .. L
      BY <1>2, <1>6, <2>3, <3>1
    <3> QED
      BY <1>5, <3>1, <3>2 DEF Begun, Same
  <2> QED
    BY <2>1, <2>2, <2>3
<1> QED
  BY <1>4, <1>7

\* A block that is replaced by one of its session, or taken out.
LEMMA BlockFits ==
  ASSUME NEW t, NEW u, IsText(t), NEW b \in Blocks(t), NEW n,
         Swaps(t, u, b.first, b.last, n),
         n = 0 \/ (b.of # Garbled /\ PutsBlock(u, b.first, b.first + n - 1, b.of))
  PROVE  /\ Fits(t, u, b.first, b.last, n)
         /\ AreApart(t) => Untouched(t, b.first, b.last)
         /\ \A x : x # b.of => (Begun(u, x) <=> Begun(t, x))
         /\ Begun(u, b.of) <=> n # 0
<1> DEFINE p == b.first
           q == b.last
           g == p + n - 1
           s == b.of
<1>1. /\ IsLines(t) /\ IsLines(u) /\ p \in Nat /\ q \in Nat /\ n \in Nat /\ g \in Nat
      /\ p .. g \subseteq 1 .. Len(u.lines)
  <2>1. IsLines(t) /\ IsLines(u)
    BY TextFacts DEF Swaps
  <2>2. p \in Nat /\ q \in Nat /\ n \in Nat /\ g \in Nat /\ \A y \in p .. g : y \in 1 .. Len(u.lines)
    BY Shifting, SMTT(30)
  <2> QED
    BY <2>1, <2>2
<1>2. /\ WellNested(t) /\ p \in 1 .. Len(t.lines) /\ q \in 1 .. Len(t.lines)
      /\ Delimit(t, p, q) /\ t.lines[p].of = s
  BY BlockFacts DEF IsRange
<1>3. /\ p < q /\ t.lines[p].k = "begin" /\ t.lines[q].k = "end"
      /\ \A x \in p + 1 .. q - 1 : ~IsMark(t, x)
  BY <1>1, <1>2, Delimiting
<1>4. OneIn(t, p, q, p, q) /\ IsMark(t, p) /\ p \in p .. q /\ q \in p .. q
  BY <1>1, <1>2, <1>3, SMTT(60) DEF OneIn, IsMark
<1>5. Balanced(t, p, q) /\ ~Unmarked(t, p, q)
  BY <1>4 DEF Balanced, Unmarked
<1>6. /\ Balanced(u, p, g)
      /\ \A y \in p .. g : u.lines[y].k = "begin" => u.lines[y].of = s
      /\ n # 0 => \E y \in p .. g : u.lines[y].k = "begin" /\ u.lines[y].of = s
  <2>1. CASE n = 0
    <3>1. p .. g = {}
      BY <1>1, <2>1
    <3> QED
      BY <2>1, <3>1 DEF Balanced, Unmarked
  <2>2. CASE n # 0
    <3>1. s # Garbled /\ PutsBlock(u, p, g, s)
      BY <2>2
    <3> HIDE DEF p, g, s
    <3> QED
      BY <1>1, <3>1, NewBlock
  <2> QED
    BY <2>1, <2>2
<1>7. \A x \in Outer(t, p, q) :
        x \in 1 .. Len(t.lines) /\ (t.lines[x].k = "begin" => t.lines[x].of # s)
  <2> TAKE x \in Outer(t, p, q)
  <2>1. x \in 1 .. Len(t.lines) /\ x # p
    BY <1>1, <1>3 DEF Outer
  <2>2. t.lines[x].k = "begin" /\ t.lines[x].of = s => x = p
    BY <1>1, <1>2, <1>3, <2>1, Nested
  <2> QED
    BY <2>1, <2>2
<1>8. Fits(t, u, p, q, n)
  BY <1>5, <1>6, <1>7 DEF Fits
<1>9. AreApart(t) => Untouched(t, p, q)
  BY <1>1, <1>2 DEF AreApart, Untouched, IsLines
<1>10. \A x : x # s => (Begun(u, x) <=> Begun(t, x))
  <2> SUFFICES ASSUME NEW x, x # s
               PROVE  Begun(u, x) <=> Begun(t, x)
    OBVIOUS
  <2>1. ASSUME Begun(t, x)
        PROVE  Begun(u, x)
    <3>1. PICK i \in 1 .. Len(t.lines) : t.lines[i].k = "begin" /\ t.lines[i].of = x
      BY <2>1 DEF Begun
    <3>2. i \in Outer(t, p, q)
      <4>1. IsMark(t, i) /\ i # p /\ i # q
        BY <1>2, <1>3, <3>1 DEF IsMark
      <4>2. i \notin p .. q
        BY <1>1, <1>3, <4>1
      <4> QED
        BY <1>1, <4>2 DEF Outer, IsLines
    <3>3. Shift(p, q, n, i) \in 1 .. Len(u.lines) /\ Same(t.lines[i], u.lines[Shift(p, q, n, i)])
      BY <3>2, StillThere, Shifting
    <3> QED
      BY <3>1, <3>3 DEF Begun, Same
  <2>2. ASSUME Begun(u, x)
        PROVE  Begun(t, x)
    <3>1. PICK y \in 1 .. Len(u.lines) : u.lines[y].k = "begin" /\ u.lines[y].of = x
      BY <2>2 DEF Begun
    <3>2. y \notin p .. g
      BY <1>6, <3>1
    <3>3. PICK i \in Outer(t, p, q) : i \in 1 .. Len(t.lines) /\ Same(t.lines[i], u.lines[y])
      BY <3>2, OldOrNew
    <3> QED
      BY <3>1, <3>3 DEF Begun, Same
  <2> QED
    BY <2>1, <2>2
<1>11. Begun(u, s) <=> n # 0
  <2>1. n # 0 => Begun(u, s)
    BY <1>1, <1>6 DEF Begun
  <2>2. ASSUME Begun(u, s), n = 0
        PROVE  FALSE
    <3>1. PICK y \in 1 .. Len(u.lines) : u.lines[y].k = "begin" /\ u.lines[y].of = s
      BY <2>2 DEF Begun
    <3>2. y \notin p .. g
      BY <1>1, <2>2
    <3>3. PICK i \in Outer(t, p, q) : i \in 1 .. Len(t.lines) /\ Same(t.lines[i], u.lines[y])
      BY <3>2, OldOrNew
    <3> QED
      BY <1>7, <3>1, <3>3 DEF Same
  <2> QED
    BY <2>1, <2>2
<1> QED
  BY <1>8, <1>9, <1>10, <1>11

-----------------------------------------------------------------------------
(***************************************************************************)
(* What the commands write below the headers are lines of keys.            *)
(***************************************************************************)
\* So are those of one key.
LEMMA LinesOfTyped ==
  ASSUME NEW keys, AreKeys(keys), NEW key
  PROVE  AreKeys(LinesOf(keys, key))
<1> DEFINE n == Len(keys)
           part(i) == IF keys[i][1] = key THEN <<keys[i]>> ELSE <<>>
           parts == [i \in 1 .. n |-> part(i)]
<1>1. n \in Nat /\ DOMAIN keys = 1 .. n /\ \A i \in 1 .. n : IsKeyLine(keys[i])
  BY SeqFacts DEF AreKeys
<1>2. \A i \in 1 .. n : AreKeys(part(i))
  BY <1>1, SomeKeys
<1>3. LinesOf(keys, key) = FlattenSeq(parts)
  BY <1>1 DEF LinesOf
<1> HIDE DEF n, part
<1>4. parts = [i \in 1 .. n |-> parts[i]] /\ \A i \in 1 .. n : AreKeys(parts[i])
  BY <1>2
<1> HIDE DEF parts
<1>5. AreKeys(FlattenSeq(parts))
  BY <1>1, <1>4, FlatKeys
<1> QED
  BY <1>3, <1>5

\* The settings of a block.
AreSettings(settings) == \A key \in SettingKeys : AreKeys(settings[key])

\* The settings of a block, stored or given by flags, are lines of keys.
LEMMA SettingsTyped ==
  /\ AreKeys(DefaultSettings)
  /\ \A stored, flags : AreKeys(stored) /\ AreKeys(flags) =>
       AreSettings(Settings(stored, flags))
  /\ \A settings : AreSettings(settings) => AreKeys(ToHeader(settings))
<1>1. AreKeys(DefaultSettings)
  <2> DEFINE a == <<"mode", "sso">>
             b == <<"name", "{account}", "/", "{role}">>
  <2>1. IsKeyLine(a) /\ IsKeyLine(b)
    BY FewWords
  <2>2. DefaultSettings = <<a, b>>
    BY DEF DefaultSettings
  <2> HIDE DEF a, b
  <2> QED
    BY <2>1, <2>2, FewWords
<1>2. ASSUME NEW stored, NEW flags, AreKeys(stored), AreKeys(flags)
      PROVE  AreSettings(Settings(stored, flags))
  <2> SUFFICES ASSUME NEW key \in SettingKeys
               PROVE  AreKeys(Settings(stored, flags)[key])
    BY DEF AreSettings
  <2> DEFINE of == CASE Has(flags, key) -> flags
                     [] ~Has(flags, key) /\ Has(stored, key) -> stored
                     [] OTHER -> DefaultSettings
  <2>1. AreKeys(of)
    BY <1>1, <1>2
  <2>2. Settings(stored, flags)[key] = LinesOf(of, key)
    BY DEF Settings
  <2> HIDE DEF of
  <2> QED
    BY <2>1, <2>2, LinesOfTyped
<1>3. ASSUME NEW settings, AreSettings(settings)
      PROVE  AreKeys(ToHeader(settings))
  <2>1. /\ AreKeys(settings["mode"]) /\ AreKeys(settings["name"])
        /\ AreKeys(settings["region"]) /\ AreKeys(settings["include"])
        /\ AreKeys(settings["exclude"])
    BY <1>3 DEF AreSettings, SettingKeys
  <2> QED
    BY <2>1, SomeKeys DEF ToHeader
<1> QED
  BY <1>1, <1>2, <1>3

\* So are those on the BEGIN line of a block.
LEMMA HeaderTyped ==
  ASSUME NEW t, IsText(t), NEW s
  PROVE  AreKeys(Header(t, s))
<1>1. CASE HasBlock(t, s)
  <2>1. IsRange(t, BlockOf(t, s))
    BY <1>1, BlockFacts
  <2>2. IsLine(t.lines[BlockOf(t, s).first])
    BY <2>1 DEF IsRange, IsText, AreLines
  <2> QED
    BY <1>1, <2>2 DEF Header, IsLine
<1>2. CASE ~HasBlock(t, s)
  BY <1>2, SettingsTyped DEF Header
<1> QED
  BY <1>1, <1>2

\* The keys that give a profile its role, and a session its portal.
LEMMA RoleTyped ==
  ASSUME NEW mode, NEW s, NEW account, NEW role
  PROVE  AreKeys(RoleKeys(mode, s, account, role))
<1> DEFINE p == <<"credential_process", "gac", s, account, role>>
           x == <<"sso_session", s>>
           y == <<"sso_account_id", account>>
           z == <<"sso_role_name", role>>
<1>1. IsKeyLine(p) /\ IsKeyLine(x) /\ IsKeyLine(y) /\ IsKeyLine(z)
  BY FewWords
<1>2. RoleKeys(mode, s, account, role) = IF mode = "process" THEN <<p>> ELSE <<x, y, z>>
  BY DEF RoleKeys
<1> HIDE DEF p, x, y, z
<1> QED
  BY <1>1, <1>2, FewWords

\* A session line that gac writes has lines of keys.
LEMMA SessionTyped ==
  ASSUME NEW s, NEW url, IsSeq(url), NEW region, IsSeq(region), NEW scopes, IsSeq(scopes)
  PROVE  AreKeys(SessionLine(s, url, region, scopes).keys)
<1> DEFINE u == Assigned("sso_start_url", url)
           r == Assigned("sso_region", region)
           c == Assigned("sso_registration_scopes", scopes)
<1>1. IsKeyLine(u) /\ IsKeyLine(r) /\ IsKeyLine(c)
  BY SomeKeys
<1>2. SessionLine(s, url, region, scopes).keys =
        <<u, r>> \o IF scopes = <<>> THEN <<>> ELSE <<c>>
  BY DEF SessionLine, Section, Assigned
<1> HIDE DEF u, r, c
<1>3. AreKeys(<<u, r>>) /\ AreKeys(<<c>>)
  BY <1>1, FewWords
<1> QED
  BY <1>2, <1>3, SomeKeys

\* What the file says of a session.
LEMMA SessionWords ==
  ASSUME NEW t, IsText(t), NEW s
  PROVE  /\ IsSeq(PortalOf(t, s)[1]) /\ IsSeq(PortalOf(t, s)[2])
         /\ IsSeq(Scopes(t, s))
<1>1. AreKeys(SectionKeys(t, "session", s))
  BY SectionTyped
<1> QED
  BY <1>1, ReadWords DEF PortalOf, Portal, Scopes

-----------------------------------------------------------------------------
(***************************************************************************)
(* `gac sync` and `gac setup`.                                             *)
(***************************************************************************)
\* A sync plans finitely many profiles.
LEMMA PlannedFinite ==
  ASSUME NEW accounts, IsFiniteSet(accounts),
         \A account \in accounts : IsFiniteSet(account.roles),
         NEW settings, NEW s
  PROVE  IsFiniteSet(Planned(accounts, settings, s))
<1> DEFINE profile(account, role) ==
             [name |-> Render(Tail(settings["name"][1]), account, role, s),
              account |-> account, role |-> role]
           of == [account \in accounts |-> {profile(account, role) : role \in account.roles}]
           named == UNION {of[account] : account \in accounts}
<1>1. \A account \in accounts : IsFiniteSet(of[account])
  <2> TAKE account \in accounts
  <2> DEFINE f == [role \in account.roles |-> profile(account, role)]
  <2>1. IsFiniteSet(DOMAIN f)
    OBVIOUS
  <2>2. IsFiniteSet({f[role] : role \in DOMAIN f})
    BY <2>1, FiniteImage
  <2>3. {f[role] : role \in DOMAIN f} = of[account]
    OBVIOUS
  <2> QED
    BY <2>2, <2>3
<1> HIDE DEF profile
<1>2. IsFiniteSet({of[account] : account \in DOMAIN of})
  <2>1. IsFiniteSet(DOMAIN of)
    OBVIOUS
  <2> QED
    BY <2>1, FiniteImage
<1>3. {of[account] : account \in DOMAIN of} = {of[account] : account \in accounts}
  OBVIOUS
<1> HIDE DEF of
<1>4. IsFiniteSet(named)
  BY <1>1, <1>2, <1>3, FS_UNION
<1>5. Planned(accounts, settings, s) \subseteq named
  BY DEF Planned, of, profile
<1> QED
  BY <1>4, <1>5, FS_Subset

\* What a sync writes into a block are lines of sessions and profiles.
LEMMA ProfileBody ==
  ASSUME NEW profiles, IsFiniteSet(profiles), NEW s, NEW settings, AreSettings(settings)
  PROVE  BodyLines(ProfileLines(profiles, s, settings))
<1> DEFINE order == SetToSeq(profiles)
           line(p) == Section("profile", p.name,
                        RoleKeys(Mode(settings), s, p.account.id, p.role)
                          \o settings["region"])
           ls == [i \in DOMAIN order |-> line(order[i])]
<1>1. Len(order) \in Nat /\ DOMAIN order = 1 .. Len(order)
  BY SetSeqFacts, SeqFacts
<1>2. ProfileLines(profiles, s, settings) = ls
  BY DEF ProfileLines
<1>3. \A p : IsLine(line(p)) /\ line(p).k = "profile"
  <2> TAKE p
  <2> DEFINE keys == RoleKeys(Mode(settings), s, p.account.id, p.role)
                       \o settings["region"]
  <2>1. AreKeys(settings["region"])
    BY DEF AreSettings, SettingKeys
  <2>2. AreKeys(keys)
    BY <2>1, RoleTyped, SomeKeys
  <2>3. line(p) = Section("profile", p.name, keys)
    OBVIOUS
  <2> HIDE DEF keys, line
  <2> QED
    BY <2>2, <2>3 DEF Section, IsLine
<1> HIDE DEF line, order
<1>4. DOMAIN ls = 1 .. Len(order) /\ ls = [i \in 1 .. Len(order) |-> ls[i]]
  BY <1>1
<1>5. \A i \in 1 .. Len(order) : IsLine(ls[i]) /\ ls[i].k = "profile"
  BY <1>1, <1>3
<1> HIDE DEF ls
<1>6. IsSeq(ls) /\ Len(ls) = Len(order)
  BY <1>1, <1>4, FunctionSeq
<1> QED
  BY <1>2, <1>5, <1>6 DEF BodyLines, AreLines

\* A session section is what a block may hold.
LEMMA SessionBody ==
  ASSUME NEW s, NEW url, IsSeq(url), NEW region, IsSeq(region), NEW scopes, IsSeq(scopes)
  PROVE  LET ls == <<SessionLine(s, url, region, scopes)>>
         IN /\ BodyLines(ls) /\ Len(ls) = 1
            /\ \A i \in 1 .. Len(ls) : ls[i].k = "session"
<1> DEFINE line == SessionLine(s, url, region, scopes)
<1>1. IsLine(line) /\ line.k = "session"
  <2>1. AreKeys(line.keys)
    BY SessionTyped
  <2>2. line = [k |-> "session", of |-> s, keys |-> line.keys]
    BY DEF SessionLine, Section
  <2> HIDE DEF line
  <2> QED
    BY <2>1, <2>2 DEF IsLine
<1> HIDE DEF line
<1>2. IsSeq(<<line>>) /\ Len(<<line>>) = 1 /\ <<line>>[1] = line
  BY SmallSeqs
<1>3. \A i \in 1 .. Len(<<line>>) : IsLine(<<line>>[i]) /\ <<line>>[i].k = "session"
  BY <1>1, <1>2
<1>4. /\ BodyLines(<<line>>) /\ Len(<<line>>) = 1
      /\ \A i \in 1 .. Len(<<line>>) : <<line>>[i].k = "session"
  BY <1>2, <1>3 DEF BodyLines, AreLines
<1> QED
  BY <1>4 DEF line

\* Two bodies of a block make one.
LEMMA ConcatBody ==
  ASSUME NEW a, NEW b, BodyLines(a), BodyLines(b)
  PROVE  BodyLines(a \o b)
<1>1. AreLines(a) /\ AreLines(b) /\ AreLines(a \o b) /\ IsSeq(a) /\ IsSeq(b)
  BY ConcatLines DEF BodyLines, AreLines
<1> DEFINE m == Len(a)
           n == Len(b)
           c == a \o b
<1>2. /\ m \in Nat /\ n \in Nat
      /\ \A i \in 1 .. m : a[i].k \in {"session", "profile"}
      /\ \A i \in 1 .. n : b[i].k \in {"session", "profile"}
  BY <1>1, SeqFacts DEF BodyLines
<1>3. /\ Len(c) = m + n
      /\ \A i \in 1 .. m + n : c[i] = IF i <= m THEN a[i] ELSE b[i - m]
  BY <1>1, ConcatFacts
<1> HIDE DEF m, n, c
<1>4. \A i \in 1 .. m + n : c[i].k \in {"session", "profile"}
  <2> TAKE i \in 1 .. m + n
  <2>1. CASE i <= m
    BY <1>2, <1>3, <2>1
  <2>2. CASE ~(i <= m)
    <3>1. i - m \in 1 .. n
      BY <1>2, <2>2
    <3> QED
      BY <1>2, <1>3, <2>2, <3>1
  <2> QED
    BY <2>1, <2>2
<1>5. AreLines(c)
  BY <1>1 DEF c
<1>6. BodyLines(c)
  BY <1>3, <1>4, <1>5 DEF BodyLines
<1> QED
  BY <1>6 DEF c

\* A block whose profiles are not the default profile brings none.
LEMMA NoDefaultIn ==
  ASSUME NEW u, IsText(u), NEW p \in Nat, NEW q \in Nat,
         p .. q \subseteq 1 .. Len(u.lines), NEW s, s # Garbled, PutsBlock(u, p, q, s),
         WellNested(u), ~NamesDefault(u)
  PROVE  NoDefault(u, p, q)
<1>1. IsLines(u) /\ Len(u.lines) \in Nat
  BY TextFacts
<1>2. \A y \in p .. q : u.lines[y].k \notin {"open", "close", "default"}
  BY <1>1, NewBlock
<1>3. PICK i \in p .. q :
        /\ i < q
        /\ u.lines[i].k = "begin" /\ u.lines[i].of = s
        /\ u.lines[q].k = "end" /\ u.lines[q].of = s
        /\ \A y \in p .. q : \/ y = i \/ y = q
                             \/ y < i /\ u.lines[y].k = "blank"
                             \/ i < y /\ u.lines[y].k \in {"session", "profile"}
  BY BlankKind DEF PutsBlock
<1>4. /\ i \in 1 .. Len(u.lines) /\ q \in 1 .. Len(u.lines) /\ i < q
      /\ \A x \in i + 1 .. q - 1 : ~IsMark(u, x)
  <2>1. i \in 1 .. Len(u.lines) /\ q \in 1 .. Len(u.lines)
    BY <1>3
  <2>2. \A x \in i + 1 .. q - 1 : x \in p .. q /\ x # i /\ x # q
    BY <1>1, <1>3
  <2> QED
    BY <1>3, <2>1, <2>2 DEF IsMark
<1>5. Delimit(u, i, q)
  BY <1>1, <1>3, <1>4, Delimiting
<1>6. [of |-> s, first |-> i, last |-> q] \in Blocks(u)
  BY <1>3, <1>4, <1>5, BlockFacts
<1>7. \A y \in i .. q : ~OfDefault(u, y)
  BY <1>6 DEF NamesDefault, OfDefault
<1>8. \A y \in p .. q : ~OfDefault(u, y)
  <2> TAKE y \in p .. q
  <2>1. CASE y < i
    BY <1>3, <2>1 DEF OfDefault, Defines
  <2>2. CASE ~(y < i)
    BY <1>1, <1>4, <1>7, <2>2
  <2> QED
    BY <2>1, <2>2
<1> QED
  BY <1>2, <1>8 DEF NoDefault

\* What a command other than the doctor leaves of the markers and the blocks.
Leaves(t, u) ==
  /\ IsText(u)
  /\ ~WellNested(t) => u = t
  /\ WellNested(t) => WellNested(u)
  /\ \A x : Begun(t, x) => Begun(u, x)

\* A block written over the one before it, or appended, breaks no marker.
LEMMA UpsertKeeps ==
  ASSUME NEW t, IsText(t), WellNested(t), NEW s, s # Garbled,
         NEW settings, AreKeys(settings), NEW body, BodyLines(body)
  PROVE  LET u == Upsert(t, s, Rendered(s, settings, body))
         IN Leaves(t, u) /\ (InOrder(t) /\ ~NamesDefault(u) => OneDefault(u))
<1> DEFINE u == Upsert(t, s, Rendered(s, settings, body))
           b == BlockOf(t, s)
           L == Len(t.lines)
<1>1. CASE HasBlock(t, s)
  <2>1. u = Splice(t, b, Rendered(s, settings, body))
    BY <1>1 DEF Upsert
  <2>2. b \in Blocks(t) /\ b.of = s /\ IsRange(t, b) /\ Begun(t, s)
    BY <1>1, BlockFacts
  <2> HIDE DEF u, b
  <2>3. /\ IsText(u)
        /\ \E n : /\ Swaps(t, u, b.first, b.last, n)
                  /\ PutsBlock(u, b.first, b.first + n - 1, s)
    BY <2>1, <2>2, SpliceBlock
  <2>4. PICK n : /\ Swaps(t, u, b.first, b.last, n)
                 /\ PutsBlock(u, b.first, b.first + n - 1, s)
    BY <2>3
  <2>5. /\ Fits(t, u, b.first, b.last, n)
        /\ AreApart(t) => Untouched(t, b.first, b.last)
        /\ \A x : x # s => (Begun(u, x) <=> Begun(t, x))
        /\ Begun(u, s) <=> n # 0
    BY <2>2, <2>4, BlockFits
  <2>6. /\ b.first \in Nat /\ b.first + n - 1 \in Nat /\ n \in Nat
        /\ b.first .. b.first + n - 1 \subseteq 1 .. Len(u.lines)
    <3>1. /\ b.first \in Nat /\ b.first + n - 1 \in Nat /\ n \in Nat
          /\ \A y \in b.first .. b.first + n - 1 : y \in 1 .. Len(u.lines)
      BY <2>4, Shifting
    <3> QED
      BY <3>1
  <2>7. n # 0
    <3>1. n = 0 => b.first .. b.first + n - 1 = {}
      BY <2>6
    <3> QED
      BY <2>4, <3>1 DEF PutsBlock
  <2>8. WellNested(u)
    BY <2>4, <2>5, StaysNested
  <2>9. ASSUME InOrder(t), ~NamesDefault(u)
        PROVE  OneDefault(u)
    <3>1. NoDefault(u, b.first, b.first + n - 1)
      BY <2>3, <2>4, <2>6, <2>8, <2>9, NoDefaultIn
    <3> QED
      BY <2>4, <2>5, <2>9, <3>1, StaysOneDefault DEF InOrder
  <2> QED
    BY <2>2, <2>3, <2>5, <2>7, <2>8, <2>9 DEF Leaves, u
<1>2. CASE ~HasBlock(t, s)
  <2>1. u = AppendText(t, Rendered(s, settings, body))
    BY <1>2 DEF Upsert
  <2>2. ~Begun(t, s)
    BY <1>2, BlockFacts
  <2>3. IsLines(t) /\ Untouched(t, L + 1, L) /\ L \in Nat
    BY TextFacts, AtTheEnd
  <2> HIDE DEF u
  <2>4. /\ IsText(u)
        /\ \E n : Swaps(t, u, L + 1, L, n) /\ PutsBlock(u, L + 1, L + 1 + n - 1, s)
    BY <2>1, AppendBlock
  <2>5. PICK n : Swaps(t, u, L + 1, L, n) /\ PutsBlock(u, L + 1, L + 1 + n - 1, s)
    BY <2>4
  <2>6. /\ Fits(t, u, L + 1, L, n)
        /\ \A x : Begun(u, x) <=> Begun(t, x) \/ x = s
    BY <2>2, <2>5, AppendFits
  <2>7. /\ L + 1 \in Nat /\ L + 1 + n - 1 \in Nat
        /\ L + 1 .. L + 1 + n - 1 \subseteq 1 .. Len(u.lines)
    <3>1. /\ L + 1 \in Nat /\ L + 1 + n - 1 \in Nat
          /\ \A y \in L + 1 .. L + 1 + n - 1 : y \in 1 .. Len(u.lines)
      BY <2>5, Shifting
    <3> QED
      BY <3>1
  <2> HIDE DEF L
  <2>8. WellNested(u)
    BY <2>5, <2>6, StaysNested
  <2>9. ASSUME InOrder(t), ~NamesDefault(u)
        PROVE  OneDefault(u)
    <3> DEFINE f == L + 1
               g == L + 1 + n - 1
    <3>1. PutsBlock(u, f, g, s) /\ f \in Nat /\ g \in Nat /\ f .. g \subseteq 1 .. Len(u.lines)
      BY <2>5, <2>7
    <3> HIDE DEF f, g
    <3>2. NoDefault(u, f, g)
      BY <2>4, <2>8, <2>9, <3>1, NoDefaultIn
    <3>3. NoDefault(u, L + 1, L + 1 + n - 1)
      BY <3>2 DEF f, g
    <3> QED
      BY <2>3, <2>5, <2>9, <3>3, StaysOneDefault DEF InOrder
  <2> QED
    BY <2>4, <2>6, <2>8, <2>9 DEF Leaves, u
<1> QED
  BY <1>1, <1>2

\* The session that is synced is one.
LEMMA SyncedKnown ==
  ASSUME NEW t, NEW c, IsCommand(c), c.op = "sync"
  PROVE  \A s \in SessionFor(t, c.typed, c.env) : s \in Sessions
<1>1. c.typed \in Sessions \cup {None} /\ c.env \in Sessions \cup {None}
  BY DEF IsCommand, IsAnswered
<1>2. SessionsIn(t) \subseteq Sessions
  BY DEF SessionsIn
<1> DEFINE default == SessionsIn(t) \cap Range(DefaultSession(t))
           named == CASE c.typed # None -> {c.typed}
                      [] c.typed = None /\ c.env # None -> {c.env}
                      [] c.typed = None /\ c.env = None /\ default # {} -> default
                      [] OTHER -> SessionsIn(t)
<1>3. named \subseteq Sessions
  BY <1>1, <1>2
<1>4. SessionFor(t, c.typed, c.env) \subseteq named
  BY DEF SessionFor
<1> QED
  BY <1>3, <1>4

\* What a sync that changes the text writes: the session, if no other section
\* defines it, and profiles whose names are not taken.
LEMMA SyncWrites ==
  ASSUME NEW t, IsText(t), NEW c, IsCommand(c), c.op = "sync", Sync(t, c) # t
  PROVE  LET s == SyncedSession(t, c)
             outside == Outside(t, s)
         IN /\ s \in Sessions /\ s # Garbled /\ WellNested(t)
            /\ \E header, lines :
                 LET body == OwnSession(t, s, outside) \o lines
                 IN /\ AreKeys(header) /\ BodyLines(lines) /\ BodyLines(body)
                    /\ \A i \in 1 .. Len(lines) :
                         /\ lines[i].k = "profile"
                         /\ lines[i].of \notin ProfilesIn(outside)
                    /\ Sync(t, c) = Upsert(t, s, Rendered(s, header, body))
<1> DEFINE s == SyncedSession(t, c)
<1>1. SessionFor(t, c.typed, c.env) # {}
  BY DEF Sync
<1>2. Sync(t, c) = SyncOf(t, c, s) /\ s \in Sessions
  BY <1>1, SyncedKnown DEF Sync, SyncedSession
<1> HIDE DEF s
<1> DEFINE outside == Outside(t, s)
           stored == IF c.reset THEN DefaultSettings ELSE Header(t, s)
           settings == Settings(stored, c.flags)
           planned == Planned(c.portal[s], settings, s)
           kept == Unguarded(planned, c.credentials, outside)
           lines == ProfileLines(kept, s, settings)
           own == OwnSession(t, s, outside)
<1>3. /\ Scan(t).ok
      /\ Sync(t, c) = Upsert(t, s, Rendered(s, ToHeader(settings), own \o lines))
  BY <1>2 DEF SyncOf
<1>4. WellNested(t) /\ s # Garbled
  BY <1>2, <1>3, BlockFacts, NameAssumption
<1>5. AreSettings(settings) /\ AreKeys(ToHeader(settings))
  <2>1. AreKeys(stored)
    BY HeaderTyped, SettingsTyped
  <2>2. AreKeys(c.flags)
    BY KeysTyped DEF IsCommand
  <2> HIDE DEF stored
  <2> QED
    BY <2>1, <2>2, SettingsTyped
<1> HIDE DEF settings
<1>6. IsFiniteSet(kept)
  <2>1. IsFiniteSet(c.portal[s]) /\ \A account \in c.portal[s] : IsFiniteSet(account.roles)
    BY <1>2 DEF IsCommand, IsAnswered
  <2>2. IsFiniteSet(planned)
    BY <2>1, PlannedFinite
  <2> QED
    BY <2>2, FS_Subset DEF Unguarded
<1>7. \A r \in kept : r.name \notin ProfilesIn(outside)
  BY DEF Unguarded, Conflicts
<1> HIDE DEF kept, outside
<1>8. BodyLines(lines)
  BY <1>5, <1>6, ProfileBody
<1>9. BodyLines(own)
  <2>1. BodyLines(<<>>)
    BY SmallSeqs DEF BodyLines, AreLines
  <2> QED
    BY <2>1, SessionWords, SessionBody DEF OwnSession
<1>10. BodyLines(own \o lines)
  BY <1>8, <1>9, ConcatBody
<1>11. \A i \in 1 .. Len(lines) :
         lines[i].k = "profile" /\ lines[i].of \notin ProfilesIn(outside)
  <2> DEFINE order == SetToSeq(kept)
  <2>1. DOMAIN lines = 1 .. Len(lines)
    BY <1>8, SeqFacts DEF BodyLines, AreLines
  <2>2. /\ DOMAIN lines = DOMAIN order
        /\ \A i \in DOMAIN order : lines[i].k = "profile" /\ lines[i].of = order[i].name
    BY DEF ProfileLines, Section
  <2>3. \A i \in DOMAIN order : order[i] \in kept
    BY <1>6, SetSeqFacts DEF Range
  <2> QED
    BY <1>7, <2>1, <2>2, <2>3
<1> HIDE DEF lines, own
<1> QED
  BY <1>2, <1>3, <1>4, <1>5, <1>8, <1>10, <1>11 DEF s, outside, own

\* `gac sync` breaks no marker, unless it plans a profile named like the default one.
LEMMA SyncKeeps ==
  ASSUME NEW t, IsText(t), NEW c, IsCommand(c), c.op = "sync"
  PROVE  LET u == Sync(t, c)
         IN Leaves(t, u) /\ (InOrder(t) /\ ~NamesDefault(u) => OneDefault(u))
<1>1. \A u : u = t => Leaves(t, u) /\ (InOrder(t) => OneDefault(u))
  BY DEF Leaves, InOrder
<1>2. ASSUME Sync(t, c) # t
      PROVE  LET u == Sync(t, c)
             IN Leaves(t, u) /\ (InOrder(t) /\ ~NamesDefault(u) => OneDefault(u))
  BY <1>2, SyncWrites, UpsertKeeps
<1> QED
  BY <1>1, <1>2

\* A block with a session and no profiles is appended.
LEMMA AppendSessionKeeps ==
  ASSUME NEW t, IsText(t), NEW s, s # Garbled, NEW url, IsSeq(url), NEW region, IsSeq(region)
  PROVE  LET u == AppendSession(t, s, url, region)
         IN /\ IsText(u)
            /\ ~Begun(t, s) => Safe(t, u)
            /\ \A x : Begun(u, x) <=> Begun(t, x) \/ x = s
<1> DEFINE L == Len(t.lines)
           body == <<SessionLine(s, url, region, DefaultScope)>>
           u == AppendSession(t, s, url, region)
<1>1. BodyLines(body) /\ \A i \in 1 .. Len(body) : body[i].k = "session"
  BY SessionBody, SmallSeqs DEF DefaultScope
<1>2. u = AppendText(t, Rendered(s, <<>>, body))
  BY DEF AppendSession
<1>3. IsLines(t) /\ Untouched(t, L + 1, L) /\ L \in Nat
  BY TextFacts, AtTheEnd
<1> HIDE DEF u, body
<1>4. /\ IsText(u)
      /\ \E n : /\ Swaps(t, u, L + 1, L, n) /\ PutsBlock(u, L + 1, L + 1 + n - 1, s)
                /\ FromBody(u, L + 1, L + 1 + n - 1, body)
  BY <1>1, <1>2, SomeKeys, AppendBlock
<1>5. PICK n : /\ Swaps(t, u, L + 1, L, n) /\ PutsBlock(u, L + 1, L + 1 + n - 1, s)
               /\ FromBody(u, L + 1, L + 1 + n - 1, body)
  BY <1>4
<1>6. /\ ~Begun(t, s) => Fits(t, u, L + 1, L, n)
      /\ \A x : Begun(u, x) <=> Begun(t, x) \/ x = s
  BY <1>5, AppendFits
<1>7. /\ L + 1 \in Nat /\ L + 1 + n - 1 \in Nat
      /\ L + 1 .. L + 1 + n - 1 \subseteq 1 .. Len(u.lines)
  <2>1. /\ L + 1 \in Nat /\ L + 1 + n - 1 \in Nat
        /\ \A y \in L + 1 .. L + 1 + n - 1 : y \in 1 .. Len(u.lines)
    BY <1>5, Shifting
  <2> QED
    BY <2>1
<1> HIDE DEF L
<1>8. NoDefault(u, L + 1, L + 1 + n - 1)
  <2> DEFINE f == L + 1
             g == L + 1 + n - 1
  <2>1. /\ PutsBlock(u, f, g, s) /\ FromBody(u, f, g, body)
        /\ f \in Nat /\ g \in Nat /\ f .. g \subseteq 1 .. Len(u.lines) /\ IsLines(u)
    BY <1>4, <1>5, <1>7, TextFacts
  <2> HIDE DEF f, g
  <2>2. \A y \in f .. g : u.lines[y].k \notin {"open", "close", "default"}
    BY <2>1, NewBlock
  <2>3. \A y \in f .. g : u.lines[y].k # "profile"
    BY <1>1, <2>1 DEF FromBody
  <2>4. NoDefault(u, f, g)
    BY <2>2, <2>3 DEF NoDefault, OfDefault, Defines
  <2> QED
    BY <2>4 DEF f, g
<1>9. ~Begun(t, s) => Safe(t, u)
  BY <1>3, <1>5, <1>6, <1>8, KeepsOrder
<1> QED
  BY <1>4, <1>6, <1>9 DEF u

\* `gac setup` breaks no marker.
LEMMA SetupKeeps ==
  ASSUME NEW t, IsText(t), NEW c, IsCommand(c), c.op = "setup"
  PROVE  LET u == Setup(t, c)
         IN Leaves(t, u) /\ Safe(t, u)
<1> DEFINE u == AppendSession(t, c.session, <<c.url>>, <<c.region>>)
<1>1. CASE Setup(t, c) = t
  BY <1>1 DEF Leaves, Safe, InOrder
<1>2. CASE Setup(t, c) # t
  <2>1. Setup(t, c) = u /\ Scan(t).ok /\ ~HasBlock(t, c.session)
    BY <1>2 DEF Setup
  <2>2. WellNested(t) /\ ~Begun(t, c.session)
    BY <2>1, BlockFacts
  <2>3. c.session # Garbled
    BY NameAssumption DEF IsCommand
  <2>4. /\ IsText(u)
        /\ ~Begun(t, c.session) => Safe(t, u)
        /\ \A x : Begun(u, x) <=> Begun(t, x) \/ x = c.session
    <3>1. IsSeq(<<c.url>>) /\ IsSeq(<<c.region>>)
      BY SmallSeqs
    <3> QED
      BY <2>3, <3>1, AppendSessionKeeps
  <2> HIDE DEF u
  <2> QED
    BY <2>1, <2>2, <2>4 DEF Leaves, Safe
<1> QED
  BY <1>1, <1>2

-----------------------------------------------------------------------------
(***************************************************************************)
(* Sessions: where the lines that define one are after a command.          *)
(***************************************************************************)
\* No line defines s that did not before, and those that do have their portals.
KeepsSession(t, u, s) ==
  \E f \in [Copies(u, s) -> Copies(t, s)] :
    /\ \A y, z \in Copies(u, s) : f[y] = f[z] => y = z
    /\ \A y \in Copies(u, s) : Portal(u.lines[y].keys) = Portal(t.lines[f[y]].keys)

\* The lines that define a session, by their numbers.
LEMMA CopyLines ==
  ASSUME NEW t, IsLines(t), NEW s
  PROVE  /\ Copies(t, s) = {i \in 1 .. Len(t.lines) :
                              t.lines[i].k = "session" /\ t.lines[i].of = s}
         /\ s \in Sessions => (s \in SessionsIn(t) <=> Copies(t, s) # {})
BY DEF IsLines, Copies, At, Defines, SessionsIn

\* A line that stays defines the session it did.
LEMMA CopyStays ==
  ASSUME NEW t, NEW u, NEW p, NEW q, NEW n, Swaps(t, u, p, q, n), NEW s,
         NEW x \in Outer(t, p, q)
  PROVE  /\ x \in Copies(t, s) <=> Shift(p, q, n, x) \in Copies(u, s)
         /\ x \in Copies(t, s) =>
              Portal(u.lines[Shift(p, q, n, x)].keys) = Portal(t.lines[x].keys)
<1>1. /\ Shift(p, q, n, x) \in Outer(u, p, p + n - 1)
      /\ Same(t.lines[x], u.lines[Shift(p, q, n, x)])
  BY Shifting
<1>2. x \in 1 .. Len(t.lines) /\ Shift(p, q, n, x) \in 1 .. Len(u.lines)
  BY <1>1 DEF Outer
<1> DEFINE y == Shift(p, q, n, x)
<1> HIDE DEF y
<1>3. y \in 1 .. Len(u.lines) /\ Same(t.lines[x], u.lines[y])
  BY <1>1, <1>2 DEF y
<1>4. /\ x \in Copies(t, s) <=> y \in Copies(u, s)
      /\ x \in Copies(t, s) => Portal(u.lines[y].keys) = Portal(t.lines[x].keys)
  <2>1. IsLines(t) /\ IsLines(u)
    BY DEF Swaps
  <2>2. /\ x \in Copies(t, s) <=> t.lines[x].k = "session" /\ t.lines[x].of = s
        /\ y \in Copies(u, s) <=> u.lines[y].k = "session" /\ u.lines[y].of = s
    BY <1>2, <1>3, <2>1, CopyLines
  <2> QED
    BY <1>3, <2>2 DEF Same, SamePortal
<1> QED
  BY <1>4 DEF y

\* When lines are replaced by others that do not define s, it keeps its portals.
LEMMA SwapKeepsSession ==
  ASSUME NEW t, NEW u, NEW p, NEW q, NEW n, Swaps(t, u, p, q, n), NEW s,
         \A y \in p .. p + n - 1 : y \notin Copies(u, s)
  PROVE  KeepsSession(t, u, s)
<1> DEFINE f == [y \in Copies(u, s) |->
                   CHOOSE x \in Outer(t, p, q) : y = Shift(p, q, n, x)]
<1>1. p \in Nat /\ n \in Nat /\ p + n - 1 \in Nat
  BY Shifting
<1>2. ASSUME NEW y \in Copies(u, s)
      PROVE  f[y] \in Outer(t, p, q) /\ y = Shift(p, q, n, f[y])
  <2>1. y \in 1 .. Len(u.lines) /\ y \notin p .. p + n - 1
    <3>1. IsLines(u)
      BY DEF Swaps
    <3> QED
      BY <1>2, <3>1, CopyLines
  <2>2. y \in Outer(u, p, p + n - 1)
    BY <1>1, <2>1 DEF Outer
  <2>3. \E x \in Outer(t, p, q) : y = Shift(p, q, n, x)
    BY <2>2, Shifting
  <2> QED
    BY <2>3
<1>3. f = [y \in Copies(u, s) |-> f[y]]
  OBVIOUS
<1> HIDE DEF f
<1>4. ASSUME NEW y \in Copies(u, s)
      PROVE  /\ f[y] \in Copies(t, s)
             /\ Portal(u.lines[y].keys) = Portal(t.lines[f[y]].keys)
  BY <1>2, <1>4, CopyStays
<1>5. f \in [Copies(u, s) -> Copies(t, s)]
  BY <1>3, <1>4
<1>6. \A y, z \in Copies(u, s) : f[y] = f[z] => y = z
  BY <1>2
<1> QED
  BY <1>4, <1>5, <1>6 DEF KeepsSession

\* A text that is not changed keeps every session.
LEMMA KeepsItself ==
  ASSUME NEW t, NEW s
  PROVE  KeepsSession(t, t, s)
<1> DEFINE f == [y \in Copies(t, s) |-> y]
<1>1. f \in [Copies(t, s) -> Copies(t, s)] /\ \A y \in Copies(t, s) : f[y] = y
  OBVIOUS
<1> HIDE DEF f
<1> QED
  BY <1>1 DEF KeepsSession

\* Two edits that keep a session are one.
LEMMA KeepsTwice ==
  ASSUME NEW t, NEW v, NEW u, NEW s, KeepsSession(t, v, s), KeepsSession(v, u, s)
  PROVE  KeepsSession(t, u, s)
<1>1. PICK f \in [Copies(v, s) -> Copies(t, s)] :
        /\ \A y, z \in Copies(v, s) : f[y] = f[z] => y = z
        /\ \A y \in Copies(v, s) : Portal(v.lines[y].keys) = Portal(t.lines[f[y]].keys)
  BY DEF KeepsSession
<1>2. PICK g \in [Copies(u, s) -> Copies(v, s)] :
        /\ \A y, z \in Copies(u, s) : g[y] = g[z] => y = z
        /\ \A y \in Copies(u, s) : Portal(u.lines[y].keys) = Portal(v.lines[g[y]].keys)
  BY DEF KeepsSession
<1> DEFINE h == [y \in Copies(u, s) |-> f[g[y]]]
<1>3. /\ h \in [Copies(u, s) -> Copies(t, s)]
      /\ \A y \in Copies(u, s) : h[y] = f[g[y]] /\ g[y] \in Copies(v, s)
  OBVIOUS
<1> HIDE DEF h
<1>4. \A y, z \in Copies(u, s) : h[y] = h[z] => y = z
  BY <1>1, <1>2, <1>3
<1>5. \A y \in Copies(u, s) : Portal(u.lines[y].keys) = Portal(t.lines[h[y]].keys)
  BY <1>1, <1>2, <1>3
<1> QED
  BY <1>3, <1>4, <1>5 DEF KeepsSession

\* Line i defines s, outside the blocks of other sessions.
HomeAt(t, s, i) ==
  /\ i \in Copies(t, s)
  /\ \A b \in Blocks(t) : i \in b.first .. b.last => b.of = s

\* It goes on doing so when other lines are replaced.
LEMMA HomeStays ==
  ASSUME NEW t, NEW u, IsText(t), IsText(u), WellNested(t), NEW p, NEW q, NEW n,
         Swaps(t, u, p, q, n), Fits(t, u, p, q, n),
         NEW s, NEW x \in Outer(t, p, q), HomeAt(t, s, x)
  PROVE  HomeAt(u, s, Shift(p, q, n, x))
<1> DEFINE y == Shift(p, q, n, x)
<1>1. y \in Outer(u, p, p + n - 1) /\ y \in Copies(u, s) /\ y \in Nat
  BY Shifting, CopyStays DEF HomeAt, Outer
<1>2. IsLines(t) /\ IsLines(u) /\ p \in Nat /\ p + n - 1 \in Nat
  BY Shifting, TextFacts
<1>3. ASSUME NEW b \in Blocks(u), y \in b.first .. b.last
      PROVE  b.of = s
  <2> DEFINE f == b.first
             g == b.last
  <2>1. /\ f \in 1 .. Len(u.lines) /\ g \in 1 .. Len(u.lines)
        /\ Delimit(u, f, g) /\ u.lines[f].of = b.of
    BY BlockFacts DEF IsRange
  <2> HIDE DEF y, f, g
  <2>2. y \in f .. g
    BY <1>3 DEF f, g
  <2>3. ~OneIn(u, p, p + n - 1, f, g)
    BY <1>1, <1>2, <2>1, <2>2 DEF OneIn, Outer
  <2>4. PICK i \in Outer(t, p, q), j \in Outer(t, p, q) :
          /\ Delimit(t, i, j)
          /\ f = Shift(p, q, n, i) /\ g = Shift(p, q, n, j)
    BY <2>1, <2>3, BlockWas
  <2>5. i \in 1 .. Len(t.lines) /\ j \in 1 .. Len(t.lines) /\ x \in 1 .. Len(t.lines)
    BY DEF Outer
  <2>6. x \in i .. j
    <3>1. ~(x < i) /\ ~(j < x)
      <4>1. /\ x < i => y < f
            /\ j < x => g < y
        BY <2>4, Shifting DEF y
      <4> QED
        BY <1>1, <2>1, <2>2, <4>1
    <3> QED
      BY <1>2, <2>5, <3>1 DEF IsLines
  <2>7. [of |-> t.lines[i].of, first |-> i, last |-> j] \in Blocks(t)
    BY <2>4, <2>5, BlockFacts
  <2>8. t.lines[i].of = s
    BY <2>6, <2>7 DEF HomeAt
  <2>9. Same(t.lines[i], u.lines[f])
    BY <2>4, Shifting
  <2>10. t.lines[i].k = "begin"
    BY <2>4 DEF Delimit
  <2> QED
    BY <2>1, <2>8, <2>9, <2>10 DEF Same
<1> QED
  BY <1>1, <1>3 DEF HomeAt

-----------------------------------------------------------------------------
(***************************************************************************)
(* Sessions in the blocks that are written.                                *)
(***************************************************************************)
\* A session that gac writes has the portal it is given.
LEMMA WrittenPortal ==
  ASSUME NEW s, NEW url, IsSeq(url), NEW region, IsSeq(region), NEW scopes, IsSeq(scopes)
  PROVE  Portal(SessionLine(s, url, region, scopes).keys) = <<url, region>>
<1> DEFINE keys == SessionLine(s, url, region, scopes).keys
           u == Assigned("sso_start_url", url)
           r == Assigned("sso_region", region)
           c == Assigned("sso_registration_scopes", scopes)
<1>1. keys = <<u, r>> \o IF scopes = <<>> THEN <<>> ELSE <<c>>
  BY DEF SessionLine, Section, Assigned
<1>2. \A key, value : IsSeq(value) =>
        Assigned(key, value)[1] = key /\ Tail(Assigned(key, value)) = value
  <2> TAKE key, value
  <2> HAVE IsSeq(value)
  <2> DEFINE V == Range(value)
             W == V \cup {key}
  <2>1. value \in Seq(V) /\ V \subseteq W /\ key \in W
    BY DEF IsSeq
  <2> HIDE DEF V, W
  <2>2. value \in Seq(W)
    BY <2>1
  <2> QED
    BY <2>1, <2>2, PutBefore DEF Assigned
<1>3. /\ u[1] = "sso_start_url" /\ Tail(u) = url
      /\ r[1] = "sso_region" /\ Tail(r) = region
      /\ c[1] = "sso_registration_scopes"
  BY <1>2
<1>4. PICK W : keys \in Seq(Seq(W) \ {<<>>})
  BY SessionTyped, WordsOf
<1> HIDE DEF u, r, c
<1> DEFINE a == <<u, r>>
           b == IF scopes = <<>> THEN <<>> ELSE <<c>>
<1>5. /\ IsSeq(a) /\ Len(a) = 2 /\ a[1] = u /\ a[2] = r
      /\ IsSeq(b) /\ (Len(b) = 0 \/ (Len(b) = 1 /\ b[1] = c))
  <2>1. <<u, r>> \in Seq({u, r})
    OBVIOUS
  <2> QED
    BY <2>1, SmallSeqs, SeqOfAnything
<1>6. /\ Len(keys) \in {2, 3} /\ keys[1] = u /\ keys[2] = r
      /\ Len(keys) = 3 => keys[3] = c
  <2> HIDE DEF a, b, keys
  <2> DEFINE all == a \o b
  <2>1. /\ Len(all) = Len(a) + Len(b)
        /\ \A i \in 1 .. Len(a) : all[i] = a[i]
        /\ \A i \in 1 .. Len(b) : all[Len(a) + i] = b[i]
    <3>1. IsSeq(a) /\ IsSeq(b)
      BY <1>5
    <3> QED
      BY ONLY <3>1, ConcatAt
  <2> HIDE DEF all
  <2>2. /\ Len(all) \in {2, 3} /\ all[1] = u /\ all[2] = r
        /\ Len(all) = 3 => all[3] = c
    BY <1>5, <2>1
  <2>3. keys = all
    BY <1>1 DEF all, a, b
  <2> QED
    BY <2>2, <2>3
<1> HIDE DEF keys
<1>7. LastValue(keys, "sso_start_url", 1, 1)
  <2>1. \A j \in 2 .. Len(keys) : keys[j][1] # "sso_start_url"
    BY <1>3, <1>6
  <2>2. keys[2][1] # Continued
    BY <1>3, <1>6, KeyAssumption
  <2> QED
    BY <1>3, <1>6, <2>1, <2>2 DEF LastValue
<1>8. LastValue(keys, "sso_region", 2, 2)
  <2>1. \A j \in 3 .. Len(keys) : keys[j][1] # "sso_region"
    BY <1>3, <1>6
  <2>2. Len(keys) = 3 => keys[3][1] # Continued
    BY <1>3, <1>6, KeyAssumption
  <2> QED
    BY <1>3, <1>6, <2>1, <2>2 DEF LastValue
<1>9. Value(keys, "sso_start_url") = url /\ Value(keys, "sso_region") = region
  BY <1>3, <1>4, <1>6, <1>7, <1>8, OneLine
<1> QED
  BY <1>9 DEF keys, Portal

\* A body has no session but one of s with that portal, in its first line.
OneSession(body, s, portal) ==
  \A i \in 1 .. Len(body) : body[i].k = "session" =>
    i = 1 /\ body[i].of = s /\ Portal(body[i].keys) = portal

NoSession(body) == \A i \in 1 .. Len(body) : body[i].k # "session"

\* What is written for a session that is set up, and by a sync.
LEMMA SessionAlone ==
  ASSUME NEW s, NEW url, IsSeq(url), NEW region, IsSeq(region), NEW scopes, IsSeq(scopes)
  PROVE  LET body == <<SessionLine(s, url, region, scopes)>>
         IN /\ OneSession(body, s, <<url, region>>)
            /\ 1 \in 1 .. Len(body) /\ body[1].k = "session" /\ body[1].of = s
<1> DEFINE line == SessionLine(s, url, region, scopes)
<1>1. line.k = "session" /\ line.of = s
  BY DEF SessionLine, Section
<1>2. Portal(line.keys) = <<url, region>>
  BY WrittenPortal
<1> HIDE DEF line
<1>3. Len(<<line>>) = 1 /\ <<line>>[1] = line
  BY SmallSeqs
<1>4. /\ OneSession(<<line>>, s, <<url, region>>)
      /\ 1 \in 1 .. Len(<<line>>) /\ <<line>>[1].k = "session" /\ <<line>>[1].of = s
  BY <1>1, <1>2, <1>3 DEF OneSession
<1> QED
  BY <1>4 DEF line

\* A sync writes the session of the block, once, unless it is defined outside.
LEMMA SyncSession ==
  ASSUME NEW t, IsText(t), NEW s, NEW outside, NEW lines, BodyLines(lines),
         \A i \in 1 .. Len(lines) : lines[i].k = "profile"
  PROVE  LET body == OwnSession(t, s, outside) \o lines
         IN /\ s \in SessionsIn(outside) => NoSession(body)
            /\ s \notin SessionsIn(outside) =>
                 /\ OneSession(body, s, PortalOf(t, s))
                 /\ 1 \in 1 .. Len(body) /\ body[1].k = "session" /\ body[1].of = s
<1> DEFINE own == OwnSession(t, s, outside)
           body == own \o lines
<1>1. IsSeq(PortalOf(t, s)[1]) /\ IsSeq(PortalOf(t, s)[2]) /\ IsSeq(Scopes(t, s))
  BY SessionWords
<1>2. PortalOf(t, s) = <<PortalOf(t, s)[1], PortalOf(t, s)[2]>>
  BY DEF PortalOf, Portal
<1>3. IsSeq(lines) /\ Len(lines) \in Nat
  BY SeqFacts DEF BodyLines, AreLines
<1>4. CASE s \in SessionsIn(outside)
  <2>1. own = <<>>
    BY <1>4 DEF OwnSession
  <2>2. body = lines
    BY <1>3, <2>1, ConcatNothing
  <2> QED
    BY <1>4, <2>2 DEF NoSession
<1>5. CASE s \notin SessionsIn(outside)
  <2> DEFINE one == <<SessionLine(s, PortalOf(t, s)[1], PortalOf(t, s)[2], Scopes(t, s))>>
  <2>1. own = one
    BY <1>5 DEF OwnSession
  <2>2. /\ OneSession(one, s, PortalOf(t, s))
        /\ 1 \in 1 .. Len(one) /\ one[1].k = "session" /\ one[1].of = s
    BY <1>1, <1>2, SessionAlone
  <2>3. IsSeq(one) /\ Len(one) = 1
    BY SmallSeqs
  <2> HIDE DEF one
  <2> DEFINE all == one \o lines
  <2>4. /\ Len(all) = Len(one) + Len(lines)
        /\ \A i \in 1 .. Len(one) : all[i] = one[i]
        /\ \A i \in 1 .. Len(lines) : all[Len(one) + i] = lines[i]
    <3>1. IsSeq(one) /\ IsSeq(lines)
      BY <1>3, <2>3
    <3> QED
      BY ONLY <3>1, ConcatAt
  <2> HIDE DEF all
  <2>5. /\ Len(all) = 1 + Len(lines)
        /\ all[1] = one[1]
        /\ \A i \in 1 .. Len(lines) : all[1 + i] = lines[i]
    BY <2>3, <2>4
  <2>6. \A i \in 1 .. Len(all) : i = 1 \/ all[i].k = "profile"
    <3> SUFFICES ASSUME NEW i \in 1 .. Len(all), i # 1
                 PROVE  all[i].k = "profile"
      OBVIOUS
    <3> DEFINE j == i - 1
    <3>1. j \in 1 .. Len(lines) /\ i = 1 + j
      BY <1>3, <2>5
    <3> HIDE DEF j
    <3> QED
      BY <2>5, <3>1
  <2>7. /\ OneSession(all, s, PortalOf(t, s))
        /\ 1 \in 1 .. Len(all) /\ all[1].k = "session" /\ all[1].of = s
    <3>1. 1 \in 1 .. Len(all)
      BY <1>3, <2>5
    <3> QED
      BY <2>2, <2>5, <2>6, <3>1 DEF OneSession
  <2>8. body = all
    BY <2>1 DEF all
  <2> HIDE DEF body
  <2> QED
    BY <1>5, <2>7, <2>8 DEF body
<1> QED
  BY <1>4, <1>5

-----------------------------------------------------------------------------
(***************************************************************************)
(* What each command does to a session.                                    *)
(***************************************************************************)
\* A session has one definition at most.
Once(t, s) == \A y, z \in Copies(t, s) : y = z

\* A session that is at home is still defined; no definition is new, or there is
\* just one, with the session's portal.
Kept(t, u, s) ==
  /\ AtHome(t, s) => Copies(u, s) # {}
  /\ \/ KeepsSession(t, u, s)
     \/ /\ Once(u, s)
        /\ AtHome(t, s) =>
             \A y \in Copies(u, s) : Portal(u.lines[y].keys) = PortalOf(t, s)

\* A command that writes nothing keeps every session.
LEMMA KeptAsIs ==
  ASSUME NEW t, NEW s
  PROVE  Kept(t, t, s)
BY KeepsItself DEF Kept, AtHome

\* A session is at home where one of its lines is.
LEMMA HomeMeans ==
  ASSUME NEW t, NEW s
  PROVE  AtHome(t, s) <=> \E i : HomeAt(t, s, i)
BY DEF AtHome, HomeAt

\* Lines are replaced by others that do not define the session.
LEMMA NoneNew ==
  ASSUME NEW t, NEW u, NEW p, NEW q, NEW n, Swaps(t, u, p, q, n), NEW s,
         \A y \in p .. p + n - 1 : y \notin Copies(u, s),
         AtHome(t, s) => \E x \in Outer(t, p, q) : x \in Copies(t, s)
  PROVE  Kept(t, u, s)
<1>1. KeepsSession(t, u, s)
  BY SwapKeepsSession
<1>2. AtHome(t, s) => Copies(u, s) # {}
  BY CopyStays
<1> QED
  BY <1>1, <1>2 DEF Kept

\* A session that has no line among those that stay gets one.
LEMMA OneNew ==
  ASSUME NEW t, NEW u, NEW p, NEW q, NEW n, Swaps(t, u, p, q, n), NEW s,
         \A x \in Outer(t, p, q) : x \notin Copies(t, s),
         NEW body, FromBody(u, p, p + n - 1, body), NEW portal,
         OneSession(body, s, portal),
         1 \in 1 .. Len(body), body[1].k = "session", body[1].of = s
  PROVE  /\ Copies(u, s) # {} /\ Once(u, s)
         /\ \A y \in Copies(u, s) : Portal(u.lines[y].keys) = portal
<1>1. /\ p \in Nat /\ n \in Nat /\ p + n - 1 \in Nat /\ IsLines(u)
      /\ \A y \in p .. p + n - 1 : y \in 1 .. Len(u.lines)
  BY Shifting DEF Swaps
<1> DEFINE g == p + n - 1
           at == g - 1 - Len(body) + 1
<1>2. FromBody(u, p, g, body) /\ g \in Nat /\ \A y \in p .. g : y \in 1 .. Len(u.lines)
  BY <1>1
<1> HIDE DEF g
<1>3. at \in p .. g /\ u.lines[at] = body[1]
  BY <1>2 DEF FromBody
<1>4. ASSUME NEW y \in Copies(u, s)
      PROVE  y = at /\ Portal(u.lines[y].keys) = portal
  <2>1. y \in 1 .. Len(u.lines) /\ u.lines[y].k = "session"
    BY <1>1, <1>4, CopyLines
  <2>2. y \in p .. g
    <3>1. y \notin Outer(u, p, g)
      <4>1. ASSUME NEW x \in Outer(t, p, q), y = Shift(p, q, n, x)
            PROVE  FALSE
        BY <1>4, <4>1, CopyStays
      <4> QED
        BY <4>1, Shifting DEF g
    <3> QED
      BY <1>1, <1>2, <2>1, <3>1 DEF Outer
  <2>3. PICK i \in 1 .. Len(body) : y = g - 1 - Len(body) + i /\ u.lines[y] = body[i]
    BY <1>2, <2>1, <2>2 DEF FromBody
  <2>4. i = 1 /\ Portal(body[i].keys) = portal
    BY <2>1, <2>3 DEF OneSession
  <2> QED
    BY <2>3, <2>4
<1>5. at \in Copies(u, s)
  BY <1>1, <1>2, <1>3, CopyLines
<1> HIDE DEF at
<1> QED
  BY <1>4, <1>5 DEF Once

\* No line of another session is written.
LEMMA OthersNotWritten ==
  ASSUME NEW u, IsLines(u), NEW p, NEW q, NEW body, FromBody(u, p, q, body), NEW s,
         \/ NoSession(body)
         \/ \E x, portal : x # s /\ OneSession(body, x, portal)
  PROVE  \A y \in p .. q : y \notin Copies(u, s)
<1> SUFFICES ASSUME NEW y \in p .. q, y \in Copies(u, s)
             PROVE  FALSE
  OBVIOUS
<1>1. u.lines[y].k = "session" /\ u.lines[y].of = s
  BY CopyLines
<1>2. PICK i \in 1 .. Len(body) : u.lines[y] = body[i]
  BY <1>1 DEF FromBody
<1> QED
  BY <1>1, <1>2 DEF NoSession, OneSession

\* What is outside a session's block.
LEMMA OutsideLines ==
  ASSUME NEW t, IsText(t), NEW s \in Sessions
  PROVE  LET p == IF HasBlock(t, s) THEN BlockOf(t, s).first ELSE Len(t.lines) + 1
             q == IF HasBlock(t, s) THEN BlockOf(t, s).last ELSE Len(t.lines)
         IN /\ s \in SessionsIn(Outside(t, s)) <=>
                 \E x \in Outer(t, p, q) : x \in Copies(t, s)
            /\ \A x : x # s =>
                 \A i : HomeAt(t, x, i) => i \in Outer(t, p, q)
<1>1. IsLines(t) /\ Len(t.lines) \in Nat
  BY TextFacts
<1>2. CASE HasBlock(t, s)
  <2> DEFINE b == BlockOf(t, s)
             p == b.first
             q == b.last
             u == Outside(t, s)
  <2>1. b \in Blocks(t) /\ b.of = s /\ IsRange(t, b)
    BY <1>2, BlockFacts
  <2>2. u = Without(t, b)
    BY <1>2 DEF Outside
  <2> HIDE DEF b, u
  <2>3. IsText(u) /\ Swaps(t, u, p, q, 0)
    BY <2>1, <2>2, WithoutSwaps
  <2>4. IsLines(u) /\ p \in Nat
    BY <2>1, <2>3, TextFacts DEF IsRange
  <2>5. s \in SessionsIn(u) <=> \E x \in Outer(t, p, q) : x \in Copies(t, s)
    <3>1. ASSUME NEW y \in Copies(u, s)
          PROVE  \E x \in Outer(t, p, q) : x \in Copies(t, s)
      <4>1. y \in 1 .. Len(u.lines) /\ y \notin p .. p + 0 - 1
        BY <2>4, <3>1, CopyLines
      <4>2. PICK x \in Outer(t, p, q) : y = Shift(p, q, 0, x)
        BY <2>3, <4>1, OldOrNew
      <4> QED
        BY <2>3, <3>1, <4>2, CopyStays
    <3>2. ASSUME NEW x \in Outer(t, p, q), x \in Copies(t, s)
          PROVE  Copies(u, s) # {}
      BY <2>3, <3>2, CopyStays
    <3> QED
      BY <2>4, <3>1, <3>2, CopyLines
  <2>6. ASSUME NEW x, x # s, NEW i, HomeAt(t, x, i)
        PROVE  i \in Outer(t, p, q)
    <3>1. i \in 1 .. Len(t.lines)
      BY <1>1, <2>6, CopyLines DEF HomeAt
    <3>2. i \notin p .. q
      BY <2>1, <2>6 DEF HomeAt
    <3> QED
      BY <1>1, <2>1, <3>1, <3>2 DEF Outer, IsRange
  <2> QED
    BY <1>2, <2>5, <2>6 DEF b, u
<1>3. CASE ~HasBlock(t, s)
  <2>1. Outer(t, Len(t.lines) + 1, Len(t.lines)) = 1 .. Len(t.lines)
    BY <1>1, AtTheEnd
  <2>2. Outside(t, s) = t
    BY <1>3 DEF Outside
  <2>3. \A x, i : HomeAt(t, x, i) => i \in 1 .. Len(t.lines)
    BY <1>1, CopyLines DEF HomeAt
  <2>4. s \in SessionsIn(t) <=> \E x \in 1 .. Len(t.lines) : x \in Copies(t, s)
    BY <1>1, CopyLines
  <2> QED
    BY <1>3, <2>1, <2>2, <2>3, <2>4
<1> QED
  BY <1>2, <1>3

\* A block is written over the one before it, or appended.
LEMMA UpsertSessions ==
  ASSUME NEW t, IsText(t), WellNested(t), NEW s \in Sessions,
         NEW settings, AreKeys(settings), NEW body, BodyLines(body),
         s \in SessionsIn(Outside(t, s)) => NoSession(body),
         s \notin SessionsIn(Outside(t, s)) =>
           /\ OneSession(body, s, PortalOf(t, s))
           /\ 1 \in 1 .. Len(body) /\ body[1].k = "session" /\ body[1].of = s,
         NEW x \in Sessions
  PROVE  Kept(t, Upsert(t, s, Rendered(s, settings, body)), x)
<1> DEFINE u == Upsert(t, s, Rendered(s, settings, body))
           p == IF HasBlock(t, s) THEN BlockOf(t, s).first ELSE Len(t.lines) + 1
           q == IF HasBlock(t, s) THEN BlockOf(t, s).last ELSE Len(t.lines)
<1>1. s # Garbled
  BY NameAssumption
<1>2. /\ IsText(u)
      /\ \E n : Swaps(t, u, p, q, n) /\ FromBody(u, p, p + n - 1, body)
  <2>1. CASE HasBlock(t, s)
    <3> DEFINE b == BlockOf(t, s)
               v == Splice(t, b, Rendered(s, settings, body))
    <3>1. b \in Blocks(t) /\ IsRange(t, b)
      BY <2>1, BlockFacts
    <3> HIDE DEF b
    <3>2. /\ IsText(v)
          /\ \E n : /\ Swaps(t, v, b.first, b.last, n)
                    /\ FromBody(v, b.first, b.first + n - 1, body)
      BY <1>1, <3>1, SpliceBlock
    <3>3. u = v /\ p = b.first /\ q = b.last
      BY <2>1 DEF Upsert, b
    <3> HIDE DEF u, v, p, q
    <3> QED
      BY <3>2, <3>3
  <2>2. CASE ~HasBlock(t, s)
    <3> DEFINE v == AppendText(t, Rendered(s, settings, body))
               L == Len(t.lines)
    <3>1. /\ IsText(v)
          /\ \E n : Swaps(t, v, L + 1, L, n) /\ FromBody(v, L + 1, L + 1 + n - 1, body)
      BY <1>1, AppendBlock
    <3>2. u = v /\ p = L + 1 /\ q = L
      BY <2>2 DEF Upsert
    <3> HIDE DEF u, v, p, q, L
    <3> QED
      BY <3>1, <3>2
  <2> QED
    BY <2>1, <2>2
<1>3. /\ s \in SessionsIn(Outside(t, s)) <=> \E i \in Outer(t, p, q) : i \in Copies(t, s)
      /\ x # s => \A i : HomeAt(t, x, i) => i \in Outer(t, p, q)
  BY OutsideLines
<1> HIDE DEF u, p, q
<1>4. PICK n : Swaps(t, u, p, q, n) /\ FromBody(u, p, p + n - 1, body)
  BY <1>2
<1>5. IsLines(u)
  BY <1>2, TextFacts
<1> DEFINE g == p + n - 1
<1>6. FromBody(u, p, g, body)
  BY <1>4
<1>7. CASE x # s
  <2> HIDE DEF g
  <2>1. NoSession(body) \/ \E y, portal : y # x /\ OneSession(body, y, portal)
    BY <1>7
  <2>2. \A y \in p .. g : y \notin Copies(u, x)
    BY <1>5, <1>6, <2>1, OthersNotWritten
  <2>3. AtHome(t, x) => \E i \in Outer(t, p, q) : i \in Copies(t, x)
    BY <1>3, <1>7, HomeMeans DEF HomeAt
  <2>4. Kept(t, u, x)
    BY <1>4, <2>2, <2>3, NoneNew DEF g
  <2> QED
    BY <2>4 DEF u
<1>8. CASE x = s /\ s \in SessionsIn(Outside(t, s))
  <2> HIDE DEF g
  <2>1. \A y \in p .. g : y \notin Copies(u, s)
    BY <1>5, <1>6, <1>8, OthersNotWritten
  <2>2. \E i \in Outer(t, p, q) : i \in Copies(t, s)
    BY <1>3, <1>8
  <2>3. Kept(t, u, s)
    BY <1>4, <2>1, <2>2, NoneNew DEF g
  <2> QED
    BY <1>8, <2>3 DEF u
<1>9. CASE x = s /\ s \notin SessionsIn(Outside(t, s))
  <2> DEFINE portal == PortalOf(t, s)
  <2>1. \A i \in Outer(t, p, q) : i \notin Copies(t, s)
    BY <1>3, <1>9
  <2>2. /\ OneSession(body, s, portal)
        /\ 1 \in 1 .. Len(body) /\ body[1].k = "session" /\ body[1].of = s
    BY <1>9
  <2> HIDE DEF portal
  <2>3. /\ Copies(u, s) # {} /\ Once(u, s)
        /\ \A y \in Copies(u, s) : Portal(u.lines[y].keys) = portal
    BY <1>4, <2>1, <2>2, OneNew
  <2>4. Kept(t, u, s)
    BY <2>3 DEF Kept, portal
  <2> QED
    BY <1>9, <2>4 DEF u
<1> QED
  BY <1>7, <1>8, <1>9

\* `gac sync`.
LEMMA SyncKept ==
  ASSUME NEW t, IsText(t), NEW c, IsCommand(c), c.op = "sync", NEW x \in Sessions
  PROVE  Kept(t, Sync(t, c), x)
<1>1. Kept(t, t, x)
  BY KeptAsIs
<1>2. ASSUME Sync(t, c) # t
      PROVE  Kept(t, Sync(t, c), x)
  <2> DEFINE s == SyncedSession(t, c)
             outside == Outside(t, s)
             body(lines) == OwnSession(t, s, outside) \o lines
  <2>1. /\ s \in Sessions /\ WellNested(t)
        /\ \E header, lines :
             /\ AreKeys(header) /\ BodyLines(lines) /\ BodyLines(body(lines))
             /\ \A i \in 1 .. Len(lines) : lines[i].k = "profile"
             /\ Sync(t, c) = Upsert(t, s, Rendered(s, header, body(lines)))
    BY <1>2, SyncWrites
  <2> HIDE DEF s, outside, body
  <2>2. PICK header, lines :
             /\ AreKeys(header) /\ BodyLines(lines) /\ BodyLines(body(lines))
             /\ \A i \in 1 .. Len(lines) : lines[i].k = "profile"
             /\ Sync(t, c) = Upsert(t, s, Rendered(s, header, body(lines)))
    BY <2>1
  <2>3. /\ s \in SessionsIn(outside) => NoSession(body(lines))
        /\ s \notin SessionsIn(outside) =>
             /\ OneSession(body(lines), s, PortalOf(t, s))
             /\ 1 \in 1 .. Len(body(lines))
             /\ body(lines)[1].k = "session" /\ body(lines)[1].of = s
    BY <2>2, SyncSession DEF body
  <2> QED
    BY <2>1, <2>2, <2>3, UpsertSessions DEF outside
<1> QED
  BY <1>1, <1>2

\* A session that is appended is defined once, and the others stay as they are.
LEMMA AppendedSessions ==
  ASSUME NEW t, IsText(t), NEW s \in Sessions, NEW url, IsSeq(url), NEW region, IsSeq(region),
         NEW x
  PROVE  LET u == AppendSession(t, s, url, region)
         IN /\ x # s => KeepsSession(t, u, x) /\ Kept(t, u, x)
            /\ x # s /\ WellNested(t) /\ ~Begun(t, s) /\ AtHome(t, x) => AtHome(u, x)
            /\ Copies(t, s) = {} => Once(u, s)
<1> DEFINE L == Len(t.lines)
           p == L + 1
           body == <<SessionLine(s, url, region, DefaultScope)>>
           u == AppendSession(t, s, url, region)
           portal == <<url, region>>
<1>1. BodyLines(body) /\ s # Garbled
  BY SessionBody, SmallSeqs, NameAssumption DEF DefaultScope
<1>2. /\ OneSession(body, s, portal)
      /\ 1 \in 1 .. Len(body) /\ body[1].k = "session" /\ body[1].of = s
  BY SessionAlone, SmallSeqs DEF DefaultScope
<1>3. u = AppendText(t, Rendered(s, <<>>, body))
  BY DEF AppendSession
<1> HIDE DEF u, body, portal
<1>4. /\ IsText(u)
      /\ \E n : /\ Swaps(t, u, L + 1, L, n) /\ PutsBlock(u, L + 1, L + 1 + n - 1, s)
                /\ FromBody(u, L + 1, L + 1 + n - 1, body)
  BY <1>1, <1>3, SomeKeys, AppendBlock
<1>5. PICK n : /\ Swaps(t, u, L + 1, L, n) /\ PutsBlock(u, L + 1, L + 1 + n - 1, s)
               /\ FromBody(u, L + 1, L + 1 + n - 1, body)
  BY <1>4
<1>6. ~Begun(t, s) => Fits(t, u, L + 1, L, n)
  BY <1>1, <1>5, AppendFits
<1>7. /\ Swaps(t, u, p, L, n) /\ FromBody(u, p, p + n - 1, body)
      /\ ~Begun(t, s) => Fits(t, u, p, L, n)
  BY <1>5, <1>6
<1>8. IsLines(t) /\ IsLines(u) /\ Outer(t, p, L) = 1 .. L
  BY <1>4, TextFacts, AtTheEnd
<1>9. \A i, y : i \in Copies(t, y) => i \in 1 .. L
  BY <1>8, CopyLines
<1> HIDE DEF p, L
<1>10. ASSUME x # s
       PROVE  KeepsSession(t, u, x) /\ Kept(t, u, x)
  <2> DEFINE g == p + n - 1
  <2>1. FromBody(u, p, g, body)
    BY <1>7
  <2> HIDE DEF g
  <2>2. \A y \in p .. g : y \notin Copies(u, x)
    BY <1>2, <1>8, <1>10, <2>1, OthersNotWritten
  <2>3. AtHome(t, x) => \E i \in Outer(t, p, L) : i \in Copies(t, x)
    BY <1>8, <1>9 DEF AtHome
  <2>4. KeepsSession(t, u, x)
    BY <1>7, <2>2, SwapKeepsSession DEF g
  <2>5. Kept(t, u, x)
    BY <1>7, <2>2, <2>3, NoneNew DEF g
  <2> QED
    BY <2>4, <2>5
<1>11. ASSUME WellNested(t), ~Begun(t, s), AtHome(t, x)
       PROVE  AtHome(u, x)
  <2>1. PICK i : HomeAt(t, x, i)
    BY <1>11, HomeMeans
  <2>2. i \in Outer(t, p, L)
    BY <1>8, <1>9, <2>1 DEF HomeAt
  <2>3. HomeAt(u, x, Shift(p, L, n, i))
    BY <1>4, <1>7, <1>11, <2>1, <2>2, HomeStays
  <2> QED
    BY <2>3, HomeMeans
<1>12. ASSUME Copies(t, s) = {}
       PROVE  Once(u, s)
  <2>1. \A i \in Outer(t, p, L) : i \notin Copies(t, s)
    BY <1>12
  <2> QED
    BY <1>2, <1>7, <2>1, OneNew
<1> QED
  BY <1>10, <1>11, <1>12 DEF u

\* `gac setup`.
LEMMA SetupKept ==
  ASSUME NEW t, IsText(t), NEW c, IsCommand(c), c.op = "setup", NEW x \in Sessions
  PROVE  Kept(t, Setup(t, c), x)
<1> DEFINE s == c.session
           u == AppendSession(t, s, <<c.url>>, <<c.region>>)
<1>1. CASE Setup(t, c) = t
  BY <1>1, KeptAsIs
<1>2. CASE Setup(t, c) # t
  <2>1. Setup(t, c) = u /\ s \notin SessionsIn(t)
    BY <1>2 DEF Setup
  <2>2. s \in Sessions /\ IsSeq(<<c.url>>) /\ IsSeq(<<c.region>>)
    BY SmallSeqs DEF IsCommand
  <2> HIDE DEF s
  <2>3. /\ x # s => Kept(t, u, x)
        /\ Copies(t, s) = {} => Once(u, s)
    BY <2>2, AppendedSessions
  <2> HIDE DEF u
  <2>4. Copies(t, s) = {}
    BY <2>1, <2>2, TextFacts, CopyLines
  <2>5. x = s => Kept(t, u, x)
    BY <2>3, <2>4 DEF Kept, AtHome
  <2> QED
    BY <2>1, <2>3, <2>5
<1> QED
  BY <1>1, <1>2

\* A session that keeps its lines is defined no more often than it was.
LEMMA KeepsOnce ==
  ASSUME NEW t, NEW u, NEW s, KeepsSession(t, u, s)
  PROVE  /\ Once(t, s) => Once(u, s)
         /\ Copies(t, s) = {} => Copies(u, s) = {} /\ Once(u, s)
BY DEF KeepsSession, Once

\* A block that is taken out leaves the other sessions at home.
LEMMA RemovedSessions ==
  ASSUME NEW t, IsText(t), NEW s \in Sessions, NEW x
  PROVE  LET u == RemoveBlock(t, s)
         IN KeepsSession(t, u, x) /\ (x # s /\ AtHome(t, x) => AtHome(u, x))
<1> DEFINE b == BlockOf(t, s)
           u == RemoveBlock(t, s)
<1>1. CASE HasBlock(t, s)
  <2>1. b \in Blocks(t) /\ b.of = s /\ IsRange(t, b) /\ WellNested(t)
    BY <1>1, BlockFacts
  <2>2. u = Without(t, b)
    BY <1>1 DEF RemoveBlock
  <2>3. \A i : x # s /\ HomeAt(t, x, i) => i \in Outer(t, b.first, b.last)
    BY <1>1, OutsideLines
  <2> HIDE DEF b, u
  <2>4. IsText(u) /\ Swaps(t, u, b.first, b.last, 0)
    BY <2>1, <2>2, WithoutSwaps
  <2>5. Fits(t, u, b.first, b.last, 0)
    BY <2>1, <2>4, BlockFits
  <2>6. b.first .. b.first + 0 - 1 = {}
    BY <2>1, TextFacts DEF IsRange
  <2>7. KeepsSession(t, u, x)
    BY <2>4, <2>6, SwapKeepsSession
  <2>8. ASSUME x # s, AtHome(t, x)
        PROVE  AtHome(u, x)
    <3>1. PICK i : HomeAt(t, x, i)
      BY <2>8, HomeMeans
    <3>2. i \in Outer(t, b.first, b.last)
      BY <2>3, <2>8, <3>1
    <3>3. HomeAt(u, x, Shift(b.first, b.last, 0, i))
      BY <2>1, <2>4, <2>5, <3>1, <3>2, HomeStays
    <3> QED
      BY <3>3, HomeMeans
  <2> QED
    BY <2>7, <2>8 DEF u
<1>2. CASE ~HasBlock(t, s)
  <2>1. u = t
    BY <1>2 DEF RemoveBlock
  <2> QED
    BY <2>1, KeepsItself
<1> QED
  BY <1>1, <1>2

\* A change of keys alone keeps every session, at home as well.
LEMMA AlikeSessions ==
  ASSUME NEW t, NEW u, IsText(t), IsText(u), Alike(t, u), NEW s
  PROVE  /\ KeepsSession(t, u, s) /\ Kept(t, u, s)
         /\ WellNested(t) /\ AtHome(t, s) => AtHome(u, s)
<1> DEFINE L == Len(t.lines)
           p == L + 1
<1>1. /\ Swaps(t, u, p, L, 0) /\ Fits(t, u, p, L, 0)
      /\ Outer(t, p, L) = 1 .. L /\ p .. p + 0 - 1 = {} /\ IsLines(t)
  BY AlikeFits, AlikeSwaps, AtTheEnd, TextFacts
<1>2. \A x \in Copies(t, s) : x \in 1 .. L
  BY <1>1, CopyLines
<1> HIDE DEF p, L
<1>3. \A y \in p .. p + 0 - 1 : y \notin Copies(u, s)
  BY <1>1
<1>4. KeepsSession(t, u, s)
  BY <1>1, <1>3, SwapKeepsSession
<1>5. AtHome(t, s) => \E x \in Outer(t, p, L) : x \in Copies(t, s)
  BY <1>1, <1>2 DEF AtHome
<1>6. Kept(t, u, s)
  BY <1>1, <1>3, <1>5, NoneNew
<1>7. ASSUME WellNested(t), AtHome(t, s)
      PROVE  AtHome(u, s)
  <2>1. PICK x : HomeAt(t, s, x)
    BY <1>7, HomeMeans
  <2>2. x \in Outer(t, p, L)
    BY <1>1, <1>2, <2>1 DEF HomeAt
  <2>3. HomeAt(u, s, Shift(p, L, 0, x))
    BY <1>1, <1>7, <2>1, <2>2, HomeStays
  <2> QED
    BY <2>3, HomeMeans
<1> QED
  BY <1>4, <1>6, <1>7

-----------------------------------------------------------------------------
(***************************************************************************)
(* `gac select` and `gac select --clear`.                                  *)
(***************************************************************************)
\* Only keys change.
KeysOnly(a, b) ==
  /\ AreLines(b) /\ Len(b) = Len(a)
  /\ \A i \in 1 .. Len(a) :
       b[i].k = a[i].k /\ b[i].of = a[i].of /\ SamePortal(a[i], b[i])

\* Setting a key that does not tell the portal, or removing one, leaves the portal.
LEMMA PortalStays ==
  ASSUME NEW keys, AreKeys(keys), NEW key, key # Continued,
         key \notin {"sso_start_url", "sso_region"}
  PROVE  /\ Portal(RemoveKey(keys, key)) = Portal(keys)
         /\ \A value, after :
              IsSeq(value) => Portal(SetKey(keys, key, value, after)) = Portal(keys)
<1>1. IsSeq(keys)
  BY DEF AreKeys
<1>2. keys \in Seq(Range(keys))
  BY <1>1 DEF IsSeq
<1>3. /\ key # "sso_start_url" /\ "sso_start_url" # Continued
      /\ key # "sso_region" /\ "sso_region" # Continued
  BY KeyAssumption
<1>4. Portal(RemoveKey(keys, key)) = Portal(keys)
  BY <1>2, <1>3, RemoveKeepsValues DEF Portal
<1>5. ASSUME NEW value, NEW after, IsSeq(value)
      PROVE  Portal(SetKey(keys, key, value, after)) = Portal(keys)
  <2> DEFINE line == Assigned(key, value)
             S == Range(keys) \cup {line}
  <2>1. line[1] = key
    <3>1. value \in Seq(Range(value) \cup {key})
      <4>1. value \in Seq(Range(value)) /\ Range(value) \subseteq Range(value) \cup {key}
        BY <1>5 DEF IsSeq
      <4> DEFINE V == Range(value)
      <4> HIDE DEF V
      <4> QED
        BY <4>1 DEF V
    <3> QED
      BY <3>1, PutBefore DEF Assigned
  <2>2. line \in S /\ Range(keys) \subseteq S
    OBVIOUS
  <2> HIDE DEF S
  <2>3. keys \in Seq(S)
    BY <1>2, <2>2
  <2> QED
    BY <1>3, <2>1, <2>2, <2>3, SetKeepsValues DEF Portal
<1> QED
  BY <1>4, <1>5

\* A line that gets other keys stays what it is.
LEMMA KeysOfOne ==
  ASSUME NEW a, AreLines(a), NEW at, NEW keys,
         at \in 1 .. Len(a) =>
           AreKeys(keys) /\ (a[at].k = "session" => Portal(keys) = Portal(a[at].keys))
  PROVE  KeysOnly(a, [a EXCEPT ![at] = WithKeys(a[at], keys)])
<1> DEFINE b == [a EXCEPT ![at] = WithKeys(a[at], keys)]
           n == Len(a)
<1>1. n \in Nat /\ DOMAIN a = 1 .. n /\ IsSeq(a) /\ \A i \in 1 .. n : IsLine(a[i])
  BY SeqFacts DEF AreLines
<1>2. a = [i \in 1 .. n |-> a[i]]
  BY <1>1 DEF IsSeq
<1>3. /\ at \in 1 .. n => /\ IsLine(WithKeys(a[at], keys))
                          /\ SamePortal(a[at], WithKeys(a[at], keys))
      /\ WithKeys(a[at], keys).k = a[at].k /\ WithKeys(a[at], keys).of = a[at].of
  BY DEF WithKeys, Section, IsLine, SamePortal
<1> HIDE DEF n
<1>4. /\ DOMAIN b = 1 .. n /\ b = [i \in 1 .. n |-> b[i]]
      /\ \A i \in 1 .. n : b[i] = IF i = at THEN WithKeys(a[at], keys) ELSE a[i]
  BY <1>1, <1>2
<1> HIDE DEF b
<1>5. IsSeq(b) /\ Len(b) = n
  BY <1>1, <1>4, FunctionSeq
<1>6. \A i \in 1 .. n : /\ IsLine(b[i]) /\ SamePortal(a[i], b[i])
                       /\ b[i].k = a[i].k /\ b[i].of = a[i].of
  BY <1>1, <1>3, <1>4 DEF SamePortal
<1> QED
  BY <1>5, <1>6 DEF b, n, KeysOnly, AreLines

\* Setting a key in the section of [default] changes keys alone.
LEMMA SetInKeys ==
  ASSUME NEW section, AreLines(section), NEW key, NEW value, IsSeq(value), NEW after,
         key # Continued, key \notin {"sso_start_url", "sso_region"}
  PROVE  KeysOnly(section, SetIn(section, key, value, after))
<1> DEFINE holders == Holding(section, {key})
           anchors == Holding(section, after)
           at == CASE holders # {} -> Min(holders)
                   [] holders = {} /\ anchors # {} -> Max(anchors)
                   [] OTHER -> 1
           keys == SetKey(section[at].keys, key, value, after)
<1>1. SetIn(section, key, value, after) = [section EXCEPT ![at] = WithKeys(section[at], keys)]
  BY ZenonT(30) DEF SetIn
<1>2. at \in 1 .. Len(section) =>
        AreKeys(keys) /\ Portal(keys) = Portal(section[at].keys)
  <2> DEFINE old == section[at].keys
  <2>1. at \in 1 .. Len(section) => AreKeys(old)
    <3> HIDE DEF at
    <3> QED
      BY DEF AreLines, IsLine
  <2>2. keys = SetKey(old, key, value, after)
    OBVIOUS
  <2> HIDE DEF old, keys, at
  <2>3. ASSUME AreKeys(old)
        PROVE  /\ AreKeys(SetKey(old, key, value, after))
               /\ Portal(SetKey(old, key, value, after)) = Portal(old)
    <3>1. AreKeys(SetKey(old, key, value, after))
      BY <2>3, EditedKeys
    <3>2. Portal(SetKey(old, key, value, after)) = Portal(old)
      BY <2>3, PortalStays
    <3> QED
      BY <3>1, <3>2
  <2>4. at \in 1 .. Len(section) => AreKeys(keys) /\ Portal(keys) = Portal(old)
    BY <2>1, <2>2, <2>3
  <2> QED
    BY <2>4 DEF old
<1> HIDE DEF at, keys, holders, anchors
<1>3. KeysOnly(section, [section EXCEPT ![at] = WithKeys(section[at], keys)])
  BY <1>2, KeysOfOne
<1> QED
  BY <1>1, <1>3

\* Removing a key from the section of [default] changes keys alone.
LEMMA RemoveInKeys ==
  ASSUME NEW section, AreLines(section), NEW key,
         key # Continued, key \notin {"sso_start_url", "sso_region"}
  PROVE  KeysOnly(section, RemoveIn(section, key))
<1> DEFINE at == Min(Holding(section, {key}))
           keys == RemoveKey(section[at].keys, key)
<1>1. \/ RemoveIn(section, key) = section
      \/ RemoveIn(section, key) = [section EXCEPT ![at] = WithKeys(section[at], keys)]
  BY DEF RemoveIn
<1>2. at \in 1 .. Len(section) =>
        AreKeys(keys) /\ Portal(keys) = Portal(section[at].keys)
  <2> DEFINE old == section[at].keys
  <2>1. at \in 1 .. Len(section) => AreKeys(old)
    <3> HIDE DEF at
    <3> QED
      BY DEF AreLines, IsLine
  <2>2. keys = RemoveKey(old, key)
    OBVIOUS
  <2> HIDE DEF old, keys, at
  <2>3. at \in 1 .. Len(section) => AreKeys(keys) /\ Portal(keys) = Portal(old)
    BY <2>1, <2>2, EditedKeys, PortalStays
  <2> QED
    BY <2>3 DEF old
<1> HIDE DEF at, keys
<1>3. KeysOnly(section, section)
  BY DEF KeysOnly, SamePortal
<1>4. KeysOnly(section, [section EXCEPT ![at] = WithKeys(section[at], keys)])
  BY <1>2, KeysOfOne
<1> QED
  BY <1>1, <1>3, <1>4

\* Two edits of keys are one.
LEMMA KeysOnlyTwice ==
  ASSUME NEW a, NEW b, NEW c, KeysOnly(a, b), KeysOnly(b, c)
  PROVE  KeysOnly(a, c)
BY DEF KeysOnly, SamePortal

\* Picking a role changes keys of [default] alone.
LEMMA PickedKeys ==
  ASSUME NEW section, AreLines(section), NEW row, NEW region, AreKeys(region)
  PROVE  KeysOnly(section, Picked(section, row, region))
<1> DEFINE session == SetIn(section, "sso_session", <<row.session>>, {})
           regional == IF region = <<>> THEN session
                       ELSE SetIn(session, "region", Tail(region[1]), {"sso_session"})
           account == SetIn(regional, "sso_account_id", <<row.account.id>>,
                            {"sso_session", "region"})
           role == SetIn(account, "sso_role_name", <<row.role>>, {"sso_account_id"})
<1>1. \A key \in {"sso_session", "region", "sso_account_id", "sso_role_name"} :
        \A old, value, after : AreLines(old) /\ IsSeq(value) =>
          KeysOnly(old, SetIn(old, key, value, after))
  <2> TAKE key \in {"sso_session", "region", "sso_account_id", "sso_role_name"}
  <2>1. key # Continued /\ key \notin {"sso_start_url", "sso_region"}
    BY KeyAssumption
  <2> QED
    BY <2>1, SetInKeys
<1>2. IsSeq(<<row.session>>) /\ IsSeq(<<row.account.id>>) /\ IsSeq(<<row.role>>)
  BY SmallSeqs
<1>3. Picked(section, row, region) = role
  BY DEF Picked
<1>4. KeysOnly(section, session) /\ AreLines(session)
  BY <1>1, <1>2 DEF KeysOnly
<1> HIDE DEF session
<1>5. KeysOnly(session, regional) /\ AreLines(regional)
  <2>1. CASE region = <<>>
    BY <1>4, <2>1 DEF KeysOnly, SamePortal
  <2>2. CASE region # <<>>
    <3>1. IsSeq(Tail(region[1]))
      BY <2>2, FirstWords
    <3> QED
      BY <1>1, <1>4, <2>2, <3>1 DEF KeysOnly
  <2> QED
    BY <2>1, <2>2
<1> HIDE DEF regional
<1>6. KeysOnly(regional, account) /\ AreLines(account)
  BY <1>1, <1>2, <1>5 DEF KeysOnly
<1> HIDE DEF account
<1>7. KeysOnly(account, role)
  BY <1>1, <1>2, <1>6
<1> HIDE DEF role
<1>8. KeysOnly(section, regional)
  BY <1>4, <1>5, KeysOnlyTwice
<1>9. KeysOnly(section, account)
  BY <1>6, <1>8, KeysOnlyTwice
<1> QED
  BY <1>3, <1>7, <1>9, KeysOnlyTwice

\* The lines of the default block, as they are rendered.
LEMMA DefaultRendered ==
  ASSUME NEW ls, AreLines(ls)
  PROVE  \E new : /\ RenderedDefault(ls) = Whole(new)
                  /\ AreLines(new) /\ Len(new) = Len(ls) + 2 /\ Len(ls) \in Nat
                  /\ new[1].k = "open" /\ new[Len(ls) + 2].k = "close"
                  /\ \A i \in 1 .. Len(ls) : new[i + 1] = ls[i]
<1> DEFINE f == Marked("open", None)
           l == Marked("close", None)
           new == Around(f, ls, l)
<1>1. IsLine(f) /\ IsLine(l) /\ f.k = "open" /\ l.k = "close"
  BY SomeKeys DEF Marked, Section, IsLine
<1>2. RenderedDefault(ls) = Whole(new)
  BY DEF RenderedDefault, Around
<1> HIDE DEF f, l
<1>3. AreLines(new)
  BY <1>1, Bracketed
<1>4. Len(new) = Len(ls) + 2 /\ Len(ls) \in Nat
  BY <1>1, Bracketed
<1>5. new[1] = f
  BY <1>1, Bracketed
<1>6. new[Len(ls) + 2] = l
  BY <1>1, Bracketed
<1>7. \A i \in 1 .. Len(ls) : new[i + 1] = ls[i]
  BY <1>1, Bracketed
<1> HIDE DEF new
<1> QED
  BY <1>1, <1>2, <1>3, <1>4, <1>5, <1>6, <1>7

\* The lines between a and b are ls, and those outside are as they were.
PutsKeys(t, u, a, b, ls) ==
  /\ \A x \in 1 .. Len(t.lines) : x \notin a .. b => u.lines[x] = t.lines[x]
  /\ Len(ls) = b - a - 1
  /\ \A x \in a + 1 .. b - 1 : u.lines[x] = ls[x - a]

\* The default block is written again with other keys.
LEMMA ManagedKeys ==
  ASSUME NEW t, IsText(t), NEW a \in 1 .. Len(t.lines), NEW b \in 1 .. Len(t.lines),
         IsManaged(t, a, b), NEW ls, KeysOnly(SubSeq(t.lines, a + 1, b - 1), ls)
  PROVE  LET u == Splice(t, RangeAt(a, b), RenderedDefault(ls))
         IN IsText(u) /\ Alike(t, u) /\ PutsKeys(t, u, a, b, ls)
<1> DEFINE u == Splice(t, RangeAt(a, b), RenderedDefault(ls))
           section == SubSeq(t.lines, a + 1, b - 1)
           L == Len(t.lines)
           n == Len(ls)
<1>1. L \in Nat /\ a \in Nat /\ b \in Nat /\ a < b /\ IsSeq(t.lines)
  BY TextFacts DEF IsManaged
<1>2. t.lines[a].k = "open" /\ t.lines[b].k = "close"
  BY DEF IsManaged
<1>3. Len(section) = b - a - 1 /\ \A i \in 1 .. b - a - 1 : section[i] = t.lines[a + i]
  <2>1. /\ a + 1 \in Nat \ {0} /\ b - 1 \in 0 .. L /\ a + 1 <= b - 1 + 1
    BY <1>1
  <2>2. /\ Len(section) = b - 1 - (a + 1) + 1
        /\ \A i \in 1 .. b - 1 - (a + 1) + 1 : section[i] = t.lines[a + 1 + i - 1]
    BY <1>1, <2>1, PartFacts
  <2>3. b - 1 - (a + 1) + 1 = b - a - 1 /\ \A i \in 1 .. b - a - 1 : a + 1 + i - 1 = a + i
    BY <1>1
  <2> HIDE DEF section
  <2> QED
    BY <2>2, <2>3
<1> HIDE DEF section
<1>4. /\ AreLines(ls) /\ n = b - a - 1
      /\ \A i \in 1 .. n : /\ ls[i].k = section[i].k /\ ls[i].of = section[i].of
                          /\ SamePortal(section[i], ls[i])
  BY <1>3 DEF KeysOnly, section
<1>5. PICK new : /\ RenderedDefault(ls) = Whole(new)
                 /\ AreLines(new) /\ Len(new) = n + 2 /\ n \in Nat
                 /\ new[1].k = "open" /\ new[n + 2].k = "close"
                 /\ \A i \in 1 .. n : new[i + 1] = ls[i]
  BY <1>4, DefaultRendered
<1>6. RangeAt(a, b).first = a /\ RangeAt(a, b).last = b /\ IsRange(t, RangeAt(a, b))
  BY <1>1 DEF RangeAt, IsRange
<1>7. /\ IsText(u) /\ Swaps(t, u, a, b, Len(new)) /\ Puts(u, a, new)
      /\ Exact(t, u, a, b, Len(new))
  BY <1>5, <1>6, SpliceSwaps
<1> HIDE DEF u, n
<1>8. /\ Len(u.lines) = L
      /\ \A x \in Outer(t, a, b) : Same(t.lines[x], u.lines[x]) /\ u.lines[x] = t.lines[x]
  <2>1. Len(new) = b - a + 1
    BY <1>1, <1>4, <1>5
  <2>2. Len(u.lines) = L + (b - a + 1) - (b - a + 1)
    BY <1>7, <2>1 DEF Swaps
  <2>3. \A x \in Outer(t, a, b) : Shift(a, b, Len(new), x) = x
    BY <1>1, <2>1 DEF Shift, Outer
  <2>4. \A x \in Outer(t, a, b) :
          /\ Same(t.lines[x], u.lines[Shift(a, b, Len(new), x)])
          /\ u.lines[Shift(a, b, Len(new), x)] = t.lines[x]
    BY <1>7 DEF Swaps, Exact
  <2> QED
    BY <1>1, <2>2, <2>3, <2>4
<1>9. \A i \in 1 .. n + 2 : u.lines[a + i - 1] = new[i]
  BY <1>5, <1>7 DEF Puts
<1>10. \A x \in a .. b : Same(t.lines[x], u.lines[x])
  <2> SUFFICES ASSUME NEW x \in a .. b
               PROVE  Same(t.lines[x], u.lines[x])
    OBVIOUS
  <2>1. CASE x = a
    <3>1. 1 \in 1 .. n + 2 /\ a + 1 - 1 = x
      BY <1>1, <1>5, <2>1
    <3>2. u.lines[x] = new[1]
      BY <1>9, <3>1
    <3> QED
      BY <1>2, <1>5, <2>1, <3>2 DEF Same, SamePortal
  <2>2. CASE x = b
    <3>1. n + 2 \in 1 .. n + 2 /\ a + (n + 2) - 1 = x
      BY <1>1, <1>4, <1>5, <2>2
    <3>2. u.lines[x] = new[n + 2]
      BY <1>9, <3>1
    <3> QED
      BY <1>2, <1>5, <2>2, <3>2 DEF Same, SamePortal
  <2>3. CASE x # a /\ x # b
    <3> DEFINE i == x - a
    <3>1. /\ i \in 1 .. n /\ i \in 1 .. b - a - 1 /\ i + 1 \in 1 .. n + 2
          /\ a + (i + 1) - 1 = x /\ a + i = x
      BY <1>1, <1>4, <1>5, <2>3
    <3> HIDE DEF i
    <3>2. u.lines[x] = new[i + 1] /\ new[i + 1] = ls[i]
      BY <1>5, <1>9, <3>1
    <3>3. section[i] = t.lines[x]
      BY <1>3, <3>1
    <3> QED
      BY <1>4, <3>1, <3>2, <3>3 DEF Same
  <2> QED
    BY <2>1, <2>2, <2>3
<1>11. \A x \in 1 .. L : x \in Outer(t, a, b) \/ x \in a .. b
  BY <1>1 DEF Outer
<1>12. Alike(t, u)
  BY <1>8, <1>10, <1>11 DEF Alike
<1>13. \A x \in a + 1 .. b - 1 : u.lines[x] = ls[x - a]
  <2> TAKE x \in a + 1 .. b - 1
  <2> DEFINE i == x - a
  <2>1. i \in 1 .. n /\ i + 1 \in 1 .. n + 2 /\ a + (i + 1) - 1 = x
    BY <1>1, <1>4, <1>5
  <2> HIDE DEF i
  <2>2. u.lines[x] = new[i + 1] /\ new[i + 1] = ls[i]
    BY <1>5, <1>9, <2>1
  <2> QED
    BY <2>2 DEF i
<1>14. PutsKeys(t, u, a, b, ls)
  <2>1. \A x \in 1 .. L : x \notin a .. b => u.lines[x] = t.lines[x]
    BY <1>8, <1>11
  <2>2. Len(ls) = b - a - 1
    BY <1>4 DEF n
  <2> QED
    BY <1>13, <2>1, <2>2 DEF PutsKeys
<1> QED
  BY <1>7, <1>12, <1>14 DEF u

\* What a command that picks a role, or clears it, leaves of the markers.
Retains(t, u) ==
  /\ IsText(u)
  /\ WellNested(t) => WellNested(u)
  /\ OneDefault(t) => OneDefault(u)
  /\ \A x : Begun(u, x) <=> Begun(t, x)
  /\ \A x : Kept(t, u, x)

\* A default block comes in for lines that hold no marker.
LEMMA DefaultComes ==
  ASSUME NEW t, NEW u, IsText(t), IsText(u), NEW p, NEW q, NEW n, Swaps(t, u, p, q, n),
         Unmarked(t, p, q),
         \A x \in Outer(t, p, q) :
           t.lines[x].k \notin {"open", "close", "default"} /\ ~OfDefault(t, x),
         NEW o \in p .. p + n - 1, o + 2 \in p .. p + n - 1,
         u.lines[o].k = "open", u.lines[o + 1].k = "default",
         u.lines[o + 2].k = "close",
         \A y \in p .. p + n - 1 : y \notin {o, o + 1, o + 2} => u.lines[y].k = "blank",
         \A x \in p .. q : t.lines[x].k # "session"
  PROVE  Retains(t, u)
<1>1. \A y \in p .. p + n - 1 : y \notin {o, o + 1, o + 2} =>
        u.lines[y].k \notin {"open", "close", "default"} /\ ~OfDefault(u, y)
  BY DEF OfDefault, Defines
<1>2. OneDefault(u)
  BY <1>1, TakesOver
<1>3. \A y \in p .. p + n - 1 : u.lines[y].k \notin {"begin", "end", "session"}
  <2> TAKE y \in p .. p + n - 1
  <2>1. CASE y \in {o, o + 1, o + 2}
    BY <2>1
  <2>2. CASE y \notin {o, o + 1, o + 2}
    BY <2>2
  <2> QED
    BY <2>1, <2>2
<1>4. Unmarked(u, p, p + n - 1)
  BY <1>3 DEF Unmarked, IsMark
<1>5. Fits(t, u, p, q, n)
  BY <1>3, <1>4 DEF Fits, Balanced
<1>6. WellNested(t) => WellNested(u)
  BY <1>5, StaysNested
<1>7. \A x : Begun(u, x) <=> Begun(t, x)
  <2> TAKE s
  <2>1. ASSUME Begun(t, s)
        PROVE  Begun(u, s)
    <3>1. PICK x \in 1 .. Len(t.lines) : t.lines[x].k = "begin" /\ t.lines[x].of = s
      BY <2>1 DEF Begun
    <3>2. x \notin p .. q
      BY <3>1 DEF Unmarked, IsMark
    <3>3. x \in Outer(t, p, q)
      <4>1. p \in Nat /\ q \in Nat /\ Len(t.lines) \in Nat
        BY Shifting, TextFacts
      <4> QED
        BY <3>2, <4>1 DEF Outer
    <3>4. Shift(p, q, n, x) \in 1 .. Len(u.lines)
      BY <3>3, StillThere
    <3>5. Same(t.lines[x], u.lines[Shift(p, q, n, x)])
      BY <3>3 DEF Swaps
    <3> QED
      BY <3>1, <3>4, <3>5 DEF Begun, Same
  <2>2. ASSUME Begun(u, s)
        PROVE  Begun(t, s)
    <3>1. PICK y \in 1 .. Len(u.lines) : u.lines[y].k = "begin" /\ u.lines[y].of = s
      BY <2>2 DEF Begun
    <3>2. y \notin p .. p + n - 1
      BY <1>3, <3>1
    <3>3. PICK x \in Outer(t, p, q) : x \in 1 .. Len(t.lines) /\ Same(t.lines[x], u.lines[y])
      BY <3>2, OldOrNew
    <3> QED
      BY <3>1, <3>3 DEF Begun, Same
  <2> QED
    BY <2>1, <2>2
<1>8. ASSUME NEW s
      PROVE  Kept(t, u, s)
  <2>1. IsLines(t) /\ IsLines(u) /\ p \in Nat /\ q \in Nat
    BY TextFacts, Shifting
  <2>2. \A y \in p .. p + n - 1 : y \notin Copies(u, s)
    BY <1>3, <2>1, CopyLines
  <2>3. \A x \in Copies(t, s) : x \in Outer(t, p, q)
    <3>1. \A x \in Copies(t, s) : x \in 1 .. Len(t.lines) /\ t.lines[x].k = "session"
      BY <2>1, CopyLines
    <3>2. \A x \in Copies(t, s) : x \notin p .. q
      BY <3>1
    <3> QED
      BY <2>1, <3>1, <3>2 DEF Outer, IsLines
  <2>4. AtHome(t, s) => \E x \in Outer(t, p, q) : x \in Copies(t, s)
    BY <2>3 DEF AtHome
  <2> QED
    BY <2>2, <2>4, NoneNew
<1> QED
  BY <1>2, <1>6, <1>7, <1>8 DEF Retains

\* A text without a default block: the user has written [default], or nobody has.
LEMMA NotManaged ==
  ASSUME NEW t, IsText(t), FindDefault(t).ok, FindDefault(t).managed = <<>>
  PROVE  LET L == Len(t.lines)
             hand == FindDefault(t).hand
         IN /\ \A x \in 1 .. L : t.lines[x].k \notin {"open", "close"} /\ ~OfDefault(t, x)
            /\ hand = <<>> => \A x \in 1 .. L : t.lines[x].k # "default"
            /\ hand # <<>> =>
                 \E h \in 1 .. L : /\ hand = <<RangeAt(h, h)>>
                                   /\ \A x \in 1 .. L : t.lines[x].k = "default" <=> x = h
<1> DEFINE L == Len(t.lines)
           hand == FindDefault(t).hand
<1>1. IsLines(t)
  BY TextFacts
<1>2. OneDefault(t) /\ DefaultBlocks(t) = {}
  BY <1>1, FindRight
<1>3. IF hand = <<>> THEN Marks(t, {"default"}) = {}
      ELSE \E h \in 1 .. L : hand = <<RangeAt(h, h)>> /\ Marks(t, {"default"}) = {h}
  BY <1>1, FindRight
<1>4. Marks(t, {"default"}) = {x \in 1 .. L : t.lines[x].k = "default"}
  BY <1>1 DEF Marks, IsLines
<1>5. \A x \in 1 .. L : ~Inside(t, x)
  <2>1. ASSUME NEW a \in 1 .. L, NEW b \in 1 .. L, IsManaged(t, a, b)
        PROVE  FALSE
    <3>1. <<a, b>> \in DefaultBlocks(t)
      BY <1>1, <2>1, DefaultBlock
    <3> QED
      BY <1>2, <3>1
  <2> QED
    BY <2>1 DEF Inside
<1>6. \A x \in 1 .. L : t.lines[x].k \in {"open", "close"} => Inside(t, x)
  BY <1>1, <1>2, DefaultOnce
<1>7. \A x \in 1 .. L : OfDefault(t, x) => Inside(t, x)
  BY <1>1, <1>2, DefaultOnce DEF OfDefault
<1> QED
  BY <1>3, <1>4, <1>5, <1>6, <1>7

\* One line with the key of the default profile.
LEMMA OneKeyed ==
  ASSUME NEW line, IsLine(line), NEW ls, KeysOnly(<<line>>, ls)
  PROVE  AreLines(ls) /\ Len(ls) = 1 /\ ls[1].k = line.k
<1>1. Len(<<line>>) = 1 /\ <<line>>[1] = line
  BY SmallSeqs
<1>2. AreLines(ls) /\ Len(ls) = Len(<<line>>)
  BY DEF KeysOnly
<1>3. \A i \in 1 .. Len(<<line>>) : ls[i].k = <<line>>[i].k
  BY DEF KeysOnly
<1>4. 1 \in 1 .. Len(<<line>>)
  BY <1>1
<1>5. ls[1].k = <<line>>[1].k
  BY <1>3, <1>4
<1> QED
  BY <1>1, <1>2, <1>5

\* The default block with [default] and nothing else.
LEMMA DefaultAlone ==
  ASSUME NEW ls, AreLines(ls), Len(ls) = 1, ls[1].k = "default"
  PROVE  \E new : /\ RenderedDefault(ls) = Whole(new)
                  /\ AreLines(new) /\ Len(new) = 3
                  /\ new[1].k = "open" /\ new[2] = ls[1] /\ new[3].k = "close"
<1>1. AreLines(ls) /\ ls[1].k = "default"
  OBVIOUS
<1>2. \A n : n = 1 => 1 \in 1 .. n /\ n + 2 = 3 /\ 1 + 1 = 2
  OBVIOUS
<1>3. ASSUME NEW n, n = Len(ls)
      PROVE  \E new : /\ RenderedDefault(ls) = Whole(new)
                      /\ AreLines(new) /\ Len(new) = n + 2 /\ n \in Nat
                      /\ new[1].k = "open" /\ new[n + 2].k = "close"
                      /\ \A i \in 1 .. n : new[i + 1] = ls[i]
  BY ONLY <1>1, <1>3, DefaultRendered
<1>4. PICK new : /\ RenderedDefault(ls) = Whole(new)
                 /\ AreLines(new) /\ Len(new) = 1 + 2 /\ 1 \in Nat
                 /\ new[1].k = "open" /\ new[1 + 2].k = "close"
                 /\ \A i \in 1 .. 1 : new[i + 1] = ls[i]
  <2>1. 1 = Len(ls)
    OBVIOUS
  <2> QED
    BY ONLY <1>3, <2>1, Zenon
<1> QED
  BY <1>1, <1>4

\* In the place of lines p .. q, the default block is put at line o, with nothing
\* but [default] in it, and a blank line before it at most.
PutsDefault(t, u, p, q, n, o, header) ==
  /\ Swaps(t, u, p, q, n) /\ Exact(t, u, p, q, n)
  /\ o \in p .. p + n - 1 /\ o + 2 \in p .. p + n - 1
  /\ u.lines[o].k = "open" /\ u.lines[o + 2].k = "close"
  /\ u.lines[o + 1] = header /\ header.k = "default"
  /\ \A y \in p .. p + n - 1 : y \notin {o, o + 1, o + 2} => y = p /\ u.lines[y] = Blank

\* A default block in the place of the [default] the user has written.
LEMMA HandTakenOver ==
  ASSUME NEW t, IsText(t), FindDefault(t).ok, FindDefault(t).managed = <<>>,
         NEW h \in 1 .. Len(t.lines), FindDefault(t).hand = <<RangeAt(h, h)>>,
         NEW ls, KeysOnly(<<t.lines[h]>>, ls)
  PROVE  LET u == Splice(t, RangeAt(h, h), RenderedDefault(ls))
         IN Retains(t, u) /\ PutsDefault(t, u, h, h, 3, h, ls[1])
<1> DEFINE u == Splice(t, RangeAt(h, h), RenderedDefault(ls))
           L == Len(t.lines)
<1>1. L \in Nat /\ h \in Nat /\ IsLine(t.lines[h])
  BY TextFacts DEF IsText, AreLines
<1>2. /\ \A x \in 1 .. L : t.lines[x].k \notin {"open", "close"} /\ ~OfDefault(t, x)
      /\ \A x \in 1 .. L : t.lines[x].k = "default" <=> x = h
  <2>1. <<RangeAt(h, h)>> # <<>>
    BY Singletons
  <2>2. PICK g \in 1 .. L : /\ <<RangeAt(h, h)>> = <<RangeAt(g, g)>>
                            /\ \A x \in 1 .. L : t.lines[x].k = "default" <=> x = g
    BY <2>1, NotManaged
  <2>3. h = g
    BY <2>2, Singletons, SameRange
  <2> QED
    BY <2>2, <2>3, NotManaged
<1>3. AreLines(ls) /\ Len(ls) = 1 /\ ls[1].k = "default"
  BY <1>1, <1>2, OneKeyed
<1>4. PICK new : /\ RenderedDefault(ls) = Whole(new)
                 /\ AreLines(new) /\ Len(new) = 3
                 /\ new[1].k = "open" /\ new[2] = ls[1] /\ new[3].k = "close"
  BY <1>3, DefaultAlone
<1>5. /\ Len(new) = 3 /\ new[1].k = "open" /\ new[3].k = "close"
      /\ new[2] = ls[1] /\ ls[1].k = "default"
  BY <1>3, <1>4
<1>6. RangeAt(h, h).first = h /\ RangeAt(h, h).last = h /\ IsRange(t, RangeAt(h, h))
  BY <1>1 DEF RangeAt, IsRange
<1>7. IsText(u) /\ Swaps(t, u, h, h, 3) /\ Exact(t, u, h, h, 3) /\ Puts(u, h, new)
  <2> DEFINE r == RangeAt(h, h)
             v == Splice(t, r, Whole(new))
  <2>1. IsRange(t, r) /\ AreLines(new)
    BY <1>4, <1>6
  <2>2. /\ IsText(v) /\ Swaps(t, v, r.first, r.last, Len(new)) /\ Puts(v, r.first, new)
        /\ Exact(t, v, r.first, r.last, Len(new))
    BY <2>1, SpliceSwaps
  <2>3. u = v
    BY <1>4
  <2>4. r.first = h /\ r.last = h /\ Len(new) = 3
    BY <1>5, <1>6
  <2> HIDE DEF u, v, r
  <2> QED
    BY <2>2, <2>3, <2>4
<1> HIDE DEF u
<1>8. u.lines[h].k = "open" /\ u.lines[h + 1] = ls[1] /\ u.lines[h + 2].k = "close"
  <2>1. /\ u.lines[h + 1 - 1] = new[1] /\ u.lines[h + 2 - 1] = new[2]
        /\ u.lines[h + 3 - 1] = new[3]
    BY <1>5, <1>7 DEF Puts
  <2>2. h + 1 - 1 = h /\ h + 2 - 1 = h + 1 /\ h + 3 - 1 = h + 2
    BY <1>1
  <2> QED
    BY <1>5, <2>1, <2>2
<1>9. /\ h \in h .. h + 3 - 1 /\ h + 2 \in h .. h + 3 - 1
      /\ \A y \in h .. h + 3 - 1 : y \in {h, h + 1, h + 2}
  BY <1>1
<1>10. \A x \in Outer(t, h, h) :
         t.lines[x].k \notin {"open", "close", "default"} /\ ~OfDefault(t, x)
  BY <1>1, <1>2 DEF Outer
<1>11. Unmarked(t, h, h) /\ \A x \in h .. h : t.lines[x].k # "session"
  BY <1>1, <1>2 DEF Unmarked, IsMark
<1>12. u.lines[h + 1].k = "default"
  BY <1>5, <1>8
<1>13. Retains(t, u)
  BY <1>7, <1>8, <1>9, <1>10, <1>11, <1>12, DefaultComes
<1>14. PutsDefault(t, u, h, h, 3, h, ls[1])
  BY <1>5, <1>7, <1>8, <1>9 DEF PutsDefault
<1> QED
  BY <1>13, <1>14 DEF u

\* A default block in a text that has no default profile.
LEMMA DefaultAppended ==
  ASSUME NEW t, IsText(t), FindDefault(t).ok, FindDefault(t).managed = <<>>,
         FindDefault(t).hand = <<>>,
         NEW ls, KeysOnly(<<Marked("default", None)>>, ls)
  PROVE  LET u == AppendText(t, RenderedDefault(ls))
             L == Len(t.lines)
         IN /\ Retains(t, u)
            /\ \E n, o : PutsDefault(t, u, L + 1, L, n, o, ls[1])
<1> DEFINE u == AppendText(t, RenderedDefault(ls))
           L == Len(t.lines)
<1>1. L \in Nat /\ IsLines(t)
  BY TextFacts
<1>2. \A x \in 1 .. L :
        t.lines[x].k \notin {"open", "close", "default"} /\ ~OfDefault(t, x)
  BY NotManaged
<1>3. AreLines(ls) /\ Len(ls) = 1 /\ ls[1].k = "default"
  <2>1. IsLine(Marked("default", None)) /\ Marked("default", None).k = "default"
    BY SomeKeys DEF Marked, Section, IsLine
  <2> QED
    BY <2>1, OneKeyed
<1>4. PICK new : /\ RenderedDefault(ls) = Whole(new)
                 /\ AreLines(new) /\ Len(new) = 3
                 /\ new[1].k = "open" /\ new[2] = ls[1] /\ new[3].k = "close"
  BY <1>3, DefaultAlone
<1>5. /\ Len(new) = 3 /\ new[1].k = "open" /\ new[3].k = "close"
      /\ new[2] = ls[1] /\ ls[1].k = "default"
  BY <1>3, <1>4
<1>6. /\ IsText(u)
      /\ \E e \in {0, 1} : /\ Swaps(t, u, L + 1, L, e + 3)
                           /\ Exact(t, u, L + 1, L, e + 3)
                           /\ e = 1 => u.lines[L + 1] = Blank
                           /\ Puts(u, L + 1 + e, new)
  BY <1>4, <1>5, AppendSwaps
<1> HIDE DEF u
<1>7. PICK e \in {0, 1} : /\ Swaps(t, u, L + 1, L, e + 3)
                          /\ Exact(t, u, L + 1, L, e + 3)
                          /\ e = 1 => u.lines[L + 1] = Blank
                          /\ Puts(u, L + 1 + e, new)
  BY <1>6
<1> DEFINE o == L + 1 + e
           g == L + 1 + (e + 3) - 1
<1>8. u.lines[o].k = "open" /\ u.lines[o + 1] = ls[1] /\ u.lines[o + 2].k = "close"
  <2>1. \A i \in 1 .. 3 : u.lines[o + i - 1] = new[i]
    BY <1>5, <1>7 DEF Puts
  <2>2. o + 1 - 1 = o /\ o + 2 - 1 = o + 1 /\ o + 3 - 1 = o + 2
    BY <1>1
  <2> HIDE DEF o
  <2>3. u.lines[o + 1 - 1] = new[1] /\ u.lines[o + 2 - 1] = new[2] /\ u.lines[o + 3 - 1] = new[3]
    BY <2>1
  <2> QED
    BY <1>5, <2>2, <2>3
<1>9. /\ o \in L + 1 .. g /\ o + 2 \in L + 1 .. g
      /\ \A y \in L + 1 .. g : y \notin {o, o + 1, o + 2} => y = L + 1 /\ e = 1
  <2>1. L \in Nat
    BY <1>1
  <2> HIDE DEF L
  <2>2. CASE e = 0
    BY <2>1, <2>2
  <2>3. CASE e = 1
    BY <2>1, <2>3
  <2> QED
    BY <2>2, <2>3
<1>10. \A y \in L + 1 .. g : y \notin {o, o + 1, o + 2} =>
         y = L + 1 /\ u.lines[y] = Blank /\ u.lines[y].k = "blank"
  <2> HIDE DEF o, g, L
  <2>1. e = 1 => u.lines[L + 1] = Blank /\ u.lines[L + 1].k = "blank"
    BY <1>7, BlankKind
  <2> QED
    BY <1>9, <2>1
<1>11. /\ Unmarked(t, L + 1, L) /\ L + 1 .. L = {}
       /\ \A x \in Outer(t, L + 1, L) :
            t.lines[x].k \notin {"open", "close", "default"} /\ ~OfDefault(t, x)
  BY <1>1, <1>2, AtTheEnd
<1> DEFINE p == L + 1
           n == e + 3
<1>12. /\ Swaps(t, u, p, L, n) /\ o \in p .. p + n - 1 /\ o + 2 \in p .. p + n - 1
       /\ Exact(t, u, p, L, n)
       /\ \A y \in p .. p + n - 1 : y \notin {o, o + 1, o + 2} =>
            y = p /\ u.lines[y] = Blank /\ u.lines[y].k = "blank"
       /\ Unmarked(t, p, L) /\ \A x \in p .. L : t.lines[x].k # "session"
       /\ \A x \in Outer(t, p, L) :
            t.lines[x].k \notin {"open", "close", "default"} /\ ~OfDefault(t, x)
  BY <1>7, <1>9, <1>10, <1>11
<1> HIDE DEF o, g, p, n, L
<1>13. u.lines[o + 1].k = "default"
  BY <1>5, <1>8
<1>14. Retains(t, u)
  BY <1>6, <1>8, <1>12, <1>13, DefaultComes
<1>15. PutsDefault(t, u, p, L, n, o, ls[1])
  BY <1>5, <1>8, <1>12 DEF PutsDefault
<1>16. \E x, y : PutsDefault(t, u, L + 1, L, x, y, ls[1])
  BY <1>15 DEF p
<1> QED
  BY <1>14, <1>16 DEF u, L

\* Where the default block goes, and what becomes of the text.
LEMMA RetainsAlike ==
  ASSUME NEW t, NEW u, IsText(t), IsText(u), Alike(t, u)
  PROVE  Retains(t, u)
BY AlikeKeeps, AlikeSessions DEF Safe, Retains

\* Where the default block is written: over the one before it, over the [default]
\* of the user, or after the last line.
Rewrites(t, u, ls) ==
  LET found == FindDefault(t)
      section == DefaultLines(t, found)
      L == Len(t.lines)
  IN \/ \E a, b \in 1 .. L :
          /\ found.managed = <<RangeAt(a, b)>> /\ IsManaged(t, a, b)
          /\ section = SubSeq(t.lines, a + 1, b - 1)
          /\ u = Splice(t, RangeAt(a, b), RenderedDefault(ls))
     \/ \E h \in 1 .. L :
          /\ found.managed = <<>> /\ found.hand = <<RangeAt(h, h)>>
          /\ section = <<t.lines[h]>>
          /\ u = Splice(t, RangeAt(h, h), RenderedDefault(ls))
     \/ /\ found.managed = <<>> /\ found.hand = <<>>
        /\ section = <<Marked("default", None)>>
        /\ u = AppendText(t, RenderedDefault(ls))

\* That is where select and clear write it.
LEMMA RewritesWhere ==
  ASSUME NEW t, IsText(t), FindDefault(t).ok
  PROVE  LET found == FindDefault(t)
             range == found.managed \o found.hand
         IN /\ AreLines(DefaultLines(t, found))
            /\ \A ls : range = <<>> => Rewrites(t, AppendText(t, RenderedDefault(ls)), ls)
            /\ \A ls : range # <<>> =>
                 Rewrites(t, Splice(t, range[1], RenderedDefault(ls)), ls)
            /\ found.managed # <<>> => range = found.managed
<1> DEFINE found == FindDefault(t)
           range == found.managed \o found.hand
           section == DefaultLines(t, found)
           L == Len(t.lines)
<1>1. IsLines(t) /\ \A x \in 1 .. L : IsLine(t.lines[x])
  BY TextFacts DEF IsText, AreLines
<1>2. CASE found.managed # <<>>
  <2>1. PICK a \in 1 .. L, b \in 1 .. L :
          found.managed = <<RangeAt(a, b)>> /\ IsManaged(t, a, b)
    BY <1>1, <1>2, FindRight
  <2>2. found.hand = <<>>
    BY <1>1, <1>2, FindRight
  <2>3. found.managed[1] = RangeAt(a, b)
    BY <2>1
  <2>4. section = SubSeq(t.lines, a + 1, b - 1)
    <3>1. section = SubSeq(t.lines, found.managed[1].first + 1, found.managed[1].last - 1)
      BY <1>2 DEF DefaultLines
    <3>2. found.managed[1].first = a /\ found.managed[1].last = b
      BY <2>3 DEF RangeAt
    <3> HIDE DEF found
    <3> QED
      BY <3>1, <3>2
  <2>5. AreLines(section)
    <3>1. a + 1 \in Nat \ {0} /\ b - 1 \in 0 .. L /\ a + 1 <= b - 1 + 1
      BY <1>1, <2>1 DEF IsManaged, IsLines
    <3>2. AreLines(t.lines)
      BY DEF IsText
    <3> QED
      BY <2>4, <3>1, <3>2, PartLines
  <2>6. range = found.managed
    <3>1. IsSeq(<<RangeAt(a, b)>>)
      BY SmallSeqs
    <3>2. <<RangeAt(a, b)>> \o <<>> = <<RangeAt(a, b)>>
      BY <3>1, ConcatNothing
    <3> HIDE DEF found
    <3> QED
      BY <2>1, <2>2, <3>2
  <2>7. ASSUME NEW ls
        PROVE  Rewrites(t, Splice(t, range[1], RenderedDefault(ls)), ls)
    BY <2>1, <2>3, <2>4, <2>6 DEF Rewrites
  <2> HIDE DEF range, found, section
  <2>8. range # <<>>
    BY <1>2, <2>6
  <2> QED
    BY <2>5, <2>6, <2>7, <2>8 DEF range, found, section
<1>3. CASE found.managed = <<>> /\ found.hand # <<>>
  <2>1. PICK h \in 1 .. L : found.hand = <<RangeAt(h, h)>>
    BY <1>3, NotManaged
  <2>2. found.hand[1] = RangeAt(h, h) /\ found.hand[1].first = h
    BY <2>1 DEF RangeAt
  <2>3. section = <<t.lines[h]>>
    <3>1. section = <<t.lines[found.hand[1].first]>>
      BY <1>3 DEF DefaultLines
    <3> QED
      BY <2>2, <3>1
  <2>4. AreLines(<<t.lines[h]>>)
    BY <1>1, SmallSeqs DEF AreLines
  <2>5. range = found.hand
    <3>1. IsSeq(<<RangeAt(h, h)>>)
      BY SmallSeqs
    <3>2. <<>> \o <<RangeAt(h, h)>> = <<RangeAt(h, h)>>
      BY <3>1, ConcatNothing
    <3> HIDE DEF found
    <3> QED
      BY <1>3, <2>1, <3>2
  <2>6. range[1] = RangeAt(h, h)
    <3> HIDE DEF range, found
    <3> QED
      BY <2>2, <2>5
  <2>7. ASSUME NEW ls
        PROVE  Rewrites(t, Splice(t, range[1], RenderedDefault(ls)), ls)
    BY <1>3, <2>1, <2>3, <2>6 DEF Rewrites
  <2> HIDE DEF range, found, section
  <2>8. range # <<>>
    BY <1>3, <2>5
  <2> QED
    BY <1>3, <2>3, <2>4, <2>7, <2>8 DEF range, found, section
<1>4. CASE found.managed = <<>> /\ found.hand = <<>>
  <2>1. section = <<Marked("default", None)>>
    BY <1>4 DEF DefaultLines
  <2>2. AreLines(<<Marked("default", None)>>)
    <3>1. IsLine(Marked("default", None))
      BY SomeKeys DEF Marked, Section, IsLine
    <3> HIDE DEF section
    <3> QED
      BY <3>1, SmallSeqs DEF AreLines
  <2>3. range = <<>>
    <3>1. IsSeq(<<>>)
      BY SmallSeqs
    <3>2. <<>> \o <<>> = <<>>
      BY <3>1, ConcatNothing
    <3> HIDE DEF found
    <3> QED
      BY <1>4, <3>2
  <2>4. ASSUME NEW ls
        PROVE  Rewrites(t, AppendText(t, RenderedDefault(ls)), ls)
    BY <1>4, <2>1 DEF Rewrites
  <2> HIDE DEF range, found, section
  <2> QED
    BY <1>4, <2>1, <2>2, <2>3, <2>4 DEF range, found, section
<1> HIDE DEF range, found, section
<1> QED
  BY <1>2, <1>3, <1>4 DEF range, found, section

\* The section with other keys, where it is written, breaks nothing.
LEMMA RewritesRetain ==
  ASSUME NEW t, IsText(t), FindDefault(t).ok, NEW ls,
         KeysOnly(DefaultLines(t, FindDefault(t)), ls), NEW u, Rewrites(t, u, ls)
  PROVE  Retains(t, u)
<1> DEFINE found == FindDefault(t)
           section == DefaultLines(t, found)
           L == Len(t.lines)
<1>1. ASSUME NEW a \in 1 .. L, NEW b \in 1 .. L, IsManaged(t, a, b),
             section = SubSeq(t.lines, a + 1, b - 1),
             u = Splice(t, RangeAt(a, b), RenderedDefault(ls))
      PROVE  Retains(t, u)
  <2>1. IsText(u) /\ Alike(t, u)
    BY <1>1, ManagedKeys
  <2> QED
    BY <2>1, RetainsAlike
<1>2. ASSUME NEW h \in 1 .. L, found.managed = <<>>, found.hand = <<RangeAt(h, h)>>,
             section = <<t.lines[h]>>, u = Splice(t, RangeAt(h, h), RenderedDefault(ls))
      PROVE  Retains(t, u)
  BY <1>2, HandTakenOver
<1>3. ASSUME found.managed = <<>>, found.hand = <<>>,
             section = <<Marked("default", None)>>, u = AppendText(t, RenderedDefault(ls))
      PROVE  Retains(t, u)
  BY <1>3, DefaultAppended
<1> HIDE DEF found, section
<1> QED
  BY <1>1, <1>2, <1>3 DEF Rewrites, found, section

\* What `gac select` writes, if it writes at all.
LEMMA SelectIs ==
  ASSUME NEW t, IsText(t), NEW c
  PROVE  \/ Select(t, c) = t
         \/ LET found == FindDefault(t)
                section == DefaultLines(t, found)
            IN /\ MaySelect(t, c, found, Chosen(t, c))
               /\ \E row : LET ls == Picked(section, row, RegionLines(t, section, row.session))
                           IN KeysOnly(section, ls) /\ Rewrites(t, Select(t, c), ls)
<1> DEFINE found == FindDefault(t)
           range == found.managed \o found.hand
           section == DefaultLines(t, found)
           row == CHOOSE x \in Chosen(t, c) : TRUE
           region == RegionLines(t, section, row.session)
           ls == Picked(section, row, region)
<1>1. \/ Select(t, c) = t
      \/ /\ MaySelect(t, c, found, Chosen(t, c)) /\ found.ok
         /\ range = <<>> => Select(t, c) = AppendText(t, RenderedDefault(ls))
         /\ range # <<>> => Select(t, c) = Splice(t, range[1], RenderedDefault(ls))
  BY DEF Select, MaySelect
<1> HIDE DEF row
<1>2. AreKeys(region)
  BY HeaderTyped, LinesOfTyped, SomeKeys DEF RegionLines
<1>3. ASSUME found.ok
      PROVE  /\ AreLines(section)
             /\ range = <<>> => Rewrites(t, AppendText(t, RenderedDefault(ls)), ls)
             /\ range # <<>> => Rewrites(t, Splice(t, range[1], RenderedDefault(ls)), ls)
  <2> HIDE DEF ls
  <2> QED
    BY <1>3, RewritesWhere
<1>4. AreLines(section) => KeysOnly(section, ls)
  <2> HIDE DEF region, section
  <2> QED
    BY <1>2, PickedKeys
<1> HIDE DEF range
<1>5. \/ Select(t, c) = t
      \/ /\ MaySelect(t, c, found, Chosen(t, c))
         /\ KeysOnly(section, ls) /\ Rewrites(t, Select(t, c), ls)
  <2> HIDE DEF found, section, ls
  <2> QED
    BY <1>1, <1>3, <1>4
<1> QED
  BY <1>5

\* `gac select` breaks no marker and no block, and [default] is written once.
LEMMA SelectKeeps ==
  ASSUME NEW t, IsText(t), NEW c
  PROVE  Retains(t, Select(t, c))
<1>1. CASE Select(t, c) = t
  BY <1>1, KeptAsIs DEF Retains
<1>2. CASE Select(t, c) # t
  <2> DEFINE section == DefaultLines(t, FindDefault(t))
  <2>1. /\ MaySelect(t, c, FindDefault(t), Chosen(t, c))
        /\ \E row : LET ls == Picked(section, row, RegionLines(t, section, row.session))
                    IN KeysOnly(section, ls) /\ Rewrites(t, Select(t, c), ls)
    BY <1>2, SelectIs
  <2>2. FindDefault(t).ok
    BY <2>1 DEF MaySelect
  <2>3. PICK row : LET ls == Picked(section, row, RegionLines(t, section, row.session))
                   IN KeysOnly(section, ls) /\ Rewrites(t, Select(t, c), ls)
    BY <2>1
  <2> DEFINE ls == Picked(section, row, RegionLines(t, section, row.session))
  <2>4. KeysOnly(section, ls) /\ Rewrites(t, Select(t, c), ls)
    BY <2>3
  <2> HIDE DEF ls
  <2> QED
    BY <2>2, <2>4, RewritesRetain
<1> QED
  BY <1>1, <1>2

\* The section without its role.
Unpicked(section) == RemoveIn(RemoveIn(section, "sso_account_id"), "sso_role_name")

\* What `gac select --clear` writes, if it writes at all.
LEMMA ClearIs ==
  ASSUME NEW t, IsText(t)
  PROVE  \/ Clear(t) = t
         \/ LET found == FindDefault(t)
                section == DefaultLines(t, found)
            IN /\ found.ok /\ found.managed # <<>> /\ AreLines(section)
               /\ KeysOnly(section, Unpicked(section))
               /\ Rewrites(t, Clear(t), Unpicked(section))
<1> DEFINE found == FindDefault(t)
           range == found.managed \o found.hand
           section == DefaultLines(t, found)
           once == RemoveIn(section, "sso_account_id")
           ls == RemoveIn(once, "sso_role_name")
<1>1. \/ Clear(t) = t
      \/ /\ found.ok /\ found.managed # <<>>
         /\ Clear(t) = Splice(t, found.managed[1], RenderedDefault(ls))
  BY DEF Clear
<1>2. ASSUME found.ok, found.managed # <<>>
      PROVE  AreLines(section) /\ Rewrites(t, Splice(t, found.managed[1], RenderedDefault(ls)), ls)
  <2> HIDE DEF ls
  <2>1. /\ AreLines(section) /\ range = found.managed
        /\ range # <<>> => Rewrites(t, Splice(t, range[1], RenderedDefault(ls)), ls)
    BY <1>2, RewritesWhere
  <2> HIDE DEF range, found, section
  <2> QED
    BY <1>2, <2>1
<1> HIDE DEF section
<1>3. \A key \in {"sso_account_id", "sso_role_name"} :
        key # Continued /\ key \notin {"sso_start_url", "sso_region"}
  BY KeyAssumption
<1>4. AreLines(section) => KeysOnly(section, once) /\ AreLines(once)
  BY <1>3, RemoveInKeys DEF KeysOnly
<1> HIDE DEF once
<1>5. AreLines(section) => KeysOnly(once, ls)
  BY <1>3, <1>4, RemoveInKeys
<1> HIDE DEF ls
<1>6. AreLines(section) => KeysOnly(section, ls)
  BY <1>4, <1>5, KeysOnlyTwice
<1>7. \/ Clear(t) = t
      \/ /\ found.ok /\ found.managed # <<>> /\ AreLines(section)
         /\ KeysOnly(section, ls) /\ Rewrites(t, Clear(t), ls)
  <2> HIDE DEF found
  <2> QED
    BY <1>1, <1>2, <1>6
<1> QED
  BY <1>7 DEF Unpicked, ls, once, section

\* `gac select --clear` breaks no marker and no block.
LEMMA ClearKeeps ==
  ASSUME NEW t, IsText(t)
  PROVE  Retains(t, Clear(t))
<1>1. CASE Clear(t) = t
  BY <1>1, KeptAsIs DEF Retains
<1>2. CASE Clear(t) # t
  <2> DEFINE section == DefaultLines(t, FindDefault(t))
             ls == Unpicked(section)
  <2>1. /\ FindDefault(t).ok
        /\ KeysOnly(section, ls) /\ Rewrites(t, Clear(t), ls)
    BY <1>2, ClearIs
  <2> HIDE DEF ls
  <2> QED
    BY <2>1, RewritesRetain
<1> QED
  BY <1>1, <1>2

-----------------------------------------------------------------------------
(***************************************************************************)
(* `gac doctor --fix`: what one fix does.                                  *)
(***************************************************************************)
\* What one change keeps in order, and then another, both keep.
LEMMA SafeTwice ==
  ASSUME NEW t, NEW v, NEW u, WellNested(t), WellNested(v), Safe(t, v), Safe(v, u)
  PROVE  Safe(t, u)
BY DEF Safe, InOrder

\* Lines with the same marks and names make a text that is alike.
LEMMA KeysAlike ==
  ASSUME NEW t, IsText(t), NEW ls, KeysOnly(t.lines, ls)
  PROVE  IsText(WithLines(t, ls)) /\ Alike(t, WithLines(t, ls))
<1> DEFINE u == WithLines(t, ls)
<1>1. u = [lines |-> u.lines, ended |-> u.ended] /\ u.lines = ls
  BY DEF WithLines
<1> HIDE DEF u
<1>2. IsText(u)
  BY <1>1 DEF IsText, KeysOnly
<1>3. Alike(t, u)
  BY <1>1 DEF Alike, KeysOnly, Same
<1> QED
  BY <1>2, <1>3 DEF u

\* A session that gets scopes keeps its line.
LEMMA AddScopesAlike ==
  ASSUME NEW t, IsText(t), NEW s
  PROVE  IsText(AddScopes(t, s)) /\ Alike(t, AddScopes(t, s))
<1> DEFINE at == The(t, "session", s)
           keys == SetKey(t.lines[at].keys, "sso_registration_scopes", DefaultScope,
                          {"sso_start_url", "sso_region"})
           ls == [t.lines EXCEPT ![at] = WithKeys(t.lines[at], keys)]
<1>1. AddScopes(t, s) \in {t, WithLines(t, ls)}
  BY DEF AddScopes
<1>2. AreLines(t.lines)
  BY DEF IsText
<1>3. at \in 1 .. Len(t.lines) =>
        AreKeys(keys) /\ Portal(keys) = Portal(t.lines[at].keys)
  <2>1. IsSeq(DefaultScope)
    BY SmallSeqs DEF DefaultScope
  <2>2. "sso_registration_scopes" # Continued
    BY KeyAssumption
  <2> HIDE DEF at
  <2> QED
    <3> DEFINE old == t.lines[at].keys
    <3>1. at \in 1 .. Len(t.lines) => AreKeys(old)
      BY <1>2 DEF AreLines, IsLine
    <3>2. "sso_registration_scopes" \notin {"sso_start_url", "sso_region"}
      OBVIOUS
    <3>3. keys = SetKey(old, "sso_registration_scopes", DefaultScope,
                        {"sso_start_url", "sso_region"})
      OBVIOUS
    <3> HIDE DEF old, keys
    <3> DEFINE new == SetKey(old, "sso_registration_scopes", DefaultScope,
                             {"sso_start_url", "sso_region"})
    <3>4. ASSUME AreKeys(old)
          PROVE  AreKeys(new) /\ Portal(new) = Portal(old)
      <4>1. AreKeys(new)
        BY <2>1, <3>4, EditedKeys
      <4>2. Portal(new) = Portal(old)
        BY <2>1, <2>2, <3>2, <3>4, PortalStays
      <4> QED
        BY <4>1, <4>2
    <3> HIDE DEF new
    <3>5. at \in 1 .. Len(t.lines) => AreKeys(keys) /\ Portal(keys) = Portal(old)
      BY <3>1, <3>3, <3>4 DEF new
    <3> QED
      BY <3>5 DEF old
<1> HIDE DEF at, keys
<1>4. KeysOnly(t.lines, ls)
  BY <1>2, <1>3, KeysOfOne
<1> HIDE DEF ls
<1>5. IsText(WithLines(t, ls)) /\ Alike(t, WithLines(t, ls))
  BY <1>4, KeysAlike
<1>6. Alike(t, t)
  BY DEF Alike, Same, SamePortal
<1> QED
  BY <1>1, <1>5, <1>6

\* So do the profiles that are moved to a session.
LEMMA MoveProfilesAlike ==
  ASSUME NEW t, IsText(t), NEW names, \A n \in names : Found(t, "profile", n), NEW s
  PROVE  IsText(MoveProfiles(t, names, s)) /\ Alike(t, MoveProfiles(t, names, s))
<1> DEFINE headers == {The(t, "profile", n) : n \in names}
           moved(line) == WithKeys(line, Moved(line.keys, s))
           ls == [i \in DOMAIN t.lines |-> IF i \in headers THEN moved(t.lines[i])
                                           ELSE t.lines[i]]
           L == Len(t.lines)
<1>1. MoveProfiles(t, names, s) = WithLines(t, ls)
  BY DEF MoveProfiles
<1>2. L \in Nat /\ DOMAIN t.lines = 1 .. L /\ \A i \in 1 .. L : IsLine(t.lines[i])
  BY SeqFacts DEF IsText, AreLines
<1>3. \A line : /\ IsLine(line) => IsLine(moved(line))
                /\ moved(line).k = line.k /\ moved(line).of = line.of
  <2> TAKE line
  <2>1. AreKeys(line.keys) => AreKeys(Moved(line.keys, s))
    BY EditedKeys, SmallSeqs DEF Moved
  <2> QED
    BY <2>1 DEF WithKeys, Section, IsLine
<1> HIDE DEF headers, moved, L
<1>4. /\ DOMAIN ls = 1 .. L /\ ls = [i \in 1 .. L |-> ls[i]]
      /\ \A i \in 1 .. L : ls[i] = t.lines[i] \/ (i \in headers /\ ls[i] = moved(t.lines[i]))
  BY <1>2
<1>5. \A i \in headers : t.lines[i].k # "session"
  <2> SUFFICES ASSUME NEW n \in names
               PROVE  t.lines[The(t, "profile", n)].k # "session"
    BY DEF headers
  <2>1. Cardinality(Headers(t, "profile", n)) = 1
    BY DEF Found
  <2>2. Headers(t, "profile", n) # {}
    BY <2>1, FS_EmptySet
  <2>3. The(t, "profile", n) \in Headers(t, "profile", n)
    BY <2>2 DEF The
  <2> QED
    BY <2>3 DEF Headers, At, Defines
<1> HIDE DEF ls
<1>6. IsSeq(ls) /\ Len(ls) = L
  BY <1>2, <1>4, FunctionSeq
<1>7. \A i \in 1 .. L : /\ IsLine(ls[i]) /\ SamePortal(t.lines[i], ls[i])
                        /\ ls[i].k = t.lines[i].k /\ ls[i].of = t.lines[i].of
  BY <1>2, <1>3, <1>4, <1>5 DEF SamePortal
<1>8. KeysOnly(t.lines, ls)
  BY <1>6, <1>7 DEF KeysOnly, AreLines, L
<1> QED
  BY <1>1, <1>8, KeysAlike

\* A block that is taken out leaves the others, and is the only one that goes.
LEMMA RemoveBlockKeeps ==
  ASSUME NEW t, IsText(t), WellNested(t), NEW s
  PROVE  LET u == RemoveBlock(t, s)
         IN /\ IsText(u) /\ Safe(t, u)
            /\ \A x : Begun(u, x) <=> Begun(t, x) /\ x # s
<1> DEFINE u == RemoveBlock(t, s)
           b == BlockOf(t, s)
<1>1. CASE HasBlock(t, s)
  <2>1. b \in Blocks(t) /\ b.of = s /\ IsRange(t, b)
    BY <1>1, BlockFacts
  <2>2. u = Without(t, b)
    BY <1>1 DEF RemoveBlock
  <2> HIDE DEF b, u
  <2>3. IsText(u) /\ Swaps(t, u, b.first, b.last, 0)
    BY <2>1, <2>2, WithoutSwaps
  <2>4. /\ Fits(t, u, b.first, b.last, 0)
        /\ AreApart(t) => Untouched(t, b.first, b.last)
        /\ \A x : x # b.of => (Begun(u, x) <=> Begun(t, x))
        /\ ~Begun(u, b.of)
    BY <2>1, <2>3, BlockFits
  <2>5. b.first .. b.first + 0 - 1 = {}
    BY <2>1, TextFacts DEF IsRange
  <2>6. NoDefault(u, b.first, b.first + 0 - 1)
    BY <2>5 DEF NoDefault
  <2>7. Safe(t, u)
    BY <2>3, <2>4, <2>6, KeepsOrder
  <2>8. \A x : Begun(u, x) <=> Begun(t, x) /\ x # s
    BY <2>1, <2>4
  <2> QED
    BY <2>3, <2>7, <2>8 DEF u
<1>2. CASE ~HasBlock(t, s)
  <2>1. u = t
    BY <1>2 DEF RemoveBlock
  <2>2. ~Begun(t, s)
    BY <1>2, BlockFacts
  <2>3. Safe(t, t)
    BY DEF Safe, InOrder
  <2> HIDE DEF u
  <2>4. IsText(u) /\ Safe(t, u) /\ \A x : Begun(u, x) <=> Begun(t, x) /\ x # s
    BY <2>1, <2>2, <2>3
  <2> QED
    BY <2>4 DEF u
<1> QED
  BY <1>1, <1>2

\* Profiles are moved to a session, which gets a block if it is a new one.
LEMMA MoveLegacyKeeps ==
  ASSUME NEW t, IsText(t), WellNested(t), NEW fix,
         fix.create => /\ fix.session # Garbled /\ ~Begun(t, fix.session)
                       /\ IsSeq(fix.portal[1]) /\ IsSeq(fix.portal[2])
  PROVE  LET u == MoveLegacy(t, fix)
         IN /\ IsText(u) /\ Safe(t, u)
            /\ \A x : Begun(t, x) => Begun(u, x)
            /\ \A x : Begun(u, x) => Begun(t, x) \/ (fix.create /\ x = fix.session)
<1> DEFINE u == MoveLegacy(t, fix)
           moved == MoveProfiles(t, fix.profiles, fix.session)
           w == AppendSession(moved, fix.session, fix.portal[1], fix.portal[2])
<1>1. /\ u = t \/ (fix.create /\ u = w) \/ u = moved
      /\ u # t => \A n \in fix.profiles : Found(t, "profile", n)
  BY DEF MoveLegacy
<1> HIDE DEF u, w, moved
<1>2. CASE u = t
  <2>1. Safe(t, t)
    BY DEF Safe, InOrder
  <2> QED
    BY <1>2, <2>1 DEF u
<1>3. CASE u # t
  <2>1. /\ IsText(moved) /\ Safe(t, moved) /\ WellNested(moved)
        /\ \A x : Begun(moved, x) <=> Begun(t, x)
    <3>1. IsText(moved) /\ Alike(t, moved)
      BY <1>1, <1>3, MoveProfilesAlike DEF moved
    <3>2. Safe(t, moved) /\ \A x : Begun(moved, x) <=> Begun(t, x)
      BY <3>1, AlikeKeeps
    <3> QED
      BY <3>1, <3>2 DEF Safe
  <2>2. ASSUME fix.create
        PROVE  /\ IsText(w) /\ Safe(t, w)
               /\ \A x : Begun(w, x) <=> Begun(moved, x) \/ x = fix.session
    <3>1. fix.session # Garbled /\ ~Begun(moved, fix.session)
      BY <2>1, <2>2
    <3>2. /\ IsText(w)
          /\ ~Begun(moved, fix.session) => Safe(moved, w)
          /\ \A x : Begun(w, x) <=> Begun(moved, x) \/ x = fix.session
      BY <2>1, <2>2, <3>1, AppendSessionKeeps DEF w
    <3> QED
      BY <2>1, <3>1, <3>2, SafeTwice
  <2>3. /\ IsText(u) /\ Safe(t, u)
        /\ \A x : Begun(t, x) => Begun(u, x)
        /\ \A x : Begun(u, x) => Begun(t, x) \/ (fix.create /\ x = fix.session)
    BY <1>1, <1>3, <2>1, <2>2
  <2> QED
    BY <2>3 DEF u
<1> QED
  BY <1>2, <1>3

-----------------------------------------------------------------------------
(***************************************************************************)
(* The fixes that are planned.                                             *)
(***************************************************************************)
Removals(t) == {[edit |-> "RemoveBlock", session |-> s] : s \in DeadBlocks(t)}

Scopings(t, c) ==
  {[edit |-> "AddScopes", session |-> s] :
     s \in {x \in Bare(t) : OwnedByUser(t, x) => x \in c.scopes}}

MoveOf(t, portal, s) ==
  [edit |-> "MoveLegacy", session |-> s, portal |-> portal,
   profiles |-> {n \in LegacyProfiles(t) : LegacyPortal(t, n) = portal},
   create |-> SessionsAt(t, portal) = {}]

Moves(t, c) ==
  UNION {{MoveOf(t, portal, s) : s \in MoveTo(t, portal)} :
           portal \in LegacyPortals(t) \cap c.legacy}

\* The fixes of `gac doctor --fix`, in the order they are applied in.
LEMMA FixesPlanned ==
  ASSUME NEW t, NEW c
  PROVE  Fixes(t, c) =
           (SetToSeq(Removals(t)) \o SetToSeq(Scopings(t, c))) \o SetToSeq(Moves(t, c))
<1>1. /\ Removals(t) = {[edit |-> "RemoveBlock", session |-> s] : s \in DeadBlocks(t)}
      /\ Scopings(t, c) = {[edit |-> "AddScopes", session |-> s] :
                             s \in {x \in Bare(t) : OwnedByUser(t, x) => x \in c.scopes}}
  BY DEF Removals, Scopings
<1>2. Moves(t, c) =
        UNION {{[edit |-> "MoveLegacy", session |-> s, portal |-> portal,
                 profiles |-> {n \in LegacyProfiles(t) : LegacyPortal(t, n) = portal},
                 create |-> SessionsAt(t, portal) = {}] : s \in MoveTo(t, portal)} :
                 portal \in LegacyPortals(t) \cap c.legacy}
  BY DEF Moves, MoveOf
<1> QED
  BY <1>1, <1>2, Zenon DEF Fixes

\* A text has finitely many profiles, and a plan finitely many fixes.
LEMMA ProfilesFinite ==
  ASSUME NEW t, IsText(t)
  PROVE  IsFiniteSet(ProfilesIn(t))
<1> DEFINE f == [i \in 1 .. Len(t.lines) |-> t.lines[i].of]
           T == {f[i] : i \in DOMAIN f}
<1>1. IsLines(t)
  BY TextFacts
<1>2. IsFiniteSet(1 .. Len(t.lines))
  BY <1>1, FS_Interval DEF IsLines
<1>3. DOMAIN f = 1 .. Len(t.lines)
  OBVIOUS
<1>4. IsFiniteSet(T)
  BY <1>2, <1>3, FiniteImage
<1>5. IsFiniteSet(T \cup {Default})
  BY <1>4, FS_AddElement
<1>6. ProfilesIn(t) \subseteq T \cup {Default}
  <2>1. \A line \in Range(t.lines) : line.of \in T
    BY <1>1 DEF Range, IsLines
  <2> QED
    BY <2>1 DEF ProfilesIn
<1> QED
  BY <1>5, <1>6, FS_Subset

\* There are finitely many fixes of each kind.
LEMMA FixesFinite ==
  ASSUME NEW t, IsText(t), NEW c
  PROVE  /\ IsFiniteSet(Removals(t)) /\ IsFiniteSet(Scopings(t, c))
         /\ IsFiniteSet(Moves(t, c))
         /\ IsFiniteSet(FreeNames(t))
         /\ IsFiniteSet({p \in LegacyPortals(t) : SessionsAt(t, p) = {}})
<1>1. IsFiniteSet(Sessions)
  BY NameAssumption
<1>2. /\ IsFiniteSet(DeadBlocks(t)) /\ IsFiniteSet(FreeNames(t))
      /\ IsFiniteSet({x \in Bare(t) : OwnedByUser(t, x) => x \in c.scopes})
  <2>1. /\ DeadBlocks(t) \subseteq Sessions /\ FreeNames(t) \subseteq Sessions
        /\ {x \in Bare(t) : OwnedByUser(t, x) => x \in c.scopes} \subseteq Sessions
    BY DEF DeadBlocks, FreeNames, Bare, SessionsIn
  <2> QED
    BY <1>1, <2>1, FS_Subset
<1>3. IsFiniteSet(Removals(t))
  <2> DEFINE f == [s \in DeadBlocks(t) |-> [edit |-> "RemoveBlock", session |-> s]]
  <2>1. IsFiniteSet(DOMAIN f)
    BY <1>2
  <2>2. IsFiniteSet({f[s] : s \in DOMAIN f})
    BY <2>1, FiniteImage
  <2>3. {f[s] : s \in DOMAIN f} = Removals(t)
    BY DEF Removals
  <2> QED
    BY <2>2, <2>3
<1>4. IsFiniteSet(Scopings(t, c))
  <2> DEFINE S == {x \in Bare(t) : OwnedByUser(t, x) => x \in c.scopes}
  <2>1. IsFiniteSet(S) /\ Scopings(t, c) = {[edit |-> "AddScopes", session |-> s] : s \in S}
    BY <1>2 DEF Scopings
  <2> HIDE DEF S
  <2> DEFINE f == [s \in S |-> [edit |-> "AddScopes", session |-> s]]
  <2>2. IsFiniteSet(DOMAIN f)
    BY <2>1
  <2>3. IsFiniteSet({f[s] : s \in DOMAIN f})
    BY <2>2, FiniteImage
  <2>4. {f[s] : s \in DOMAIN f} = Scopings(t, c)
    BY <2>1
  <2> QED
    BY <2>3, <2>4
<1>5. IsFiniteSet(LegacyPortals(t))
  <2>1. LegacyProfiles(t) \subseteq ProfilesIn(t)
    BY DEF LegacyProfiles
  <2>2. IsFiniteSet(LegacyProfiles(t))
    BY <2>1, ProfilesFinite, FS_Subset
  <2> DEFINE f == [n \in LegacyProfiles(t) |-> LegacyPortal(t, n)]
  <2>3. IsFiniteSet(DOMAIN f)
    BY <2>2
  <2>4. IsFiniteSet({f[n] : n \in DOMAIN f})
    BY <2>3, FiniteImage
  <2>5. {f[n] : n \in DOMAIN f} = LegacyPortals(t)
    BY DEF LegacyPortals
  <2> QED
    BY <2>4, <2>5
<1>6. \A portal : IsFiniteSet(MoveTo(t, portal))
  <2> TAKE portal
  <2> DEFINE new == SetToSeq({p \in LegacyPortals(t) : SessionsAt(t, p) = {}})
             free == SetToSeq(FreeNames(t))
             D == {j \in DOMAIN new \cap DOMAIN free : new[j] = portal}
  <2>1. DOMAIN free = 1 .. Len(free) /\ Len(free) \in Nat
    BY <1>2, SetSeqFacts, SeqFacts
  <2>2. \/ MoveTo(t, portal) = {CHOOSE s \in SessionsAt(t, portal) : TRUE}
        \/ MoveTo(t, portal) = {free[i] : i \in D}
    BY DEF MoveTo
  <2>3. IsFiniteSet({free[i] : i \in D})
    <3>1. IsFiniteSet(1 .. Len(free)) /\ D \subseteq 1 .. Len(free)
      BY <2>1, FS_Interval
    <3>2. IsFiniteSet(D)
      BY <3>1, FS_Subset
    <3> HIDE DEF D, free
    <3> DEFINE f == [i \in D |-> free[i]]
    <3>3. IsFiniteSet(DOMAIN f)
      BY <3>2
    <3>4. IsFiniteSet({f[i] : i \in DOMAIN f})
      BY <3>3, FiniteImage
    <3>5. {f[i] : i \in DOMAIN f} = {free[i] : i \in D}
      OBVIOUS
    <3> QED
      BY <3>4, <3>5
  <2> HIDE DEF D, free, new
  <2>4. \A x : IsFiniteSet({x})
    BY FS_Singleton
  <2> QED
    BY <2>2, <2>3, <2>4
<1>7. IsFiniteSet(Moves(t, c))
  <2> DEFINE P == LegacyPortals(t) \cap c.legacy
             moves(portal) == {MoveOf(t, portal, s) : s \in MoveTo(t, portal)}
             f == [portal \in P |-> moves(portal)]
  <2>1. IsFiniteSet(P)
    BY <1>5, FS_Subset
  <2>2. \A portal : IsFiniteSet(moves(portal))
    <3> TAKE portal
    <3> DEFINE g == [s \in MoveTo(t, portal) |-> MoveOf(t, portal, s)]
    <3>1. IsFiniteSet(DOMAIN g)
      BY <1>6
    <3>2. IsFiniteSet({g[s] : s \in DOMAIN g})
      BY <3>1, FiniteImage
    <3>3. {g[s] : s \in DOMAIN g} = moves(portal)
      OBVIOUS
    <3> QED
      BY <3>2, <3>3
  <2>3. Moves(t, c) = UNION {moves(portal) : portal \in P}
    BY DEF Moves
  <2> HIDE DEF moves, P
  <2>4. IsFiniteSet({f[portal] : portal \in DOMAIN f})
    <3>1. IsFiniteSet(DOMAIN f)
      BY <2>1
    <3> QED
      BY <3>1, FiniteImage
  <2>5. {f[portal] : portal \in DOMAIN f} = {moves(portal) : portal \in P}
    OBVIOUS
  <2>6. \A S \in {moves(portal) : portal \in P} : IsFiniteSet(S)
    BY <2>2
  <2> QED
    BY <2>3, <2>4, <2>5, <2>6, FS_UNION
<1>8. IsFiniteSet({p \in LegacyPortals(t) : SessionsAt(t, p) = {}})
  BY <1>5, FS_Subset
<1> QED
  BY <1>2, <1>3, <1>4, <1>7, <1>8

\* The name of a new session is free, and it is the name of one portal only.
LEMMA NewSessions ==
  ASSUME NEW t, IsText(t), NEW c, NEW f \in Moves(t, c), f.create
  PROVE  /\ f.session \in FreeNames(t)
         /\ \A g \in Moves(t, c) : g.create /\ g.session = f.session => g = f
<1> DEFINE portals == {p \in LegacyPortals(t) : SessionsAt(t, p) = {}}
           new == SetToSeq(portals)
           free == SetToSeq(FreeNames(t))
           D(portal) == {j \in DOMAIN new \cap DOMAIN free : new[j] = portal}
<1>1. /\ Range(free) = FreeNames(t) /\ IsSeq(free)
      /\ \A i, j \in DOMAIN free : free[i] = free[j] => i = j
  BY FixesFinite, SetSeqFacts
<1>2. \A portal : SessionsAt(t, portal) = {} => MoveTo(t, portal) = {free[i] : i \in D(portal)}
  BY DEF MoveTo
<1>3. \A g \in Moves(t, c) : \E portal, s :
        s \in MoveTo(t, portal) /\ g = MoveOf(t, portal, s)
  BY DEF Moves
<1>4. \A portal, s : /\ MoveOf(t, portal, s).session = s
                     /\ MoveOf(t, portal, s).create <=> SessionsAt(t, portal) = {}
  BY DEF MoveOf
<1> HIDE DEF free, new
<1>5. \A g \in Moves(t, c) : g.create =>
        \E portal, i : /\ i \in D(portal) /\ g.session = free[i]
                       /\ g = MoveOf(t, portal, g.session)
  <2> SUFFICES ASSUME NEW g \in Moves(t, c), g.create
               PROVE  \E portal, i : /\ i \in D(portal) /\ g.session = free[i]
                                     /\ g = MoveOf(t, portal, g.session)
    OBVIOUS
  <2>1. PICK portal, s : s \in MoveTo(t, portal) /\ g = MoveOf(t, portal, s)
    BY <1>3
  <2>2. SessionsAt(t, portal) = {} /\ g.session = s
    BY <1>4, <2>1
  <2>3. s \in {free[i] : i \in D(portal)}
    BY <1>2, <2>1, <2>2
  <2>4. PICK i \in D(portal) : s = free[i]
    BY <2>3
  <2> HIDE DEF D
  <2> QED
    BY <2>1, <2>2, <2>4
<1>6. PICK portal, i : /\ i \in D(portal) /\ f.session = free[i]
                       /\ f = MoveOf(t, portal, f.session)
  BY <1>5
<1>7. f.session \in FreeNames(t)
  BY <1>1, <1>6 DEF Range
<1>8. ASSUME NEW g \in Moves(t, c), g.create, g.session = f.session
      PROVE  g = f
  <2>1. PICK p, j : /\ j \in D(p) /\ g.session = free[j]
                    /\ g = MoveOf(t, p, g.session)
    BY <1>5, <1>8
  <2>2. i = j
    BY <1>1, <1>6, <1>8, <2>1
  <2>3. p = portal
    BY <1>6, <2>1, <2>2
  <2> HIDE DEF D
  <2> QED
    BY <1>6, <1>8, <2>1, <2>3
<1> QED
  BY <1>7, <1>8

\* The fixes that add a session.
Creates(fix) == fix.edit = "MoveLegacy" /\ fix.create

\* A session's scopes are gac's to add, or the user has agreed.
MayScope(t, c, s) == OwnedByUser(t, s) => s \in c.scopes

\* What is planned: blocks of sessions that are gone are removed, and of the sessions
\* that are added each has a name that was free and no other takes.
LEMMA FixesFacts ==
  ASSUME NEW t, IsText(t), NEW c
  PROVE  LET fixes == Fixes(t, c)
         IN /\ Len(fixes) \in Nat
            /\ \A i \in 1 .. Len(fixes) :
                 \/ fixes[i].edit = "RemoveBlock" /\ fixes[i].session \in DeadBlocks(t)
                 \/ fixes[i].edit = "AddScopes" /\ MayScope(t, c, fixes[i].session)
                 \/ /\ fixes[i].edit = "MoveLegacy" /\ fixes[i].profiles # {}
                    /\ c.legacy # {}
                    /\ IsSeq(fixes[i].portal[1]) /\ IsSeq(fixes[i].portal[2])
                    /\ fixes[i].create => fixes[i].session \in FreeNames(t)
            /\ \A i, j \in 1 .. Len(fixes) :
                 /\ Creates(fixes[i]) /\ Creates(fixes[j])
                 /\ fixes[i].session = fixes[j].session
                 => i = j
<1> DEFINE a == SetToSeq(Removals(t))
           b == SetToSeq(Scopings(t, c))
           d == SetToSeq(Moves(t, c))
           fixes == Together(a, b, d)
<1>1. /\ IsFiniteSet(Removals(t)) /\ IsFiniteSet(Scopings(t, c)) /\ IsFiniteSet(Moves(t, c))
  BY FixesFinite
<1>2. /\ IsSeq(a) /\ Range(a) = Removals(t)
      /\ IsSeq(b) /\ Range(b) = Scopings(t, c)
      /\ IsSeq(d) /\ Range(d) = Moves(t, c)
      /\ \A i, j \in DOMAIN d : d[i] = d[j] => i = j
  BY <1>1, SetSeqFacts
<1>3. Fixes(t, c) = fixes
  BY FixesPlanned DEF Together
<1> HIDE DEF a, b, d
<1>4. /\ Len(fixes) \in Nat
      /\ \A i \in 1 .. Len(fixes) :
           \/ \E j \in 1 .. Len(a) : fixes[i] = a[j]
           \/ \E j \in 1 .. Len(b) : fixes[i] = b[j]
           \/ \E j \in 1 .. Len(d) : fixes[i] = d[j] /\ i = Len(a) + Len(b) + j
  BY <1>2, ThreeParts
<1> HIDE DEF fixes
<1>5. /\ \A j \in 1 .. Len(a) : a[j] \in Removals(t)
      /\ \A j \in 1 .. Len(b) : b[j] \in Scopings(t, c)
      /\ \A j \in 1 .. Len(d) : d[j] \in Moves(t, c)
      /\ DOMAIN d = 1 .. Len(d)
  BY <1>2, SeqFacts
<1>6. \A f \in Removals(t) : f.edit = "RemoveBlock" /\ f.session \in DeadBlocks(t)
  BY DEF Removals
<1>7. \A f \in Scopings(t, c) : f.edit = "AddScopes" /\ MayScope(t, c, f.session)
  BY DEF Scopings, MayScope
<1>8. \A f \in Moves(t, c) : /\ f.edit = "MoveLegacy" /\ f.profiles # {} /\ c.legacy # {}
                             /\ IsSeq(f.portal[1]) /\ IsSeq(f.portal[2])
  <2> TAKE f \in Moves(t, c)
  <2>1. PICK portal \in LegacyPortals(t) \cap c.legacy : \E s \in MoveTo(t, portal) : f = MoveOf(t, portal, s)
    BY DEF Moves
  <2>2. {n \in LegacyProfiles(t) : LegacyPortal(t, n) = portal} # {}
    BY DEF LegacyPortals
  <2>3. IsSeq(portal[1]) /\ IsSeq(portal[2])
    <3>1. PICK name : portal = Portal(ProfileKeys(t, name))
      BY DEF LegacyPortals, LegacyPortal
    <3>2. AreKeys(ProfileKeys(t, name))
      BY SectionTyped DEF ProfileKeys
    <3> QED
      BY <3>1, <3>2, ReadWords DEF Portal
  <2> QED
    BY <2>1, <2>2, <2>3 DEF MoveOf
<1>9. \A i \in 1 .. Len(fixes) :
        \/ fixes[i].edit = "RemoveBlock" /\ fixes[i].session \in DeadBlocks(t)
        \/ fixes[i].edit = "AddScopes" /\ MayScope(t, c, fixes[i].session)
        \/ /\ fixes[i].edit = "MoveLegacy" /\ fixes[i].profiles # {}
           /\ c.legacy # {}
           /\ IsSeq(fixes[i].portal[1]) /\ IsSeq(fixes[i].portal[2])
           /\ fixes[i].create => fixes[i].session \in FreeNames(t)
  <2> TAKE i \in 1 .. Len(fixes)
  <2>1. \/ fixes[i] \in Removals(t) \/ fixes[i] \in Scopings(t, c)
        \/ fixes[i] \in Moves(t, c)
    BY <1>4, <1>5
  <2> QED
    BY <1>6, <1>7, <1>8, <2>1, NewSessions
<1>10. \A i, j \in 1 .. Len(fixes) :
         /\ Creates(fixes[i]) /\ Creates(fixes[j])
         /\ fixes[i].session = fixes[j].session
         => i = j
  <2> SUFFICES ASSUME NEW i \in 1 .. Len(fixes), NEW j \in 1 .. Len(fixes),
                      Creates(fixes[i]), Creates(fixes[j]),
                      fixes[i].session = fixes[j].session
               PROVE  i = j
    OBVIOUS
  <2>1. PICK x \in 1 .. Len(d) : fixes[i] = d[x] /\ i = Len(a) + Len(b) + x
    BY <1>4, <1>5, <1>6, <1>7 DEF Creates
  <2>2. PICK y \in 1 .. Len(d) : fixes[j] = d[y] /\ j = Len(a) + Len(b) + y
    BY <1>4, <1>5, <1>6, <1>7 DEF Creates
  <2>3. d[x] \in Moves(t, c) /\ d[y] \in Moves(t, c)
    BY <1>5
  <2>4. d[x].create /\ d[y].create /\ d[x].session = d[y].session
    BY <2>1, <2>2 DEF Creates
  <2>5. d[x] = d[y]
    BY <2>3, <2>4, NewSessions
  <2>6. x = y
    BY <1>2, <1>5, <2>5
  <2> QED
    BY <2>1, <2>2, <2>6
<1> QED
  BY <1>3, <1>4, <1>9, <1>10

\* The text after each fix.
LEMMA DoctorReads ==
  ASSUME NEW t, NEW c, Len(Fixes(t, c)) \in Nat
  PROVE  LET fixes == Fixes(t, c)
         IN \E r : /\ r[0] = t
                   /\ \A n \in 1 .. Len(fixes) : r[n] = Applied(r[n - 1], fixes[n])
                   /\ Doctor(t, c) = r[Len(fixes)]
<1> DEFINE fixes == Fixes(t, c)
           L == Len(fixes)
           step(g, n) == Applied(g[n - 1], fixes[n])
           body(g, n) == IF n = 0 THEN t ELSE step(g, n)
           upto[n \in 0 .. L] ==
             IF n = 0 THEN t ELSE Applied(upto[n - 1], fixes[n])
           good == {m \in 0 .. L : \E g : g = [n \in 0 .. m |-> body(g, n)]}
<1>1. L \in Nat
  OBVIOUS
<1> HIDE DEF fixes
<1>2. 0 \in good
  <2> DEFINE g == [n \in 0 .. 0 |-> t]
  <2>1. g = [n \in 0 .. 0 |-> body(g, n)]
    OBVIOUS
  <2>2. 0 \in 0 .. L
    BY <1>1
  <2> HIDE DEF g
  <2> QED
    BY <2>1, <2>2, Zenon
<1>3. ASSUME NEW m \in 1 .. L, m - 1 \in good
      PROVE  m \in good
  <2>1. PICK h : h = [n \in 0 .. m - 1 |-> body(h, n)]
    BY <1>3
  <2> DEFINE g == [n \in 0 .. m |-> IF n = m THEN step(h, m) ELSE h[n]]
  <2>2. ASSUME NEW n \in 0 .. m
        PROVE  g[n] = body(g, n)
    <3>1. n # 0 => n - 1 \in 0 .. m - 1 /\ n - 1 \in 0 .. m /\ n - 1 # m
      OBVIOUS
    <3>2. n # 0 => g[n - 1] = h[n - 1]
      BY <3>1
    <3>3. n # m => n \in 0 .. m - 1 /\ g[n] = h[n] /\ h[n] = body(h, n)
      BY <2>1
    <3>4. n = m => g[n] = step(h, n) /\ n # 0
      OBVIOUS
    <3> HIDE DEF g
    <3> QED
      BY <3>2, <3>3, <3>4
  <2>3. g = [n \in 0 .. m |-> body(g, n)]
    BY <2>2
  <2> HIDE DEF g
  <2> QED
    BY <2>3
<1>4. L \in good
  <2>1. L \in Nat /\ L \in 0 .. L
    BY <1>1
  <2> HIDE DEF good, L
  <2>2. \A m \in 1 .. L : m - 1 \in good => m \in good
    BY <1>3, Zenon
  <2>3. \A m \in 0 .. L : m \in good
    BY <1>2, <2>1, <2>2, UpTo
  <2> QED
    BY <2>1, <2>3
<1>5. upto = [n \in 0 .. L |-> body(upto, n)]
  BY <1>4
<1>6. Doctor(t, c) = upto[L]
  BY Zenon DEF Doctor, fixes
<1> HIDE DEF upto
<1>7. upto[0] = t /\ \A n \in 1 .. L : upto[n] = Applied(upto[n - 1], fixes[n])
  BY <1>1, <1>5
<1> QED
  BY <1>6, <1>7 DEF fixes

\* What is known after n fixes, u being the text they make of t.
Fixed(t, c, n, u) ==
  /\ IsText(u) /\ WellNested(u) /\ Safe(t, u)
  /\ \A x : Begun(t, x) /\ x \notin DeadBlocks(t) => Begun(u, x)
  /\ \A x : Begun(u, x) =>
       \/ Begun(t, x)
       \/ \E i \in 1 .. n : Creates(Fixes(t, c)[i]) /\ Fixes(t, c)[i].session = x

\* One more fix: the markers are in order, and only dead blocks are gone.
LEMMA FixKeeps ==
  ASSUME NEW t, IsText(t), WellNested(t), NEW c,
         NEW n \in 1 .. Len(Fixes(t, c)), NEW v, Fixed(t, c, n - 1, v)
  PROVE  LET u == Applied(v, Fixes(t, c)[n])
         IN /\ Fixed(t, c, n, u)
            /\ \A x : Begun(v, x) /\ x \notin DeadBlocks(t) => Begun(u, x)
<1> DEFINE fixes == Fixes(t, c)
           fix == fixes[n]
           u == Applied(v, fix)
<1>1. /\ Len(fixes) \in Nat
      /\ \/ fix.edit = "RemoveBlock" /\ fix.session \in DeadBlocks(t)
         \/ fix.edit = "AddScopes"
         \/ /\ fix.edit = "MoveLegacy" /\ fix.profiles # {}
            /\ IsSeq(fix.portal[1]) /\ IsSeq(fix.portal[2])
            /\ fix.create => fix.session \in FreeNames(t)
  BY FixesFacts
<1>2. \A i \in 1 .. Len(fixes) :
        Creates(fixes[i]) /\ Creates(fix) /\ fixes[i].session = fix.session => i = n
  BY FixesFacts
<1>3. /\ IsText(v) /\ WellNested(v) /\ Safe(t, v)
      /\ \A x : Begun(t, x) /\ x \notin DeadBlocks(t) => Begun(v, x)
      /\ \A x : Begun(v, x) =>
           Begun(t, x) \/ \E i \in 1 .. n - 1 : Creates(fixes[i]) /\ fixes[i].session = x
  BY DEF Fixed
<1> HIDE DEF fixes
<1>4. /\ n \in Nat /\ n \in 1 .. Len(fixes) /\ n \in 1 .. n
      /\ \A i \in 1 .. n - 1 : i \in 1 .. Len(fixes) /\ i \in 1 .. n /\ i # n
  <2>1. n \in 1 .. Len(fixes)
    BY DEF fixes
  <2> QED
    BY <1>1, <2>1
<1>5. CASE fix.edit = "RemoveBlock"
  <2>1. u = RemoveBlock(v, fix.session) /\ fix.session \in DeadBlocks(t)
    BY <1>1, <1>5 DEF Applied
  <2> DEFINE w == RemoveBlock(v, fix.session)
  <2>2. /\ IsText(w) /\ Safe(v, w)
        /\ \A x : Begun(w, x) <=> Begun(v, x) /\ x # fix.session
    BY <1>3, RemoveBlockKeeps
  <2>3. u = w
    BY <2>1
  <2> HIDE DEF u, w
  <2>4. WellNested(u) /\ Safe(t, u) /\ IsText(u)
    BY <1>3, <2>2, <2>3, SafeTwice DEF Safe
  <2>5. \A x : Begun(t, x) /\ x \notin DeadBlocks(t) => Begun(u, x)
    BY <1>3, <2>1, <2>2, <2>3
  <2>6. \A x : Begun(v, x) /\ x \notin DeadBlocks(t) => Begun(u, x)
    BY <2>1, <2>2, <2>3
  <2>7. \A x : Begun(u, x) =>
          Begun(t, x) \/ \E i \in 1 .. n : Creates(fixes[i]) /\ fixes[i].session = x
    BY <1>3, <1>4, <2>2, <2>3
  <2> QED
    BY <2>4, <2>5, <2>7, <2>6 DEF Fixed, u, fix, fixes
<1>6. CASE fix.edit = "AddScopes"
  <2> DEFINE w == AddScopes(v, fix.session)
  <2>1. u = w
    BY <1>6 DEF Applied
  <2>2. IsText(w) /\ Alike(v, w)
    BY <1>3, AddScopesAlike
  <2> HIDE DEF u, w
  <2>3. Safe(v, w) /\ \A x : Begun(w, x) <=> Begun(v, x)
    BY <1>3, <2>2, AlikeKeeps
  <2>4. WellNested(u) /\ Safe(t, u) /\ IsText(u)
    BY <1>3, <2>1, <2>2, <2>3, SafeTwice DEF Safe
  <2>5. \A x : Begun(t, x) /\ x \notin DeadBlocks(t) => Begun(u, x)
    BY <1>3, <2>1, <2>3
  <2>6. \A x : Begun(v, x) => Begun(u, x)
    BY <2>1, <2>3
  <2>7. \A x : Begun(u, x) =>
          Begun(t, x) \/ \E i \in 1 .. n : Creates(fixes[i]) /\ fixes[i].session = x
    BY <1>3, <1>4, <2>1, <2>3
  <2> QED
    BY <2>4, <2>5, <2>7, <2>6 DEF Fixed, u, fix, fixes
<1>7. CASE fix.edit = "MoveLegacy"
  <2> DEFINE w == MoveLegacy(v, fix)
  <2>1. u = w
    BY <1>7 DEF Applied
  <2>2. ASSUME fix.create
        PROVE  /\ fix.session # Garbled /\ ~Begun(v, fix.session)
               /\ IsSeq(fix.portal[1]) /\ IsSeq(fix.portal[2])
    <3>1. fix.session \in FreeNames(t) /\ Creates(fix)
      BY <1>1, <1>7, <2>2 DEF Creates
    <3>2. fix.session \in Sessions /\ ~HasBlock(t, fix.session)
      BY <3>1 DEF FreeNames
    <3>3. ~Begun(t, fix.session)
      BY <3>2, BlockFacts
    <3>4. ASSUME NEW i \in 1 .. n - 1
          PROVE  ~(Creates(fixes[i]) /\ fixes[i].session = fix.session)
      BY <1>2, <1>4, <3>1
    <3> QED
      BY <1>1, <1>3, <1>7, <3>2, <3>3, <3>4, NameAssumption
  <2>3. /\ IsText(w) /\ Safe(v, w)
        /\ \A x : Begun(v, x) => Begun(w, x)
        /\ \A x : Begun(w, x) => Begun(v, x) \/ (fix.create /\ x = fix.session)
    BY <1>3, <2>2, MoveLegacyKeeps
  <2> HIDE DEF u, w
  <2>4. WellNested(u) /\ Safe(t, u) /\ IsText(u)
    BY <1>3, <2>1, <2>3, SafeTwice DEF Safe
  <2>5. \A x : Begun(t, x) /\ x \notin DeadBlocks(t) => Begun(u, x)
    BY <1>3, <2>1, <2>3
  <2>6. \A x : Begun(v, x) => Begun(u, x)
    BY <2>1, <2>3
  <2>7. \A x : Begun(u, x) =>
          Begun(t, x) \/ \E i \in 1 .. n : Creates(fixes[i]) /\ fixes[i].session = x
    <3>1. fix.create => Creates(fixes[n])
      BY <1>7 DEF Creates
    <3> QED
      BY <1>3, <1>4, <2>1, <2>3, <3>1
  <2> QED
    BY <2>4, <2>5, <2>7, <2>6 DEF Fixed, u, fix, fixes
<1> QED
  BY <1>1, <1>5, <1>6, <1>7

\* On a text whose markers are broken no fix does anything.
LEMMA FixStops ==
  ASSUME NEW t, IsText(t), ~WellNested(t), NEW c, NEW n \in 1 .. Len(Fixes(t, c))
  PROVE  Applied(t, Fixes(t, c)[n]) = t
<1> DEFINE fix == Fixes(t, c)[n]
<1>1. \/ fix.edit = "RemoveBlock"
      \/ fix.edit = "AddScopes"
      \/ fix.edit = "MoveLegacy" /\ fix.profiles # {}
  BY FixesFacts
<1>2. ~Scan(t).ok /\ \A s : ~HasBlock(t, s)
  BY BlockFacts
<1>3. \A kind, name : ~Found(t, kind, name)
  BY <1>2 DEF Found
<1> HIDE DEF fix
<1>4. RemoveBlock(t, fix.session) = t
  BY <1>2 DEF RemoveBlock
<1>5. AddScopes(t, fix.session) = t
  BY <1>3 DEF AddScopes
<1>6. fix.profiles # {} => MoveLegacy(t, fix) = t
  BY <1>3 DEF MoveLegacy
<1>7. Applied(t, fix) = t
  BY <1>1, <1>4, <1>5, <1>6 DEF Applied
<1> QED
  BY <1>7 DEF fix

\* The doctor keeps the markers in order, and the blocks that are not dead.
LEMMA DoctorKeeps ==
  ASSUME NEW t, IsText(t), NEW c
  PROVE  LET u == Doctor(t, c)
         IN /\ IsText(u) /\ Safe(t, u)
            /\ ~WellNested(t) => u = t
            /\ \A x : Begun(t, x) /\ x \notin DeadBlocks(t) => Begun(u, x)
<1> DEFINE fixes == Fixes(t, c)
           L == Len(fixes)
<1>1. L \in Nat
  BY FixesFacts
<1>2. PICK r : /\ r[0] = t
               /\ \A n \in 1 .. L : r[n] = Applied(r[n - 1], fixes[n])
               /\ Doctor(t, c) = r[L]
  BY <1>1, DoctorReads
<1>3. CASE WellNested(t)
  <2> DEFINE good == {n \in 0 .. L : Fixed(t, c, n, r[n])}
  <2>1. 0 \in good
    <3>1. Safe(t, t)
      BY DEF Safe, InOrder
    <3>2. Fixed(t, c, 0, t)
      BY <1>3, <3>1 DEF Fixed
    <3> QED
      BY <1>1, <1>2, <3>2
  <2>2. ASSUME NEW n \in 1 .. L, n - 1 \in good
        PROVE  n \in good
    <3>1. Fixed(t, c, n - 1, r[n - 1])
      BY <2>2
    <3>2. Fixed(t, c, n, Applied(r[n - 1], fixes[n]))
      BY <1>3, <3>1, FixKeeps
    <3>3. n \in 0 .. L
      BY <1>1
    <3> QED
      BY <1>2, <3>2, <3>3
  <2> HIDE DEF good, L
  <2>3. \A m \in 1 .. L : m - 1 \in good => m \in good
    BY <2>2, Zenon
  <2>4. \A m \in 0 .. L : m \in good
    BY <1>1, <2>1, <2>3, UpTo
  <2>5. L \in good
    BY <1>1, <2>4
  <2>6. Fixed(t, c, L, r[L])
    BY <2>5 DEF good
  <2> QED
    BY <1>2, <1>3, <2>6 DEF Fixed
<1>4. CASE ~WellNested(t)
  <2> DEFINE good == {n \in 0 .. L : r[n] = t}
  <2>1. 0 \in good
    BY <1>1, <1>2
  <2>2. ASSUME NEW n \in 1 .. L, n - 1 \in good
        PROVE  n \in good
    <3>1. r[n - 1] = t
      BY <2>2
    <3>2. Applied(t, fixes[n]) = t
      BY <1>4, FixStops
    <3>3. n \in 0 .. L
      BY <1>1
    <3> QED
      BY <1>2, <3>1, <3>2, <3>3
  <2> HIDE DEF good, L
  <2>3. \A m \in 1 .. L : m - 1 \in good => m \in good
    BY <2>2, Zenon
  <2>4. \A m \in 0 .. L : m \in good
    BY <1>1, <2>1, <2>3, UpTo
  <2>5. L \in good
    BY <1>1, <2>4
  <2>6. Doctor(t, c) = t
    BY <1>2, <2>5 DEF good
  <2>7. Safe(t, t)
    BY DEF Safe, InOrder
  <2> QED
    BY <2>6, <2>7
<1> QED
  BY <1>3, <1>4

\* What is known of session x after n fixes, u being the text they make of t.
FixedSession(t, c, n, u, x) ==
  /\ AtHome(t, x) => AtHome(u, x)
  /\ x \in SessionsIn(t) => KeepsSession(t, u, x)
  /\ x \notin SessionsIn(t) =>
       /\ Once(u, x)
       /\ Copies(u, x) # {} =>
            \E i \in 1 .. n : Creates(Fixes(t, c)[i]) /\ Fixes(t, c)[i].session = x

\* A fix that does not define x anew.
LEMMA FixOthers ==
  ASSUME NEW t, NEW c, NEW n \in Nat, NEW v, NEW u, NEW x,
         FixedSession(t, c, n - 1, v, x), KeepsSession(v, u, x),
         AtHome(t, x) /\ AtHome(v, x) => AtHome(u, x)
  PROVE  FixedSession(t, c, n, u, x)
<1>1. AtHome(t, x) => AtHome(u, x)
  BY DEF FixedSession
<1>2. x \in SessionsIn(t) => KeepsSession(t, u, x)
  BY KeepsTwice DEF FixedSession
<1>3. x \notin SessionsIn(t) => Once(u, x) /\ (Copies(u, x) # {} => Copies(v, x) # {})
  BY KeepsOnce DEF FixedSession
<1>4. 1 .. n - 1 \subseteq 1 .. n
  OBVIOUS
<1> QED
  BY <1>1, <1>2, <1>3, <1>4 DEF FixedSession

\* One more fix: what is known of a session goes on holding.
LEMMA FixKeepsSession ==
  ASSUME NEW t, IsText(t), WellNested(t), NEW c,
         NEW n \in 1 .. Len(Fixes(t, c)), NEW v, Fixed(t, c, n - 1, v),
         NEW x \in Sessions, FixedSession(t, c, n - 1, v, x)
  PROVE  FixedSession(t, c, n, Applied(v, Fixes(t, c)[n]), x)
<1> DEFINE fixes == Fixes(t, c)
           fix == fixes[n]
           u == Applied(v, fix)
<1>1. /\ Len(fixes) \in Nat
      /\ \/ fix.edit = "RemoveBlock" /\ fix.session \in DeadBlocks(t)
         \/ fix.edit = "AddScopes"
         \/ /\ fix.edit = "MoveLegacy" /\ fix.profiles # {}
            /\ IsSeq(fix.portal[1]) /\ IsSeq(fix.portal[2])
            /\ fix.create => fix.session \in FreeNames(t)
  BY FixesFacts
<1>2. \A i \in 1 .. Len(fixes) :
        Creates(fixes[i]) /\ Creates(fix) /\ fixes[i].session = fix.session => i = n
  BY FixesFacts
<1>3. /\ IsText(v) /\ WellNested(v)
      /\ \A y : Begun(v, y) =>
           Begun(t, y) \/ \E i \in 1 .. n - 1 : Creates(fixes[i]) /\ fixes[i].session = y
  BY DEF Fixed
<1>4. \A y : AtHome(t, y) => Copies(t, y) # {}
  BY DEF AtHome
<1>5. IsLines(t) /\ IsLines(v)
  BY <1>3, TextFacts
<1>6. x \in SessionsIn(t) <=> Copies(t, x) # {}
  BY <1>5, CopyLines
<1>7. x \notin SessionsIn(t) /\ Copies(v, x) # {} =>
        \E i \in 1 .. n - 1 : Creates(fixes[i]) /\ fixes[i].session = x
  BY DEF FixedSession
<1> HIDE DEF fixes
<1>8. /\ n \in Nat /\ n \in 1 .. n
      /\ \A i \in 1 .. n - 1 : i \in 1 .. Len(fixes) /\ i # n
  <2>1. n \in 1 .. Len(fixes)
    BY DEF fixes
  <2> QED
    BY <1>1, <2>1
<1>9. CASE fix.edit = "RemoveBlock"
  <2> DEFINE s == fix.session
             w == RemoveBlock(v, s)
  <2>1. u = w /\ s \in Sessions /\ s \notin SessionsIn(t)
    BY <1>1, <1>9 DEF Applied, DeadBlocks
  <2>2. x = s => ~AtHome(t, x)
    BY <1>4, <1>6, <2>1
  <2> HIDE DEF s
  <2>3. KeepsSession(v, w, x) /\ (x # s /\ AtHome(v, x) => AtHome(w, x))
    BY <1>3, <2>1, RemovedSessions
  <2> HIDE DEF u, w
  <2> QED
    BY <1>8, <2>1, <2>2, <2>3, FixOthers DEF u, fix, fixes
<1>10. CASE fix.edit = "AddScopes"
  <2> DEFINE w == AddScopes(v, fix.session)
  <2>1. u = w
    BY <1>10 DEF Applied
  <2>2. IsText(w) /\ Alike(v, w)
    BY <1>3, AddScopesAlike
  <2> HIDE DEF u, w
  <2>3. KeepsSession(v, w, x) /\ (AtHome(v, x) => AtHome(w, x))
    BY <1>3, <2>2, AlikeSessions
  <2> QED
    BY <1>8, <2>1, <2>3, FixOthers DEF u, fix, fixes
<1>11. CASE fix.edit = "MoveLegacy"
  <2> DEFINE s == fix.session
             moved == MoveProfiles(v, fix.profiles, s)
             w == AppendSession(moved, s, fix.portal[1], fix.portal[2])
  <2>1. /\ u = v \/ (fix.create /\ u = w) \/ u = moved
        /\ u # v => \A y \in fix.profiles : Found(v, "profile", y)
    BY <1>11 DEF Applied, MoveLegacy
  <2> HIDE DEF u, w, moved
  <2>2. CASE u = v
    <3>1. KeepsSession(v, v, x)
      BY KeepsItself
    <3> QED
      BY <1>8, <2>2, <3>1, FixOthers DEF u, fix, fixes
  <2>3. CASE u # v
    <3>1. IsText(moved) /\ Alike(v, moved)
      BY <1>3, <2>1, <2>3, MoveProfilesAlike DEF moved
    <3>2. /\ WellNested(moved) /\ IsLines(moved)
          /\ \A y : Begun(moved, y) <=> Begun(v, y)
      BY <1>3, <3>1, AlikeKeeps, TextFacts DEF Safe
    <3>3. KeepsSession(v, moved, x) /\ (AtHome(v, x) => AtHome(moved, x))
      BY <1>3, <3>1, AlikeSessions
    <3>4. CASE u = moved
      BY <1>8, <3>3, <3>4, FixOthers DEF u, fix, fixes
    <3>5. CASE fix.create /\ u = w
      <4>1. s \in FreeNames(t) /\ Creates(fix)
        BY <1>1, <1>11, <3>5 DEF Creates
      <4>2. s \in Sessions /\ s \notin SessionsIn(t) /\ ~HasBlock(t, s)
        BY <4>1 DEF FreeNames
      <4>3. \A i \in 1 .. n - 1 : ~(Creates(fixes[i]) /\ fixes[i].session = s)
        BY <1>2, <1>8, <4>1
      <4>4. ~Begun(moved, s)
        <5>1. ~Begun(t, s)
          BY <4>2, BlockFacts
        <5> QED
          BY <1>3, <3>2, <4>3, <5>1
      <4> DEFINE url == fix.portal[1]
                 region == fix.portal[2]
      <4>5. IsSeq(url) /\ IsSeq(region) /\ w = AppendSession(moved, s, url, region)
        BY <1>1, <1>11 DEF w
      <4> HIDE DEF s, url, region
      <4>6. /\ x # s => KeepsSession(moved, w, x)
            /\ x # s /\ AtHome(moved, x) => AtHome(w, x)
            /\ Copies(moved, s) = {} => Once(w, s)
        BY <3>1, <3>2, <4>2, <4>4, <4>5, AppendedSessions
      <4>7. CASE x # s
        <5>1. KeepsSession(v, w, x) /\ (AtHome(v, x) => AtHome(w, x))
          BY <3>3, <4>6, <4>7, KeepsTwice
        <5> QED
          BY <1>8, <3>5, <5>1, FixOthers DEF u, fix, fixes
      <4>8. CASE x = s
        <5>1. Copies(v, x) = {}
          BY <1>7, <4>2, <4>3, <4>8
        <5>2. Once(w, x)
          BY <3>3, <4>6, <4>8, <5>1, KeepsOnce
        <5>3. ~AtHome(t, x) /\ x \notin SessionsIn(t)
          BY <1>4, <1>6, <4>2, <4>8
        <5>4. Creates(fixes[n]) /\ fixes[n].session = x
          BY <4>1, <4>8 DEF s
        <5>5. \E i \in 1 .. n : Creates(fixes[i]) /\ fixes[i].session = x
          BY <1>8, <5>4
        <5> QED
          BY <3>5, <5>2, <5>3, <5>5 DEF FixedSession, u, fix, fixes
      <4> QED
        BY <4>7, <4>8
    <3> QED
      BY <2>1, <2>3, <3>4, <3>5
  <2> QED
    BY <2>2, <2>3
<1> QED
  BY <1>1, <1>9, <1>10, <1>11

\* `gac doctor --fix`.
LEMMA DoctorKept ==
  ASSUME NEW t, IsText(t), NEW c, NEW x \in Sessions
  PROVE  Kept(t, Doctor(t, c), x)
<1> DEFINE fixes == Fixes(t, c)
           L == Len(fixes)
<1>1. L \in Nat
  BY FixesFacts
<1>2. CASE ~WellNested(t)
  <2>1. Doctor(t, c) = t
    BY <1>2, DoctorKeeps
  <2> QED
    BY <2>1, KeptAsIs
<1>3. CASE WellNested(t)
  <2>1. PICK r : /\ r[0] = t
                 /\ \A n \in 1 .. L : r[n] = Applied(r[n - 1], fixes[n])
                 /\ Doctor(t, c) = r[L]
    BY <1>1, DoctorReads
  <2>2. IsLines(t)
    BY TextFacts
  <2>3. x \notin SessionsIn(t) => Copies(t, x) = {} /\ ~AtHome(t, x)
    BY <2>2, CopyLines DEF AtHome
  <2> DEFINE good == {n \in 0 .. L : Fixed(t, c, n, r[n]) /\ FixedSession(t, c, n, r[n], x)}
  <2>4. 0 \in good
    <3>1. Safe(t, t)
      BY DEF Safe, InOrder
    <3>2. Fixed(t, c, 0, t)
      BY <1>3, <3>1 DEF Fixed
    <3>3. FixedSession(t, c, 0, t, x)
      BY <2>3, KeepsItself DEF FixedSession, Once
    <3> QED
      BY <1>1, <2>1, <3>2, <3>3
  <2>5. ASSUME NEW n \in 1 .. L, n - 1 \in good
        PROVE  n \in good
    <3>1. Fixed(t, c, n - 1, r[n - 1]) /\ FixedSession(t, c, n - 1, r[n - 1], x)
      BY <2>5
    <3>2. Fixed(t, c, n, Applied(r[n - 1], fixes[n]))
      BY <1>3, <3>1, FixKeeps
    <3>3. FixedSession(t, c, n, Applied(r[n - 1], fixes[n]), x)
      BY <1>3, <3>1, FixKeepsSession
    <3>4. n \in 0 .. L
      BY <1>1
    <3> QED
      BY <2>1, <3>2, <3>3, <3>4
  <2> HIDE DEF good, L
  <2>6. \A m \in 1 .. L : m - 1 \in good => m \in good
    BY <2>5, Zenon
  <2>7. \A m \in 0 .. L : m \in good
    BY <1>1, <2>4, <2>6, UpTo
  <2>8. L \in good
    BY <1>1, <2>7
  <2>9. FixedSession(t, c, L, r[L], x)
    BY <2>8 DEF good
  <2>10. AtHome(r[L], x) => Copies(r[L], x) # {}
    BY DEF AtHome
  <2>11. Kept(t, r[L], x)
    BY <2>3, <2>9, <2>10 DEF FixedSession, Kept
  <2> QED
    BY <2>1, <2>11
<1> QED
  BY <1>2, <1>3

-----------------------------------------------------------------------------
(***************************************************************************)
(* The lines the user wrote.                                               *)
(***************************************************************************)
InBlock(t, x) == \E b \in Blocks(t) : x \in b.first .. b.last

\* Line x is gac's: in a block, or in the default block when that can be found.
InGac(t, found, x) == InBlock(t, x) \/ (found /\ Inside(t, x))

\* A block is told by the two lines that delimit it.
LEMMA InBlockMeans ==
  ASSUME NEW t, IsText(t), NEW x
  PROVE  InBlock(t, x) <=>
           /\ WellNested(t)
           /\ \E i, j \in 1 .. Len(t.lines) : Delimit(t, i, j) /\ x \in i .. j
<1>1. ASSUME InBlock(t, x)
      PROVE  /\ WellNested(t)
             /\ \E i, j \in 1 .. Len(t.lines) : Delimit(t, i, j) /\ x \in i .. j
  <2>1. PICK b \in Blocks(t) : x \in b.first .. b.last
    BY <1>1 DEF InBlock
  <2> QED
    BY <2>1, BlockFacts DEF IsRange
<1>2. ASSUME WellNested(t),
             NEW i \in 1 .. Len(t.lines), NEW j \in 1 .. Len(t.lines),
             Delimit(t, i, j), x \in i .. j
      PROVE  InBlock(t, x)
  <2> DEFINE b == [of |-> t.lines[i].of, first |-> i, last |-> j]
  <2>1. b \in Blocks(t)
    BY <1>2, BlockFacts
  <2>2. b.first = i /\ b.last = j
    OBVIOUS
  <2> HIDE DEF b
  <2> QED
    BY <1>2, <2>1, <2>2 DEF InBlock
<1> QED
  BY <1>1, <1>2

\* The places of the user's lines.
LEMMA PlacesAre ==
  ASSUME NEW t, IsText(t), NEW c, NEW found
  PROVE  UserPlaces(t, c, found) =
           {x \in 1 .. Len(t.lines) : ~Adopted(c, t.lines[x]) /\ ~InGac(t, found, x)}
<1>1. IsLines(t)
  BY TextFacts
<1>2. ASSUME NEW x
      PROVE  (\E r \in GacRanges(t, found) : x \in r[1] .. r[2]) <=> InGac(t, found, x)
  <2>1. ASSUME NEW r \in GacRanges(t, found), x \in r[1] .. r[2]
        PROVE  InGac(t, found, x)
    <3>1. CASE r \in {<<b.first, b.last>> : b \in Blocks(t)}
      BY <2>1, <3>1 DEF InGac, InBlock
    <3>2. CASE found /\ r \in DefaultBlocks(t)
      <4>1. r[1] \in 1 .. Len(t.lines) /\ r[2] \in 1 .. Len(t.lines) /\ IsManaged(t, r[1], r[2])
        BY <1>1, <3>2, DefaultBlock
      <4> QED
        BY <2>1, <3>2, <4>1 DEF InGac, Inside
    <3> QED
      BY <2>1, <3>1, <3>2 DEF GacRanges
  <2>2. ASSUME InBlock(t, x)
        PROVE  \E r \in GacRanges(t, found) : x \in r[1] .. r[2]
    <3>1. PICK b \in Blocks(t) : x \in b.first .. b.last
      BY <2>2 DEF InBlock
    <3>2. <<b.first, b.last>> \in GacRanges(t, found)
      BY DEF GacRanges
    <3> QED
      BY <3>1, <3>2
  <2>3. ASSUME found, Inside(t, x)
        PROVE  \E r \in GacRanges(t, found) : x \in r[1] .. r[2]
    <3>1. PICK a \in 1 .. Len(t.lines), b \in 1 .. Len(t.lines) :
            IsManaged(t, a, b) /\ x \in a .. b
      BY <2>3 DEF Inside
    <3>2. <<a, b>> \in DefaultBlocks(t)
      BY <1>1, <3>1, DefaultBlock
    <3>3. <<a, b>> \in GacRanges(t, found)
      BY <2>3, <3>2 DEF GacRanges
    <3> QED
      BY <3>1, <3>3
  <2> QED
    BY <2>1, <2>2, <2>3 DEF InGac
<1> QED
  BY <1>1, <1>2 DEF UserPlaces, IsLines

\* What replaces lines can itself be replaced by them.
LEMMA SwapBack ==
  ASSUME NEW t, NEW u, NEW p, NEW q, NEW n, Swaps(t, u, p, q, n)
  PROVE  Swaps(u, t, p, p + n - 1, q - p + 1)
<1> DEFINE L == Len(t.lines)
           K == Len(u.lines)
           m == q - p + 1
           g == p + n - 1
<1>1. /\ IsLines(t) /\ IsLines(u) /\ L \in Nat /\ K \in Nat /\ p \in 1 .. L + 1
      /\ q \in 0 .. L /\ p <= q + 1 /\ n \in Nat /\ K = L + n - (q - p + 1)
  BY DEF Swaps, IsLines
<1> HIDE DEF L, K
<1>2. /\ p \in 1 .. K + 1 /\ g \in 0 .. K /\ p <= g + 1 /\ m \in Nat
      /\ L = K + m - (g - p + 1)
  BY ONLY <1>1, SMTT(30)
<1>3. ASSUME NEW y \in Outer(u, p, g)
      PROVE  Same(u.lines[y], t.lines[Shift(p, g, m, y)])
  <2>1. PICK x \in Outer(t, p, q) : y = Shift(p, q, n, x)
    BY Shifting
  <2>2. Same(t.lines[x], u.lines[y])
    BY <2>1, Shifting
  <2>3. x \in 1 .. L /\ (x < p \/ q < x)
    BY DEF Outer, L
  <2>4. Shift(p, g, m, y) = x
    BY <1>1, <2>1, <2>3 DEF Shift
  <2> QED
    BY <2>2, <2>4 DEF Same, SamePortal
<1> QED
  BY <1>1, <1>2, <1>3 DEF Swaps, L, K

\* The text has blocks to speak of, or no marker comes or goes.
Legible(t, u, p, q, n) ==
  WellNested(t) \/ (Unmarked(t, p, q) /\ Unmarked(u, p, p + n - 1))

\* Markers in disorder stay so when none comes or goes.
LEMMA StaysBroken ==
  ASSUME NEW t, NEW u, NEW p, NEW q, NEW n, Swaps(t, u, p, q, n), ~WellNested(t),
         Legible(t, u, p, q, n)
  PROVE  ~WellNested(u)
<1>1. SUFFICES ASSUME WellNested(u)
               PROVE  WellNested(t)
  OBVIOUS
<1> DEFINE g == p + n - 1
           m == q - p + 1
<1>2. Swaps(u, t, p, g, m)
  BY SwapBack
<1>3. p \in Nat /\ q \in Nat /\ n \in Nat
  BY Shifting
<1>4. p + m - 1 = q
  BY <1>3
<1>5. Unmarked(u, p, g) /\ Unmarked(t, p, p + m - 1)
  BY <1>4 DEF Legible
<1> HIDE DEF g, m
<1>6. Fits(u, t, p, g, m)
  BY <1>5 DEF Fits, Balanced, Unmarked, IsMark
<1> QED
  BY <1>1, <1>2, <1>6, StaysNested

\* A line that stays is in a block when it was in one.
LEMMA InBlockStays ==
  ASSUME NEW t, NEW u, IsText(t), IsText(u), NEW p, NEW q, NEW n,
         Swaps(t, u, p, q, n), Fits(t, u, p, q, n), Legible(t, u, p, q, n),
         NEW x \in Outer(t, p, q)
  PROVE  InBlock(t, x) <=> InBlock(u, Shift(p, q, n, x))
<1> DEFINE y == Shift(p, q, n, x)
<1>1. /\ IsLines(t) /\ IsLines(u) /\ p \in Nat /\ q \in Nat /\ n \in Nat
      /\ x \in 1 .. Len(t.lines) /\ x \notin p .. q
      /\ y \in 1 .. Len(u.lines) /\ y \notin p .. p + n - 1
  <2>1. IsLines(t) /\ IsLines(u) /\ p \in Nat /\ q \in Nat /\ n \in Nat
    BY Shifting DEF Swaps
  <2>2. x \in 1 .. Len(t.lines) /\ y \in 1 .. Len(u.lines) /\ y \notin p .. p + n - 1
    BY StillThere
  <2> QED
    BY <2>1, <2>2 DEF Outer
<1> HIDE DEF y
<1>2. CASE ~WellNested(t)
  BY <1>2, StaysBroken, InBlockMeans
<1>3. CASE WellNested(t)
  <2>1. WellNested(u)
    BY <1>3, StaysNested
  <2>2. ASSUME NEW i \in 1 .. Len(t.lines), NEW j \in 1 .. Len(t.lines),
               Delimit(t, i, j), x \in i .. j
        PROVE  InBlock(u, y)
    <3>1. i \in p .. q <=> j \in p .. q
      BY <1>1, <2>2, PartnerStays, Shifting DEF Fits
    <3>2. i \notin p .. q
      BY <1>1, <2>2, <3>1 DEF IsLines
    <3>3. i \in Outer(t, p, q) /\ j \in Outer(t, p, q)
      BY <1>1, <3>1, <3>2 DEF Outer, IsLines
    <3> DEFINE f == Shift(p, q, n, i)
               g == Shift(p, q, n, j)
    <3>4. Delimit(u, f, g) /\ f \in 1 .. Len(u.lines) /\ g \in 1 .. Len(u.lines)
      BY <2>2, <3>3, BlockStays, StillThere
    <3>5. ~(x < i) /\ ~(j < x)
      BY <1>1, <2>2 DEF IsLines
    <3>6. ~(y < f) /\ ~(g < y)
      BY <3>3, <3>5, Shifting DEF y
    <3> HIDE DEF f, g
    <3>7. y \in f .. g
      BY <1>1, <3>4, <3>6 DEF IsLines
    <3> QED
      BY <2>1, <3>4, <3>7, InBlockMeans
  <2>3. ASSUME NEW f \in 1 .. Len(u.lines), NEW g \in 1 .. Len(u.lines),
               Delimit(u, f, g), y \in f .. g
        PROVE  InBlock(t, x)
    <3>1. ~OneIn(u, p, p + n - 1, f, g)
      BY <1>1, <2>3 DEF OneIn, IsLines
    <3>2. PICK i \in Outer(t, p, q), j \in Outer(t, p, q) :
            /\ Delimit(t, i, j)
            /\ f = Shift(p, q, n, i) /\ g = Shift(p, q, n, j)
      BY <1>3, <2>3, <3>1, BlockWas
    <3>3. ~(y < f) /\ ~(g < y)
      BY <1>1, <2>3 DEF IsLines
    <3>4. ~(x < i) /\ ~(j < x)
      BY <3>2, <3>3, Shifting DEF y
    <3>5. i \in 1 .. Len(t.lines) /\ j \in 1 .. Len(t.lines)
      BY DEF Outer
    <3>6. x \in i .. j
      BY <1>1, <3>4, <3>5 DEF IsLines
    <3> QED
      BY <1>3, <3>2, <3>5, <3>6, InBlockMeans
  <2> QED
    BY <1>3, <2>1, <2>2, <2>3, InBlockMeans DEF y
<1> QED
  BY <1>2, <1>3

\* The default block, when it can be found, is not touched.
SparesDefault(t, u, p, q, n, found) ==
  found => OneDefault(t) /\ Untouched(t, p, q) /\ NoMarks(u, p, p + n - 1)

\* A line that stays is gac's when it was.
LEMMA InGacStays ==
  ASSUME NEW t, NEW u, IsText(t), IsText(u), NEW p, NEW q, NEW n,
         Swaps(t, u, p, q, n), Fits(t, u, p, q, n), Legible(t, u, p, q, n),
         NEW found, SparesDefault(t, u, p, q, n, found),
         NEW x \in Outer(t, p, q)
  PROVE  InGac(t, found, x) <=> InGac(u, found, Shift(p, q, n, x))
<1>1. InBlock(t, x) <=> InBlock(u, Shift(p, q, n, x))
  BY InBlockStays
<1>2. found => (Inside(t, x) <=> Inside(u, Shift(p, q, n, x)))
  BY InsideStays DEF SparesDefault
<1> QED
  BY <1>1, <1>2 DEF InGac

-----------------------------------------------------------------------------
(***************************************************************************)
(* The user's lines, when lines are replaced.                              *)
(***************************************************************************)
ShownLines(t, c) == [i \in DOMAIN t.lines |-> Shown(c, t.lines[i])]

Blanks(m) == [i \in 1 .. m |-> Blank]

\* The lines of two texts as they are shown, as sequences over one set.
LEMMA ShownTyped ==
  ASSUME NEW t, NEW u, IsLines(t), IsLines(u), NEW c
  PROVE  \E S : ShownLines(t, c) \in Seq(S) /\ ShownLines(u, c) \in Seq(S)
<1> DEFINE S == {Shown(c, t.lines[i]) : i \in 1 .. Len(t.lines)}
                  \cup {Shown(c, u.lines[i]) : i \in 1 .. Len(u.lines)}
<1>1. ShownLines(t, c) \in [1 .. Len(t.lines) -> S]
  BY DEF ShownLines, IsLines
<1>2. ShownLines(u, c) \in [1 .. Len(u.lines) -> S]
  BY DEF ShownLines, IsLines
<1> HIDE DEF S
<1>3. Len(t.lines) \in Nat /\ Len(u.lines) \in Nat
  BY DEF IsLines
<1>4. ShownLines(t, c) \in Seq(S) /\ ShownLines(u, c) \in Seq(S)
  BY <1>1, <1>2, <1>3
<1> QED
  BY <1>4

\* A user's line that stays is shown as it was, and the user's.
Spares(t, u, c, found, p, q, n) ==
  /\ \A x \in Outer(t, p, q) :
       x \in UserPlaces(t, c, found) <=> Shift(p, q, n, x) \in UserPlaces(u, c, found)
  /\ \A x \in UserPlaces(t, c, found) :
       /\ x \in Outer(t, p, q)
       /\ Shown(c, u.lines[Shift(p, q, n, x)]) = Shown(c, t.lines[x])

\* The user's lines in the new text, those that come in left aside, are those
\* of the old.
LEMMA UserStays ==
  ASSUME NEW t, NEW u, IsText(t), IsText(u), NEW p, NEW q, NEW n, Swaps(t, u, p, q, n),
         NEW c, NEW found, Spares(t, u, c, found, p, q, n)
  PROVE  LinesAt(ShownLines(u, c), UserPlaces(u, c, found) \ (p .. p + n - 1))
           = UserLines(t, c, found)
<1> DEFINE P == UserPlaces(t, c, found)
           Q == UserPlaces(u, c, found) \ (p .. p + n - 1)
           a == ShownLines(t, c)
           b == ShownLines(u, c)
           h == [x \in P |-> Shift(p, q, n, x)]
<1>1. IsLines(t) /\ IsLines(u)
  BY TextFacts
<1>2. PICK S : a \in Seq(S) /\ b \in Seq(S)
  BY <1>1, ShownTyped
<1>3. /\ DOMAIN a = 1 .. Len(t.lines) /\ DOMAIN b = 1 .. Len(u.lines)
      /\ \A i \in 1 .. Len(t.lines) : a[i] = Shown(c, t.lines[i])
      /\ \A i \in 1 .. Len(u.lines) : b[i] = Shown(c, u.lines[i])
  BY <1>1 DEF ShownLines, IsLines
<1>4. P \subseteq 1 .. Len(t.lines) /\ Q \subseteq 1 .. Len(u.lines)
  BY <1>1 DEF UserPlaces, IsLines
<1>5. \A x \in P : /\ x \in Outer(t, p, q) /\ x \in 1 .. Len(t.lines)
                   /\ Shift(p, q, n, x) \in 1 .. Len(u.lines)
                   /\ Shift(p, q, n, x) \in Q
                   /\ Shown(c, u.lines[Shift(p, q, n, x)]) = Shown(c, t.lines[x])
  BY StillThere DEF Spares
<1>6. \A x, y \in P : x < y => Shift(p, q, n, x) < Shift(p, q, n, y)
  BY <1>5, Shifting
<1>7. \A y \in Q : \E x \in P : Shift(p, q, n, x) = y
  <2> TAKE y \in Q
  <2>1. y \in 1 .. Len(u.lines) /\ y \notin p .. p + n - 1 /\ y \in UserPlaces(u, c, found)
    BY <1>4
  <2>2. PICK x \in Outer(t, p, q) : y = Shift(p, q, n, x)
    BY <2>1, OldOrNew
  <2>3. x \in P
    BY <2>1, <2>2 DEF Spares
  <2> QED
    BY <2>2, <2>3
<1> HIDE DEF P, Q, a, b
<1>8. Carries(h, a, P, b, Q)
  <2>1. \A x \in P : h[x] \in Q /\ b[h[x]] = a[x]
    BY <1>3, <1>5
  <2>2. \A x \in P, y \in P : x < y => h[x] < h[y]
    BY <1>6
  <2>3. \A y \in Q : \E x \in P : h[x] = y
    BY <1>7
  <2> HIDE DEF h
  <2> QED
    BY <2>1, <2>2, <2>3 DEF Carries
<1>9. P \in SUBSET DOMAIN a /\ Q \in SUBSET DOMAIN b
  BY <1>3, <1>4
<1> HIDE DEF h
<1>10. LinesAt(b, Q) = LinesAt(a, P)
  BY ONLY <1>2, <1>8, <1>9, SameLines
<1> QED
  BY <1>10 DEF UserLines, ShownLines, P, Q, a, b

\* Up to m blank lines are added to the user's.
Shows(t, u, c, found, m) ==
  UserLines(u, c, found) = UserLines(t, c, found) \o Blanks(m)

\* What the user wrote, as a sequence.
LEMMA UserTyped ==
  ASSUME NEW t, IsText(t), NEW c, NEW found
  PROVE  IsSeq(UserLines(t, c, found))
<1>1. IsLines(t)
  BY TextFacts
<1>2. PICK S : ShownLines(t, c) \in Seq(S)
  BY <1>1, ShownTyped
<1> DEFINE a == ShownLines(t, c)
           P == UserPlaces(t, c, found)
           parts == [i \in DOMAIN a |-> IF i \in P THEN <<a[i]>> ELSE <<>>]
<1>3. parts \in Seq(Seq(S))
  <2>1. Len(a) \in Nat /\ DOMAIN a = 1 .. Len(a)
    BY <1>2
  <2>2. parts \in [1 .. Len(a) -> Seq(S)]
    <3>1. \A i \in 1 .. Len(a) : parts[i] \in Seq(S)
      BY <1>2, <2>1
    <3> QED
      BY <2>1, <3>1
  <2> HIDE DEF parts
  <2> QED
    BY <2>1, <2>2
<1>4. UserLines(t, c, found) = FlattenSeq(parts)
  BY DEF UserLines, LinesAt, ShownLines
<1> HIDE DEF parts
<1>5. FlattenSeq(parts) \in Seq(S)
  BY <1>3, FlattenTyped
<1> QED
  BY <1>4, <1>5, SeqOfAnything

\* None and one.
LEMMA FewBlanks ==
  Blanks(0) = <<>> /\ Blanks(1) = <<Blank>>
BY DEF Blanks

\* A text that is not changed.
LEMMA ShowsItself ==
  ASSUME NEW t, IsText(t), NEW c, NEW found
  PROVE  Shows(t, t, c, found, 0)
<1>1. IsSeq(UserLines(t, c, found))
  BY UserTyped
<1>2. UserLines(t, c, found) \o <<>> = UserLines(t, c, found)
  BY <1>1, ConcatNothing
<1> QED
  BY <1>2, FewBlanks DEF Shows

\* No line that comes in is the user's.
LEMMA UserSwap ==
  ASSUME NEW t, NEW u, IsText(t), IsText(u), NEW p, NEW q, NEW n, Swaps(t, u, p, q, n),
         NEW c, NEW found, Spares(t, u, c, found, p, q, n),
         \A y \in p .. p + n - 1 : y \notin UserPlaces(u, c, found)
  PROVE  Shows(t, u, c, found, 0)
<1>1. UserPlaces(u, c, found) \ (p .. p + n - 1) = UserPlaces(u, c, found)
  OBVIOUS
<1>2. LinesAt(ShownLines(u, c), UserPlaces(u, c, found)) = UserLines(t, c, found)
  BY <1>1, UserStays
<1>3. UserLines(u, c, found) = UserLines(t, c, found)
  BY <1>2 DEF UserLines, ShownLines
<1> QED
  BY <1>3, ShowsItself DEF Shows

\* A blank line that comes in after the last is.
LEMMA UserAppend ==
  ASSUME NEW t, NEW u, IsText(t), IsText(u), NEW n,
         Swaps(t, u, Len(t.lines) + 1, Len(t.lines), n),
         NEW c, NEW found, Spares(t, u, c, found, Len(t.lines) + 1, Len(t.lines), n),
         \A y \in Len(t.lines) + 1 .. Len(t.lines) + 1 + n - 1 :
           y \in UserPlaces(u, c, found) => y = Len(t.lines) + 1 /\ u.lines[y] = Blank
  PROVE  \E m \in 0 .. 1 : Shows(t, u, c, found, m)
<1> DEFINE k == Len(t.lines) + 1
           g == k + n - 1
           U == UserPlaces(u, c, found)
           Q == U \ (k .. g)
           b == ShownLines(u, c)
<1>1. IsLines(t) /\ IsLines(u)
  BY TextFacts
<1>2. CASE k \notin U \/ k \notin k .. g
  <2>1. \A y \in k .. g : y \notin U
    BY <1>2
  <2>2. Shows(t, u, c, found, 0)
    BY <2>1, UserSwap
  <2> QED
    BY <2>2
<1>3. CASE k \in U /\ k \in k .. g
  <2>1. LinesAt(b, Q) = UserLines(t, c, found)
    BY UserStays
  <2>2. PICK S : b \in Seq(S)
    BY <1>1, ShownTyped
  <2>3. U \subseteq 1 .. Len(u.lines)
    BY <1>1 DEF UserPlaces, IsLines
  <2>4. DOMAIN b = 1 .. Len(u.lines) /\ \A i \in 1 .. Len(u.lines) : b[i] = Shown(c, u.lines[i])
    BY <1>1 DEF ShownLines, IsLines
  <2>5. u.lines[k] = Blank
    BY <1>3
  <2>6. b[k] = Blank
    BY <1>3, <2>3, <2>4, <2>5, BlankKind DEF Shown
  <2>7. Len(u.lines) = Len(t.lines) + n /\ n \in Nat /\ Len(t.lines) \in Nat
    BY DEF Swaps, IsLines
  <2>8. \A i \in Q : i < k
    BY <2>3, <2>7
  <2>9. U = Q \cup {k}
    BY <1>3
  <2>10. Q \in SUBSET DOMAIN b /\ k \in DOMAIN b /\ k \notin Q
    BY <1>3, <2>3, <2>4
  <2> HIDE DEF k, g, U, Q, b
  <2>11. LinesAt(b, Q \cup {k}) = LinesAt(b, Q) \o <<b[k]>>
    BY ONLY <2>2, <2>8, <2>10, OneMoreLine
  <2>12. UserLines(u, c, found) = UserLines(t, c, found) \o <<Blank>>
    BY <2>1, <2>6, <2>9, <2>11 DEF UserLines, ShownLines, U, b
  <2>13. Shows(t, u, c, found, 1)
    BY <2>12, FewBlanks DEF Shows
  <2> QED
    BY <2>13
<1> QED
  BY <1>2, <1>3

-----------------------------------------------------------------------------
(***************************************************************************)
(* How many blank lines a command adds to the user's.                      *)
(***************************************************************************)
\* The user's lines are none of those that are replaced, and go on being shown as
\* they were.
ShownAsBefore(t, u, c, found, p, q, n) ==
  \A x \in UserPlaces(t, c, found) :
    /\ x \in Outer(t, p, q)
    /\ Shown(c, u.lines[Shift(p, q, n, x)]) = Shown(c, t.lines[x])

\* The lines that are replaced are gac's, or the user has handed them over.
Given(t, c, found, p, q) ==
  \A x \in p .. q : InGac(t, found, x) \/ Adopted(c, t.lines[x])

\* Lines that are gac's when they were, and shown as they were, are the user's when
\* they were.
LEMMA SparesIf ==
  ASSUME NEW t, NEW u, IsText(t), IsText(u), NEW p, NEW q, NEW n, Swaps(t, u, p, q, n),
         NEW found, NEW c,
         \A x \in Outer(t, p, q) : InGac(t, found, x) <=> InGac(u, found, Shift(p, q, n, x)),
         ShownAsBefore(t, u, c, found, p, q, n)
  PROVE  Spares(t, u, c, found, p, q, n)
<1>1. ASSUME NEW x \in Outer(t, p, q)
      PROVE  x \in UserPlaces(t, c, found)
               <=> Shift(p, q, n, x) \in UserPlaces(u, c, found)
  <2> DEFINE y == Shift(p, q, n, x)
  <2>1. /\ x \in 1 .. Len(t.lines) /\ y \in 1 .. Len(u.lines)
        /\ t.lines[x].k = u.lines[y].k
    BY StillThere
  <2>2. InGac(t, found, x) <=> InGac(u, found, y)
    OBVIOUS
  <2>3. Adopted(c, t.lines[x]) <=> Adopted(c, u.lines[y])
    BY <2>1 DEF Adopted
  <2> HIDE DEF y
  <2> QED
    BY <2>1, <2>2, <2>3, PlacesAre DEF y
<1> QED
  BY <1>1 DEF Spares, ShownAsBefore

\* What fits and leaves the default block alone leaves the user's lines the user's.
LEMMA SparesWhen ==
  ASSUME NEW t, NEW u, IsText(t), IsText(u), NEW p, NEW q, NEW n,
         Swaps(t, u, p, q, n), Fits(t, u, p, q, n), Legible(t, u, p, q, n),
         NEW found, SparesDefault(t, u, p, q, n, found), NEW c,
         ShownAsBefore(t, u, c, found, p, q, n)
  PROVE  Spares(t, u, c, found, p, q, n)
<1>1. \A x \in Outer(t, p, q) : InGac(t, found, x) <=> InGac(u, found, Shift(p, q, n, x))
  BY InGacStays
<1> QED
  BY <1>1, SparesIf

\* The lines that are not gac's to replace stay as they are shown, if the others are
\* not changed.
LEMMA ShownExact ==
  ASSUME NEW t, NEW u, IsText(t), NEW p, NEW q, NEW n, Swaps(t, u, p, q, n),
         NEW found, NEW c, Exact(t, u, p, q, n), Given(t, c, found, p, q)
  PROVE  ShownAsBefore(t, u, c, found, p, q, n)
<1>1. SUFFICES ASSUME NEW x \in UserPlaces(t, c, found)
               PROVE  /\ x \in Outer(t, p, q)
                      /\ Shown(c, u.lines[Shift(p, q, n, x)]) = Shown(c, t.lines[x])
  BY DEF ShownAsBefore
<1>2. /\ x \in 1 .. Len(t.lines) /\ ~Adopted(c, t.lines[x]) /\ ~InGac(t, found, x)
  BY <1>1, PlacesAre
<1>3. x \notin p .. q
  BY <1>2 DEF Given
<1>4. p \in Nat /\ q \in Nat
  BY Shifting
<1>5. x \in Outer(t, p, q)
  BY <1>2, <1>3, <1>4 DEF Outer
<1> QED
  BY <1>5 DEF Exact

\* The same when the other lines stay as they are.
LEMMA SparesExact ==
  ASSUME NEW t, NEW u, IsText(t), IsText(u), NEW p, NEW q, NEW n,
         Swaps(t, u, p, q, n), Fits(t, u, p, q, n), Legible(t, u, p, q, n),
         NEW found, SparesDefault(t, u, p, q, n, found), NEW c,
         Exact(t, u, p, q, n), Given(t, c, found, p, q)
  PROVE  Spares(t, u, c, found, p, q, n)
BY ShownExact, SparesWhen

\* At most one blank line for each block that is new.
FewBlanksAdded(t, u, c, found) ==
  \E n \in 0 .. Cardinality(BlockNames(u) \ BlockNames(t)) : Shows(t, u, c, found, n)

\* A text has finitely many blocks.
LEMMA BlockNamesFinite ==
  ASSUME NEW t, IsText(t)
  PROVE  IsFiniteSet(BlockNames(t))
<1>1. IsLines(t)
  BY TextFacts
<1> DEFINE spans == {<<b.of>> : b \in Blocks(t)}
           names == [i \in 1 .. Len(t.lines) |-> <<t.lines[i].of>>]
<1>2. IsFiniteSet(1 .. Len(t.lines))
  BY <1>1, FS_Interval DEF IsLines
<1>3. IsFiniteSet({names[x] : x \in DOMAIN names})
  BY <1>2, FiniteImage
<1>4. spans \subseteq {names[x] : x \in DOMAIN names}
  <2>1. ASSUME NEW b \in Blocks(t)
        PROVE  <<b.of>> \in {names[x] : x \in DOMAIN names}
    <3>1. IsRange(t, b) /\ t.lines[b.first].of = b.of
      BY BlockFacts
    <3>2. b.first \in DOMAIN names /\ <<b.of>> = names[b.first]
      BY <3>1 DEF IsRange
    <3> QED
      BY <3>2
  <2> HIDE DEF names
  <2> QED
    BY <2>1
<1>5. IsFiniteSet(spans)
  BY <1>3, <1>4, FS_Subset
<1>6. {<<>> : r \in DefaultRange(t)} \subseteq {<<>>} /\ IsFiniteSet({<<>>})
  BY FS_Singleton
<1>7. IsFiniteSet({<<>> : r \in DefaultRange(t)})
  BY <1>6, FS_Subset
<1> QED
  BY <1>5, <1>7, FS_Union DEF BlockNames

\* No more blank lines than there are new blocks.
LEMMA FewWhen ==
  ASSUME NEW t, NEW u, IsText(t), IsText(u), NEW c, NEW found,
         NEW new \in SUBSET (BlockNames(u) \ BlockNames(t)),
         NEW m \in Nat, m <= Cardinality(new), Shows(t, u, c, found, m)
  PROVE  FewBlanksAdded(t, u, c, found)
<1> DEFINE S == BlockNames(u) \ BlockNames(t)
<1>1. IsFiniteSet(S)
  BY BlockNamesFinite, FS_Subset
<1>2. IsFiniteSet(new) /\ Cardinality(new) <= Cardinality(S)
  BY <1>1, FS_Subset
<1>3. Cardinality(new) \in Nat /\ Cardinality(S) \in Nat
  BY <1>1, <1>2, FS_CardinalityType
<1> HIDE DEF S
<1>4. m \in 0 .. Cardinality(S)
  BY <1>2, <1>3
<1> QED
  BY <1>4 DEF FewBlanksAdded, S

\* None is always allowed.
LEMMA FewNone ==
  ASSUME NEW t, NEW u, IsText(t), IsText(u), NEW c, NEW found, Shows(t, u, c, found, 0)
  PROVE  FewBlanksAdded(t, u, c, found)
<1>1. Cardinality({}) = 0 /\ {} \in SUBSET (BlockNames(u) \ BlockNames(t))
  BY FS_EmptySet
<1>2. 0 \in Nat /\ 0 <= Cardinality({})
  BY <1>1
<1> QED
  BY <1>1, <1>2, FewWhen

\* One is when there is a new block.
LEMMA FewOne ==
  ASSUME NEW t, NEW u, IsText(t), IsText(u), NEW c, NEW found,
         NEW e \in BlockNames(u) \ BlockNames(t),
         \E m \in 0 .. 1 : Shows(t, u, c, found, m)
  PROVE  FewBlanksAdded(t, u, c, found)
<1>1. PICK m \in 0 .. 1 : Shows(t, u, c, found, m)
  OBVIOUS
<1>2. Cardinality({e}) = 1 /\ {e} \in SUBSET (BlockNames(u) \ BlockNames(t))
  BY FS_Singleton
<1>3. m \in Nat /\ m <= Cardinality({e})
  BY <1>2
<1> QED
  BY <1>1, <1>2, <1>3, FewWhen

\* A session that comes to have a block is a new block.
LEMMA NewName ==
  ASSUME NEW t, NEW u, IsText(t), IsText(u), WellNested(u),
         NEW s, Begun(u, s), ~Begun(t, s)
  PROVE  <<s>> \in BlockNames(u) \ BlockNames(t)
<1>1. HasBlock(u, s) /\ ~HasBlock(t, s)
  BY BlockFacts
<1>2. \A x : <<x>> # <<>> /\ (<<x>> = <<s>> => x = s)
  BY Singletons
<1>3. PICK b \in Blocks(u) : b.of = s
  BY <1>1 DEF HasBlock
<1>4. <<s>> \in BlockNames(u)
  BY <1>3 DEF BlockNames
<1>5. <<s>> \notin BlockNames(t)
  BY <1>1, <1>2 DEF BlockNames, HasBlock
<1> QED
  BY <1>4, <1>5

\* The block that was put is the session's block.
LEMMA PutIsBlock ==
  ASSUME NEW u, IsText(u), WellNested(u), NEW p \in Nat, NEW q \in Nat,
         p .. q \subseteq 1 .. Len(u.lines), NEW s, s # Garbled, PutsBlock(u, p, q, s)
  PROVE  LET b == BlockOf(u, s)
         IN /\ b \in Blocks(u) /\ b.first \in p .. q /\ b.last = q
            /\ \A y \in p .. q : y < b.first => u.lines[y] = Blank /\ y = p
            /\ \A y \in b.first .. q :
                 u.lines[y].k \in {"begin", "end", "session", "profile"}
<1> DEFINE b == BlockOf(u, s)
<1>1. IsLines(u) /\ Len(u.lines) \in Nat
  BY TextFacts
<1>2. PICK i \in p .. q :
        /\ i < q
        /\ u.lines[i].k = "begin" /\ u.lines[i].of = s
        /\ u.lines[q].k = "end" /\ u.lines[q].of = s
        /\ \A y \in p .. q : \/ y = i \/ y = q
                             \/ y < i /\ y = p /\ u.lines[y] = Blank
                             \/ i < y /\ u.lines[y].k \in {"session", "profile"}
  BY DEF PutsBlock
<1>3. /\ i \in 1 .. Len(u.lines) /\ q \in 1 .. Len(u.lines) /\ i < q
      /\ \A x \in i + 1 .. q - 1 : ~IsMark(u, x)
  <2>1. i \in 1 .. Len(u.lines) /\ q \in 1 .. Len(u.lines)
    BY <1>2
  <2>2. \A x \in i + 1 .. q - 1 : x \in p .. q /\ x # i /\ x # q /\ ~(x < i)
    BY <1>1, <1>2
  <2> QED
    BY <1>2, <2>1, <2>2 DEF IsMark
<1>4. Delimit(u, i, q)
  BY <1>1, <1>2, <1>3, Delimiting
<1>5. [of |-> u.lines[i].of, first |-> i, last |-> q] \in Blocks(u)
  BY <1>3, <1>4, BlockFacts
<1>6. HasBlock(u, s)
  BY <1>2, <1>5 DEF HasBlock
<1>7. /\ b \in Blocks(u) /\ b.of = s
  BY <1>6, BlockFacts
<1> HIDE DEF b
<1>8. /\ b.first \in 1 .. Len(u.lines) /\ b.last \in 1 .. Len(u.lines)
      /\ Delimit(u, b.first, b.last) /\ u.lines[b.first].of = s
  BY <1>1, <1>7, BlockFacts DEF IsRange, Delimit
<1>9. b.first = i
  <2>1. b.first \in Marks(u, {"begin"}) /\ i \in Marks(u, {"begin"})
    BY <1>1, <1>2, <1>3, <1>8 DEF Marks, IsLines, Delimit
  <2> QED
    BY <1>2, <1>8, <2>1 DEF WellNested
<1>10. b.last = q
  BY <1>1, <1>3, <1>4, <1>8, <1>9, SameBlock
<1>11. \A y \in p .. q : y < i => u.lines[y] = Blank /\ y = p
  BY <1>2
<1>12. \A y \in i .. q : u.lines[y].k \in {"begin", "end", "session", "profile"}
  <2> TAKE y \in i .. q
  <2>1. y \in p .. q /\ ~(y < i)
    BY <1>2
  <2> QED
    BY <1>2, <2>1
<1> QED
  BY <1>2, <1>7, <1>9, <1>10, <1>11, <1>12 DEF b

\* The lines of a block that is put in are gac's, but for the blank one before it.
LEMMA BlockCovers ==
  ASSUME NEW u, IsText(u), WellNested(u), NEW p \in Nat, NEW q \in Nat,
         p .. q \subseteq 1 .. Len(u.lines), NEW s, s # Garbled, PutsBlock(u, p, q, s)
  PROVE  \A y \in p .. q : InBlock(u, y) \/ (y = p /\ u.lines[y] = Blank)
<1> DEFINE b == BlockOf(u, s)
<1>1. /\ b.first \in p .. q /\ b.last = q
      /\ \A y \in p .. q : y < b.first => u.lines[y] = Blank /\ y = p
  BY PutIsBlock
<1>2. b \in Blocks(u)
  BY PutIsBlock
<1> HIDE DEF b
<1> TAKE y \in p .. q
<1>3. CASE y < b.first
  BY <1>1, <1>3
<1>4. CASE ~(y < b.first)
  BY <1>1, <1>2, <1>4 DEF InBlock
<1> QED
  BY <1>3, <1>4

\* A session the user defines in the new text is one the user defined in the old.
Owners(t, u, c, found) ==
  \A s : \A y \in Copies(u, s) \cap UserPlaces(u, c, found) :
    \E x \in Copies(t, s) : x \in UserPlaces(t, c, found)

\* No line that comes in defines one.
LEMMA OwnersStay ==
  ASSUME NEW t, NEW u, IsText(t), IsText(u), NEW p, NEW q, NEW n, Swaps(t, u, p, q, n),
         NEW c, NEW found, Spares(t, u, c, found, p, q, n),
         \A y \in p .. p + n - 1 :
           y \in UserPlaces(u, c, found) => u.lines[y].k # "session"
  PROVE  Owners(t, u, c, found)
<1> SUFFICES ASSUME NEW s, NEW y \in Copies(u, s), y \in UserPlaces(u, c, found)
             PROVE  \E x \in Copies(t, s) : x \in UserPlaces(t, c, found)
  BY DEF Owners
<1>1. IsLines(u)
  BY TextFacts
<1>2. y \in 1 .. Len(u.lines) /\ u.lines[y].k = "session"
  BY <1>1, CopyLines
<1>3. y \notin p .. p + n - 1
  BY <1>2
<1>4. PICK x \in Outer(t, p, q) : y = Shift(p, q, n, x)
  BY <1>2, <1>3, OldOrNew
<1>5. x \in Copies(t, s)
  BY <1>4, CopyStays
<1>6. x \in UserPlaces(t, c, found)
  BY <1>4 DEF Spares
<1> QED
  BY <1>5, <1>6

\* A block that is appended.
LEMMA AppendedUser ==
  ASSUME NEW t, NEW u, IsText(t), IsText(u), WellNested(t), NEW n, NEW s, s # Garbled,
         ~Begun(t, s),
         Swaps(t, u, Len(t.lines) + 1, Len(t.lines), n),
         Exact(t, u, Len(t.lines) + 1, Len(t.lines), n),
         PutsBlock(u, Len(t.lines) + 1, Len(t.lines) + 1 + n - 1, s),
         NEW c, NEW found, found => OneDefault(t)
  PROVE  /\ \E m \in 0 .. 1 : Shows(t, u, c, found, m)
         /\ Owners(t, u, c, found)
         /\ WellNested(u) /\ Begun(u, s)
<1> DEFINE L == Len(t.lines)
           k == L + 1
           g == L + 1 + n - 1
<1>1. IsLines(t) /\ IsLines(u) /\ Untouched(t, k, L) /\ L \in Nat
  BY TextFacts, AtTheEnd
<1>2. Fits(t, u, k, L, n) /\ Begun(u, s)
  BY AppendFits
<1>3. WellNested(u)
  BY <1>2, StaysNested
<1>4. k \in Nat /\ g \in Nat /\ k .. g \subseteq 1 .. Len(u.lines)
  <2>1. k \in Nat /\ g \in Nat /\ \A y \in k .. g : y \in 1 .. Len(u.lines)
    BY Shifting
  <2> QED
    BY <2>1
<1>5. PutsBlock(u, k, g, s)
  OBVIOUS
<1> HIDE DEF k, g, L
<1>6. \A y \in k .. g : InBlock(u, y) \/ (y = k /\ u.lines[y] = Blank)
  BY <1>3, <1>4, <1>5, BlockCovers
<1>7. NoMarks(u, k, g)
  <2>1. \A y \in k .. g : u.lines[y].k \notin {"open", "close", "default"}
    BY <1>1, <1>4, <1>5, NewBlock
  <2> QED
    BY <2>1 DEF NoMarks
<1>8. \A y \in k .. g : y \in UserPlaces(u, c, found) => y = k /\ u.lines[y] = Blank
  BY <1>6, PlacesAre DEF InGac
<1>9. Spares(t, u, c, found, k, L, n)
  <2>1. Swaps(t, u, k, L, n) /\ Exact(t, u, k, L, n)
    BY DEF k, L
  <2>2. Legible(t, u, k, L, n)
    BY DEF Legible
  <2>3. SparesDefault(t, u, k, L, n, found)
    <3>1. NoMarks(u, k, k + n - 1)
      BY <1>7 DEF k, g
    <3> QED
      BY <1>1, <3>1 DEF SparesDefault
  <2>4. Given(t, c, found, k, L)
    <3>1. \A x \in k .. L : FALSE
      BY <1>1 DEF k
    <3> QED
      BY <3>1 DEF Given
  <2> QED
    BY <1>2, <2>1, <2>2, <2>3, <2>4, SparesExact
<1>10. \E m \in 0 .. 1 : Shows(t, u, c, found, m)
  BY <1>8, <1>9, UserAppend DEF k, g, L
<1>11. Owners(t, u, c, found)
  <2>1. \A y \in k .. g : y \in UserPlaces(u, c, found) => u.lines[y].k # "session"
    BY <1>8, BlankKind
  <2>2. \A y \in k .. k + n - 1 : y \in UserPlaces(u, c, found) => u.lines[y].k # "session"
    BY <2>1 DEF k, g
  <2>3. Swaps(t, u, k, L, n)
    BY DEF k, L
  <2> QED
    BY <1>9, <2>2, <2>3, OwnersStay
<1> QED
  BY <1>2, <1>3, <1>10, <1>11

\* What a command may rely on: if the default block can be found, it is apart.
Settled(t, found) == found => OneDefault(t) /\ AreApart(t)

\* A block written over the one before it, or appended.
LEMMA UpsertUser ==
  ASSUME NEW t, IsText(t), WellNested(t), NEW s, s # Garbled,
         NEW settings, AreKeys(settings), NEW body, BodyLines(body),
         NEW c, NEW found, Settled(t, found)
  PROVE  FewBlanksAdded(t, Upsert(t, s, Rendered(s, settings, body)), c, found)
<1> DEFINE u == Upsert(t, s, Rendered(s, settings, body))
           b == BlockOf(t, s)
           L == Len(t.lines)
<1>1. CASE HasBlock(t, s)
  <2>1. u = Splice(t, b, Rendered(s, settings, body))
    BY <1>1 DEF Upsert
  <2>2. b \in Blocks(t) /\ b.of = s /\ IsRange(t, b) /\ Begun(t, s)
    BY <1>1, BlockFacts
  <2> HIDE DEF u, b
  <2>3. /\ IsText(u)
        /\ \E n : /\ Swaps(t, u, b.first, b.last, n)
                  /\ PutsBlock(u, b.first, b.first + n - 1, s)
                  /\ Exact(t, u, b.first, b.last, n)
                  /\ \A y \in b.first .. b.first + n - 1 : u.lines[y] # Blank
    BY <2>1, <2>2, SpliceBlock
  <2>4. PICK n : /\ Swaps(t, u, b.first, b.last, n)
                 /\ PutsBlock(u, b.first, b.first + n - 1, s)
                 /\ Exact(t, u, b.first, b.last, n)
                 /\ \A y \in b.first .. b.first + n - 1 : u.lines[y] # Blank
    BY <2>3
  <2>5. /\ Fits(t, u, b.first, b.last, n)
        /\ AreApart(t) => Untouched(t, b.first, b.last)
    BY <2>2, <2>4, BlockFits
  <2> DEFINE p == b.first
             q == b.last
             g == b.first + n - 1
  <2>6. p \in Nat /\ g \in Nat /\ p .. g \subseteq 1 .. Len(u.lines)
    <3>1. p \in Nat /\ g \in Nat /\ \A y \in p .. g : y \in 1 .. Len(u.lines)
      BY <2>4, Shifting
    <3> QED
      BY <3>1
  <2>7. WellNested(u)
    BY <2>4, <2>5, StaysNested
  <2>8. /\ PutsBlock(u, p, g, s) /\ \A y \in p .. g : u.lines[y] # Blank
        /\ Swaps(t, u, p, q, n) /\ Exact(t, u, p, q, n) /\ Fits(t, u, p, q, n)
        /\ AreApart(t) => Untouched(t, p, q)
    BY <2>4, <2>5
  <2>9. \A x \in p .. q : InBlock(t, x)
    BY <2>2 DEF InBlock
  <2>10. g = p + n - 1
    OBVIOUS
  <2> HIDE DEF p, q, g
  <2>11. \A y \in p .. g : InBlock(u, y)
    BY <2>3, <2>6, <2>7, <2>8, BlockCovers
  <2>12. NoMarks(u, p, g)
    <3>1. IsLines(u)
      BY <2>3, TextFacts
    <3>2. \A y \in p .. g : u.lines[y].k \notin {"open", "close", "default"}
      BY <2>6, <2>8, <3>1, NewBlock
    <3> QED
      BY <3>2 DEF NoMarks
  <2>13. Spares(t, u, c, found, p, q, n)
    <3>1. Legible(t, u, p, q, n)
      BY DEF Legible
    <3>2. SparesDefault(t, u, p, q, n, found)
      BY <2>8, <2>10, <2>12 DEF SparesDefault, Settled
    <3>3. Given(t, c, found, p, q)
      BY <2>9 DEF Given, InGac
    <3> QED
      BY <2>3, <2>8, <3>1, <3>2, <3>3, SparesExact
  <2>14. \A y \in p .. p + n - 1 : y \notin UserPlaces(u, c, found)
    BY <2>3, <2>10, <2>11, PlacesAre DEF InGac
  <2>15. Shows(t, u, c, found, 0)
    BY <2>3, <2>8, <2>13, <2>14, UserSwap
  <2> QED
    BY <2>3, <2>15, FewNone DEF u
<1>2. CASE ~HasBlock(t, s)
  <2>1. u = AppendText(t, Rendered(s, settings, body))
    BY <1>2 DEF Upsert
  <2>2. ~Begun(t, s)
    BY <1>2, BlockFacts
  <2> HIDE DEF u
  <2>3. /\ IsText(u)
        /\ \E n : /\ Swaps(t, u, L + 1, L, n) /\ PutsBlock(u, L + 1, L + 1 + n - 1, s)
                  /\ Exact(t, u, L + 1, L, n)
    BY <2>1, AppendBlock
  <2>4. PICK n : /\ Swaps(t, u, L + 1, L, n) /\ PutsBlock(u, L + 1, L + 1 + n - 1, s)
                 /\ Exact(t, u, L + 1, L, n)
    BY <2>3
  <2>5. /\ \E m \in 0 .. 1 : Shows(t, u, c, found, m)
        /\ WellNested(u) /\ Begun(u, s)
    BY <2>2, <2>3, <2>4, AppendedUser DEF Settled
  <2>6. <<s>> \in BlockNames(u) \ BlockNames(t)
    BY <2>2, <2>3, <2>5, NewName
  <2> QED
    BY <2>3, <2>5, <2>6, FewOne DEF u
<1> QED
  BY <1>1, <1>2

\* A session that is appended.
LEMMA AppendSessionUser ==
  ASSUME NEW t, IsText(t), WellNested(t), NEW s, s # Garbled, ~Begun(t, s),
         NEW url, IsSeq(url), NEW region, IsSeq(region),
         NEW c, NEW found, found => OneDefault(t)
  PROVE  LET u == AppendSession(t, s, url, region)
         IN /\ \E m \in 0 .. 1 : Shows(t, u, c, found, m)
            /\ Owners(t, u, c, found)
            /\ IsText(u) /\ WellNested(u) /\ Begun(u, s)
<1> DEFINE L == Len(t.lines)
           body == <<SessionLine(s, url, region, DefaultScope)>>
           u == AppendSession(t, s, url, region)
<1>1. BodyLines(body)
  BY SessionBody, SmallSeqs DEF DefaultScope
<1>2. u = AppendText(t, Rendered(s, <<>>, body))
  BY DEF AppendSession
<1> HIDE DEF u, body
<1>3. /\ IsText(u)
      /\ \E n : /\ Swaps(t, u, L + 1, L, n) /\ PutsBlock(u, L + 1, L + 1 + n - 1, s)
                /\ Exact(t, u, L + 1, L, n)
  BY <1>1, <1>2, SomeKeys, AppendBlock
<1>4. PICK n : /\ Swaps(t, u, L + 1, L, n) /\ PutsBlock(u, L + 1, L + 1 + n - 1, s)
               /\ Exact(t, u, L + 1, L, n)
  BY <1>3
<1>5. /\ \E m \in 0 .. 1 : Shows(t, u, c, found, m)
      /\ Owners(t, u, c, found)
      /\ WellNested(u) /\ Begun(u, s)
  BY <1>3, <1>4, AppendedUser
<1> QED
  BY <1>3, <1>5 DEF u

\* A command that changes nothing.
LEMMA FewItself ==
  ASSUME NEW t, IsText(t), NEW c, NEW found
  PROVE  FewBlanksAdded(t, t, c, found)
BY ShowsItself, FewNone

\* `gac sync` leaves the user's lines as they are.
LEMMA SyncUser ==
  ASSUME NEW t, IsText(t), NEW c, IsCommand(c), c.op = "sync",
         NEW found, WellNested(t) => Settled(t, found)
  PROVE  FewBlanksAdded(t, Sync(t, c), c, found)
<1>1. \A u : u = t => FewBlanksAdded(t, u, c, found)
  BY FewItself
<1>2. ASSUME Sync(t, c) # t
      PROVE  FewBlanksAdded(t, Sync(t, c), c, found)
  BY <1>2, SyncWrites, UpsertUser
<1> QED
  BY <1>1, <1>2

\* `gac setup` leaves the user's lines as they are.
LEMMA SetupUser ==
  ASSUME NEW t, IsText(t), NEW c, IsCommand(c), c.op = "setup",
         NEW found, found => OneDefault(t)
  PROVE  FewBlanksAdded(t, Setup(t, c), c, found)
<1> DEFINE u == AppendSession(t, c.session, <<c.url>>, <<c.region>>)
<1>1. CASE Setup(t, c) = t
  BY <1>1, FewItself
<1>2. CASE Setup(t, c) # t
  <2>1. Setup(t, c) = u /\ Scan(t).ok /\ ~HasBlock(t, c.session)
    BY <1>2 DEF Setup
  <2>2. WellNested(t) /\ ~Begun(t, c.session)
    BY <2>1, BlockFacts
  <2>3. c.session # Garbled
    BY NameAssumption DEF IsCommand
  <2>4. /\ \E m \in 0 .. 1 : Shows(t, u, c, found, m)
        /\ IsText(u) /\ WellNested(u) /\ Begun(u, c.session)
    <3>1. IsSeq(<<c.url>>) /\ IsSeq(<<c.region>>)
      BY SmallSeqs
    <3> QED
      BY <2>2, <2>3, <3>1, AppendSessionUser
  <2> HIDE DEF u
  <2>5. <<c.session>> \in BlockNames(u) \ BlockNames(t)
    BY <2>2, <2>4, NewName
  <2>6. FewBlanksAdded(t, u, c, found)
    BY <2>4, <2>5, FewOne
  <2> QED
    BY <2>1, <2>6
<1> QED
  BY <1>1, <1>2

\* Lines in the place of lines that are shown alike.
LEMMA AlikeUser ==
  ASSUME NEW t, NEW u, IsText(t), IsText(u), Alike(t, u), NEW c,
         NEW found, found => OneDefault(t),
         \A x \in UserPlaces(t, c, found) : Shown(c, u.lines[x]) = Shown(c, t.lines[x])
  PROVE  Shows(t, u, c, found, 0) /\ Owners(t, u, c, found)
<1> DEFINE L == Len(t.lines)
           p == L + 1
<1>1. IsLines(t) /\ L \in Nat /\ UserPlaces(t, c, found) \subseteq 1 .. L
  BY TextFacts, PlacesAre
<1>2. Swaps(t, u, p, L, 0) /\ Fits(t, u, p, L, 0)
  BY AlikeSwaps, AlikeFits
<1>3. Untouched(t, p, L) /\ Outer(t, p, L) = 1 .. L /\ Unmarked(t, p, L)
  BY <1>1, AtTheEnd
<1>4. \A y \in p .. p + 0 - 1 : FALSE
  BY <1>1
<1>5. NoMarks(u, p, p + 0 - 1) /\ Unmarked(u, p, p + 0 - 1)
  BY <1>4 DEF NoMarks, Unmarked
<1>6. \A x \in 1 .. L : Shift(p, L, 0, x) = x
  BY <1>1 DEF Shift
<1> HIDE DEF p, L
<1>7. Legible(t, u, p, L, 0) /\ SparesDefault(t, u, p, L, 0, found)
  BY <1>3, <1>5 DEF Legible, SparesDefault
<1>8. ShownAsBefore(t, u, c, found, p, L, 0)
  BY <1>1, <1>3, <1>6 DEF ShownAsBefore
<1>9. Spares(t, u, c, found, p, L, 0)
  BY <1>2, <1>7, <1>8, SparesWhen
<1>10. Shows(t, u, c, found, 0)
  BY <1>2, <1>4, <1>9, UserSwap
<1>11. Owners(t, u, c, found)
  BY <1>2, <1>4, <1>9, OwnersStay
<1> QED
  BY <1>10, <1>11

\* No line is a mark of the default block, and none of p .. q is a marker at all.
Replaceable(t, p, q) ==
  /\ \A x \in 1 .. Len(t.lines) : t.lines[x].k \notin {"open", "close"}
  /\ \A x \in p .. q : t.lines[x].k \notin {"begin", "end"}

\* Of n lines from p on, the user's can be the first, which is then blank.
AddsBlank(u, c, found, p, n) ==
  \A y \in p .. p + n - 1 :
    y \in UserPlaces(u, c, found) => y = p /\ u.lines[y] = Blank

\* The default block in the place of a line that is no marker.
LEMMA DefaultSpares ==
  ASSUME NEW t, NEW u, IsText(t), IsText(u), NEW p, NEW q, NEW n, NEW o, NEW header,
         PutsDefault(t, u, p, q, n, o, header),
         Replaceable(t, p, q), NEW c, NEW found, found, Given(t, c, found, p, q)
  PROVE  Spares(t, u, c, found, p, q, n) /\ AddsBlank(u, c, found, p, n)
<1> DEFINE g == p + n - 1
<1>1. /\ Swaps(t, u, p, q, n) /\ Exact(t, u, p, q, n)
      /\ o \in p .. g /\ o + 2 \in p .. g
      /\ u.lines[o].k = "open" /\ u.lines[o + 2].k = "close"
      /\ u.lines[o + 1].k = "default"
      /\ \A y \in p .. g : y \notin {o, o + 1, o + 2} => y = p /\ u.lines[y] = Blank
  BY DEF PutsDefault
<1>2. /\ IsLines(t) /\ IsLines(u) /\ p \in Nat /\ q \in Nat /\ n \in Nat /\ g \in Nat
      /\ \A y \in p .. g : y \in 1 .. Len(u.lines)
  BY <1>1, Shifting DEF Swaps
<1>3. ASSUME NEW y \in p .. g
      PROVE  u.lines[y].k \notin {"begin", "end"} /\ (u.lines[y].k = "open" <=> y = o)
             /\ (u.lines[y].k = "close" <=> y = o + 2)
  <2>1. CASE y \in {o, o + 1, o + 2}
    BY <1>1, <1>2, <2>1
  <2>2. CASE y \notin {o, o + 1, o + 2}
    BY <1>1, <2>2, BlankKind
  <2> QED
    BY <2>1, <2>2
<1>4. \A y \in 1 .. Len(u.lines) : /\ u.lines[y].k = "open" <=> y = o
                                   /\ u.lines[y].k = "close" <=> y = o + 2
  <2> TAKE y \in 1 .. Len(u.lines)
  <2>1. CASE y \in p .. g
    BY <1>3, <2>1
  <2>2. CASE y \notin p .. g
    <3>1. PICK x \in Outer(t, p, q) : x \in 1 .. Len(t.lines) /\ Same(t.lines[x], u.lines[y])
      BY <1>1, <2>2, OldOrNew
    <3> QED
      BY <1>1, <2>2, <3>1 DEF Same, Replaceable
  <2> QED
    BY <2>1, <2>2
<1>5. o \in Nat /\ o \in 1 .. Len(u.lines) /\ o + 2 \in 1 .. Len(u.lines)
  BY <1>1, <1>2
<1> HIDE DEF g
<1>6. \A x : Inside(u, x) <=> x \in o .. o + 2
  <2>1. IsManaged(u, o, o + 2)
    <3>1. /\ o < o + 2
          /\ \A x \in 1 .. o - 1 : x \in 1 .. Len(u.lines) /\ x # o
          /\ \A x \in o + 1 .. o + 2 - 1 : x \in 1 .. Len(u.lines) /\ x # o + 2
      BY <1>2, <1>5 DEF IsLines
    <3> QED
      BY <1>1, <1>4, <3>1 DEF IsManaged
  <2>2. \A a, b \in 1 .. Len(u.lines) : IsManaged(u, a, b) => a = o /\ b = o + 2
    BY <1>4 DEF IsManaged
  <2> QED
    BY <1>5, <2>1, <2>2 DEF Inside
<1>7. \A x : ~Inside(t, x)
  BY DEF Inside, IsManaged, Replaceable
<1>8. Unmarked(t, p, q) /\ Unmarked(u, p, g)
  BY <1>3 DEF Unmarked, IsMark, Replaceable
<1>9. Fits(t, u, p, q, n) /\ Legible(t, u, p, q, n)
  BY <1>3, <1>8 DEF Fits, Legible, Balanced, g
<1>10. ASSUME NEW x \in Outer(t, p, q)
       PROVE  InGac(t, found, x) <=> InGac(u, found, Shift(p, q, n, x))
  <2> DEFINE y == Shift(p, q, n, x)
  <2>1. InBlock(t, x) <=> InBlock(u, y)
    BY <1>1, <1>9, InBlockStays
  <2>2. y \in 1 .. Len(u.lines) /\ y \notin p .. g
    BY <1>1, StillThere DEF g
  <2> HIDE DEF y
  <2>3. y \notin o .. o + 2
    BY <1>1, <1>2, <1>5, <2>2 DEF IsLines
  <2> QED
    BY <1>6, <1>7, <2>1, <2>3 DEF InGac, y
<1>11. ShownAsBefore(t, u, c, found, p, q, n)
  BY <1>1, ShownExact
<1>12. Spares(t, u, c, found, p, q, n)
  BY <1>1, <1>10, <1>11, SparesIf
<1>13. ASSUME NEW y \in p .. g, y \in UserPlaces(u, c, found)
       PROVE  y = p /\ u.lines[y] = Blank
  <2>1. y \notin o .. o + 2
    BY <1>6, <1>13, PlacesAre DEF InGac
  <2>2. y \notin {o, o + 1, o + 2}
    BY <1>5, <2>1
  <2> QED
    BY <1>1, <2>2 DEF g
<1> QED
  BY <1>12, <1>13 DEF AddsBlank, g

\* A default block in a text that had none is new.
LEMMA NewDefault ==
  ASSUME NEW t, NEW u, IsText(t), IsText(u), FindDefault(t).ok,
         FindDefault(t).managed = <<>>, OneDefault(u),
         NEW o \in 1 .. Len(u.lines), u.lines[o].k = "open"
  PROVE  <<>> \in BlockNames(u) \ BlockNames(t)
<1>1. IsLines(u)
  BY TextFacts
<1>2. FindDefault(u).ok
  BY <1>1, FindRight
<1>3. FindDefault(u).managed # <<>>
  BY <1>2, NotManaged
<1>4. DefaultRange(t) = {}
  BY DEF DefaultRange, Range
<1>5. DefaultRange(u) # {}
  <2>1. PICK a \in 1 .. Len(u.lines), b \in 1 .. Len(u.lines) :
          FindDefault(u).managed = <<RangeAt(a, b)>>
    BY <1>1, <1>2, <1>3, FindRight
  <2>2. RangeAt(a, b) \in Range(<<RangeAt(a, b)>>)
    BY DEF Range
  <2>3. DefaultRange(u) = Range(<<RangeAt(a, b)>>)
    BY <1>2, <2>1 DEF DefaultRange
  <2> QED
    BY <2>2, <2>3
<1>6. <<>> \in BlockNames(u)
  BY <1>5 DEF BlockNames
<1>7. <<>> \notin BlockNames(t)
  BY <1>4, Singletons DEF BlockNames
<1> QED
  BY <1>6, <1>7

\* The command picks a role or clears it, and has been given the user's [default].
MayWrite(t, c, found) ==
  /\ found
  /\ c.op \in {"select", "clear"}
  /\ FindDefault(t).hand # <<>> => c.op = "select" /\ c.adopt

\* The lines of [default], written as a default block, are all that changes.
LEMMA RewritesUser ==
  ASSUME NEW t, IsText(t), FindDefault(t).ok, NEW ls,
         KeysOnly(DefaultLines(t, FindDefault(t)), ls), NEW u, Rewrites(t, u, ls),
         NEW c, NEW found, MayWrite(t, c, found)
  PROVE  FewBlanksAdded(t, u, c, found)
<1> DEFINE find == FindDefault(t)
           section == DefaultLines(t, find)
           L == Len(t.lines)
<1>1. IsLines(t) /\ OneDefault(t) /\ IsText(u) /\ OneDefault(u)
  BY TextFacts, FindRight, RewritesRetain DEF Retains
<1> USE DEF MayWrite
<1>2. ASSUME NEW a \in 1 .. L, NEW b \in 1 .. L, IsManaged(t, a, b),
             section = SubSeq(t.lines, a + 1, b - 1),
             u = Splice(t, RangeAt(a, b), RenderedDefault(ls))
      PROVE  FewBlanksAdded(t, u, c, found)
  <2>1. Alike(t, u) /\ PutsKeys(t, u, a, b, ls)
    BY <1>2, ManagedKeys
  <2>2. ASSUME NEW x \in UserPlaces(t, c, found)
        PROVE  Shown(c, u.lines[x]) = Shown(c, t.lines[x])
    <3>1. x \in 1 .. L /\ ~Inside(t, x)
      BY <2>2, PlacesAre DEF InGac
    <3>2. x \notin a .. b
      BY <1>2, <3>1 DEF Inside
    <3> QED
      BY <2>1, <3>1, <3>2 DEF PutsKeys
  <2>3. Shows(t, u, c, found, 0)
    BY <1>1, <2>1, <2>2, AlikeUser
  <2> QED
    BY <1>1, <2>3, FewNone
<1>3. ASSUME NEW h \in 1 .. L, find.managed = <<>>, find.hand = <<RangeAt(h, h)>>,
             section = <<t.lines[h]>>, u = Splice(t, RangeAt(h, h), RenderedDefault(ls))
      PROVE  FewBlanksAdded(t, u, c, found)
  <2>1. PutsDefault(t, u, h, h, 3, h, ls[1])
    BY <1>3, HandTakenOver
  <2>2. /\ \A x \in 1 .. L : t.lines[x].k \notin {"open", "close"}
        /\ find.hand # <<>>
    BY <1>3, NotManaged, Singletons
  <2>3. \A x \in h .. h : x = h /\ t.lines[x].k = "default"
    <3>1. PICK g \in 1 .. L : /\ find.hand = <<RangeAt(g, g)>>
                              /\ \A x \in 1 .. L : t.lines[x].k = "default" <=> x = g
      BY <1>3, <2>2, NotManaged
    <3>2. RangeAt(g, g) = RangeAt(h, h)
      BY <1>3, <3>1, Singletons
    <3>3. g = h
      BY <3>2 DEF RangeAt
    <3> QED
      BY <3>1, <3>3
  <2>4. Given(t, c, found, h, h)
    BY <2>2, <2>3 DEF Given, Adopted
  <2>5. Spares(t, u, c, found, h, h, 3) /\ AddsBlank(u, c, found, h, 3)
    <3>1. Replaceable(t, h, h)
      BY <2>2, <2>3 DEF Replaceable
    <3> QED
      BY <1>1, <2>1, <2>4, <3>1, DefaultSpares
  <2>6. u.lines[h].k = "open" /\ Swaps(t, u, h, h, 3)
    BY <2>1 DEF PutsDefault
  <2>7. \A y \in h .. h + 3 - 1 : y \notin UserPlaces(u, c, found)
    BY <2>5, <2>6, BlankKind DEF AddsBlank
  <2>8. Shows(t, u, c, found, 0)
    BY <1>1, <2>5, <2>6, <2>7, UserSwap
  <2> QED
    BY <1>1, <2>8, FewNone
<1>4. ASSUME find.managed = <<>>, find.hand = <<>>,
             section = <<Marked("default", None)>>, u = AppendText(t, RenderedDefault(ls))
      PROVE  FewBlanksAdded(t, u, c, found)
  <2>1. PICK n, o : PutsDefault(t, u, L + 1, L, n, o, ls[1])
    BY <1>4, DefaultAppended
  <2>2. \A x \in 1 .. L : t.lines[x].k \notin {"open", "close"}
    BY <1>4, NotManaged
  <2>3. \A x \in L + 1 .. L : FALSE
    BY <1>1 DEF IsLines
  <2>4. Given(t, c, found, L + 1, L)
    BY <2>3 DEF Given
  <2>5. Spares(t, u, c, found, L + 1, L, n) /\ AddsBlank(u, c, found, L + 1, n)
    <3>1. Replaceable(t, L + 1, L)
      BY <2>2, <2>3 DEF Replaceable
    <3> QED
      BY <1>1, <2>1, <2>4, <3>1, DefaultSpares
  <2>6. Swaps(t, u, L + 1, L, n) /\ o \in L + 1 .. L + 1 + n - 1 /\ u.lines[o].k = "open"
    BY <2>1 DEF PutsDefault
  <2>7. o \in 1 .. Len(u.lines)
    BY <2>6, Shifting
  <2>8. <<>> \in BlockNames(u) \ BlockNames(t)
    BY <1>1, <1>4, <2>6, <2>7, NewDefault
  <2>9. \E m \in 0 .. 1 : Shows(t, u, c, found, m)
    BY <1>1, <2>5, <2>6, UserAppend DEF AddsBlank
  <2> QED
    BY <1>1, <2>8, <2>9, FewOne
<1> HIDE DEF find, section
<1> QED
  BY <1>2, <1>3, <1>4 DEF Rewrites, find, section

-----------------------------------------------------------------------------
(***************************************************************************)
(* The other keys of [default].                                            *)
(***************************************************************************)
LEMMA SetInSame ==
  ASSUME NEW section, AreLines(section), NEW d, NEW key \in d, key # Continued,
         NEW value, IsSeq(value), NEW after
  PROVE  KeysSame(section, SetIn(section, key, value, after), d)
<1> DEFINE holders == Holding(section, {key})
           anchors == Holding(section, after)
           at == CASE holders # {} -> Min(holders)
                   [] holders = {} /\ anchors # {} -> Max(anchors)
                   [] OTHER -> 1
           keys == SetKey(section[at].keys, key, value, after)
<1>1. SetIn(section, key, value, after) = [section EXCEPT ![at] = WithKeys(section[at], keys)]
  BY ZenonT(30) DEF SetIn
<1>2. at \in 1 .. Len(section) => KeysBut(keys, d) = KeysBut(section[at].keys, d)
  <2> DEFINE old == section[at].keys
  <2>1. at \in 1 .. Len(section) => AreKeys(old)
    <3> HIDE DEF at
    <3> QED
      BY DEF AreLines, IsLine
  <2>2. keys = SetKey(old, key, value, after)
    OBVIOUS
  <2> HIDE DEF old, keys, at
  <2>3. at \in 1 .. Len(section) => KeysBut(keys, d) = KeysBut(old, d)
    BY <2>1, <2>2, SetSame
  <2> QED
    BY <2>3 DEF old
<1> HIDE DEF at, keys, holders, anchors
<1>3. KeysSame(section, [section EXCEPT ![at] = WithKeys(section[at], keys)], d)
  BY <1>2, SameOfOne
<1> QED
  BY <1>1, <1>3

\* So does taking one out.
LEMMA RemoveInSame ==
  ASSUME NEW section, AreLines(section), NEW d, NEW key \in d, key # Continued
  PROVE  KeysSame(section, RemoveIn(section, key), d)
<1> DEFINE at == Min(Holding(section, {key}))
           keys == RemoveKey(section[at].keys, key)
<1>1. \/ RemoveIn(section, key) = section
      \/ RemoveIn(section, key) = [section EXCEPT ![at] = WithKeys(section[at], keys)]
  BY DEF RemoveIn
<1>2. at \in 1 .. Len(section) => KeysBut(keys, d) = KeysBut(section[at].keys, d)
  <2> DEFINE old == section[at].keys
  <2>1. at \in 1 .. Len(section) => AreKeys(old)
    <3> HIDE DEF at
    <3> QED
      BY DEF AreLines, IsLine
  <2>2. keys = RemoveKey(old, key)
    OBVIOUS
  <2> HIDE DEF old, keys, at
  <2>3. at \in 1 .. Len(section) => KeysBut(keys, d) = KeysBut(old, d)
    BY <2>1, <2>2, RemoveSame
  <2> QED
    BY <2>3 DEF old
<1> HIDE DEF at, keys
<1>3. KeysSame(section, section, d)
  BY DEF KeysSame
<1>4. KeysSame(section, [section EXCEPT ![at] = WithKeys(section[at], keys)], d)
  BY <1>2, SameOfOne
<1> QED
  BY <1>1, <1>3, <1>4

\* The keys that pick a role.
PickKeys == {"sso_session", "sso_account_id", "sso_role_name"}

\* Picking a role leaves the other keys as they are.
LEMMA PickedSame ==
  ASSUME NEW section, AreLines(section), NEW row, NEW region, AreKeys(region),
         NEW d, PickKeys \subseteq d, region # <<>> => "region" \in d
  PROVE  KeysSame(section, Picked(section, row, region), d)
<1> DEFINE session == SetIn(section, "sso_session", <<row.session>>, {})
           regional == IF region = <<>> THEN session
                       ELSE SetIn(session, "region", Tail(region[1]), {"sso_session"})
           account == SetIn(regional, "sso_account_id", <<row.account.id>>,
                            {"sso_session", "region"})
           role == SetIn(account, "sso_role_name", <<row.role>>, {"sso_account_id"})
<1>1. \A key \in {"sso_session", "region", "sso_account_id", "sso_role_name"} :
        \A old, value, after : AreLines(old) /\ IsSeq(value) =>
          /\ key \in d => KeysSame(old, SetIn(old, key, value, after), d)
          /\ AreLines(SetIn(old, key, value, after))
          /\ Len(SetIn(old, key, value, after)) = Len(old)
  <2> TAKE key \in {"sso_session", "region", "sso_account_id", "sso_role_name"}
  <2>1. key # Continued /\ key \notin {"sso_start_url", "sso_region"}
    BY KeyAssumption
  <2> TAKE old, value, after
  <2> HAVE AreLines(old) /\ IsSeq(value)
  <2>2. key \in d => KeysSame(old, SetIn(old, key, value, after), d)
    BY <2>1, SetInSame
  <2>3. KeysOnly(old, SetIn(old, key, value, after))
    BY <2>1, SetInKeys
  <2> QED
    BY <2>2, <2>3 DEF KeysOnly
<1>2. IsSeq(<<row.session>>) /\ IsSeq(<<row.account.id>>) /\ IsSeq(<<row.role>>)
  BY SmallSeqs
<1>3. Picked(section, row, region) = role
  BY DEF Picked
<1>4. "sso_session" \in d /\ "sso_account_id" \in d /\ "sso_role_name" \in d
  BY DEF PickKeys
<1>5. KeysSame(section, session, d) /\ AreLines(session) /\ Len(session) = Len(section)
  BY <1>1, <1>2, <1>4
<1> HIDE DEF session
<1>6. KeysSame(session, regional, d) /\ AreLines(regional) /\ Len(regional) = Len(session)
  <2>1. CASE region = <<>>
    BY <1>5, <2>1 DEF KeysSame
  <2>2. CASE region # <<>>
    <3>1. IsSeq(Tail(region[1]))
      BY <2>2, FirstWords
    <3> QED
      BY <1>1, <1>5, <2>2, <3>1
  <2> QED
    BY <2>1, <2>2
<1> HIDE DEF regional
<1>7. KeysSame(regional, account, d) /\ AreLines(account) /\ Len(account) = Len(regional)
  BY <1>1, <1>2, <1>4, <1>6
<1> HIDE DEF account
<1>8. KeysSame(account, role, d)
  BY <1>1, <1>2, <1>4, <1>7
<1> HIDE DEF role
<1>9. KeysSame(section, regional, d)
  BY <1>5, <1>6, SameTwice
<1>10. KeysSame(section, account, d)
  BY <1>5, <1>6, <1>7, <1>9, SameTwice
<1>11. KeysSame(section, role, d)
  BY <1>5, <1>6, <1>7, <1>8, <1>10, SameTwice
<1> QED
  BY <1>3, <1>11

\* Clearing the role does.
LEMMA UnpickedSame ==
  ASSUME NEW section, AreLines(section), NEW d, PickKeys \subseteq d
  PROVE  KeysSame(section, Unpicked(section), d)
<1> DEFINE once == RemoveIn(section, "sso_account_id")
           twice == RemoveIn(once, "sso_role_name")
<1>1. \A key \in {"sso_account_id", "sso_role_name"} :
        key # Continued /\ key \notin {"sso_start_url", "sso_region"} /\ key \in d
  BY KeyAssumption DEF PickKeys
<1>2. KeysSame(section, once, d) /\ KeysOnly(section, once)
  BY <1>1, RemoveInSame, RemoveInKeys
<1> HIDE DEF once
<1>3. AreLines(once) /\ Len(once) = Len(section)
  BY <1>2 DEF KeysOnly
<1>4. KeysSame(once, twice, d)
  BY <1>1, <1>3, RemoveInSame
<1> HIDE DEF twice
<1>5. KeysSame(section, twice, d)
  BY <1>2, <1>3, <1>4, SameTwice
<1> QED
  BY <1>5 DEF Unpicked, twice, once

\* The default block is put where no other line is [default].
LEMMA OneHeader ==
  ASSUME NEW t, NEW u, IsText(t), IsText(u), NEW p, NEW q, NEW n, NEW o, NEW header,
         PutsDefault(t, u, p, q, n, o, header),
         \A x \in Outer(t, p, q) : t.lines[x].k # "default", NEW d
  PROVE  DefaultKeys(u, d) = KeysBut(header.keys, d)
<1> DEFINE g == p + n - 1
<1>1. /\ Swaps(t, u, p, q, n) /\ o \in p .. g /\ o + 2 \in p .. g
      /\ u.lines[o].k = "open" /\ u.lines[o + 2].k = "close"
      /\ u.lines[o + 1] = header /\ header.k = "default"
      /\ \A y \in p .. g : y \notin {o, o + 1, o + 2} => y = p /\ u.lines[y] = Blank
  BY DEF PutsDefault
<1>2. /\ p \in Nat /\ g \in Nat /\ \A y \in p .. g : y \in 1 .. Len(u.lines)
  BY <1>1, Shifting
<1>3. o + 1 \in 1 .. Len(u.lines)
  <2>1. o + 1 \in p .. g
    BY <1>1, <1>2
  <2> HIDE DEF g
  <2> QED
    BY <1>2, <2>1
<1>4. \A y \in 1 .. Len(u.lines) : y # o + 1 => u.lines[y].k # "default"
  <2> TAKE y \in 1 .. Len(u.lines)
  <2> HAVE y # o + 1
  <2>1. CASE y \in p .. g
    <3>1. CASE y \in {o, o + 2}
      BY <1>1, <3>1
    <3>2. CASE y \notin {o, o + 2}
      BY <1>1, <2>1, <3>2, BlankKind
    <3> QED
      BY <3>1, <3>2
  <2>2. CASE y \notin p .. g
    <3>1. PICK x \in Outer(t, p, q) : x \in 1 .. Len(t.lines) /\ Same(t.lines[x], u.lines[y])
      BY <1>1, <2>2, OldOrNew
    <3> QED
      BY <3>1 DEF Same
  <2> QED
    BY <2>1, <2>2
<1> DEFINE j == o + 1
<1> HIDE DEF g, j
<1>5. j \in 1 .. Len(u.lines) /\ u.lines[j] = header
  BY <1>1, <1>3 DEF j
<1>6. \A i \in 1 .. Len(u.lines) : i # j => u.lines[i].k # "default"
  BY <1>4 DEF j
<1>7. u.lines[j].k = "default"
  BY <1>1, <1>5
<1>8. DefaultKeys(u, d) = KeysBut(u.lines[j].keys, d)
  BY <1>5, <1>6, <1>7, OwnOfOne
<1> QED
  BY <1>5, <1>8

\* [default] keeps its other keys where it is written.
LEMMA RewritesOwn ==
  ASSUME NEW t, IsText(t), FindDefault(t).ok, NEW ls, NEW d,
         KeysOnly(DefaultLines(t, FindDefault(t)), ls),
         KeysSame(DefaultLines(t, FindDefault(t)), ls, d), NEW u, Rewrites(t, u, ls)
  PROVE  DefaultKeys(u, d) = DefaultKeys(t, d)
<1> DEFINE find == FindDefault(t)
           section == DefaultLines(t, find)
           L == Len(t.lines)
<1>1. IsLines(t) /\ IsText(u) /\ L \in Nat
  BY TextFacts, RewritesRetain DEF Retains
<1>2. ASSUME NEW a \in 1 .. L, NEW b \in 1 .. L, IsManaged(t, a, b),
             section = SubSeq(t.lines, a + 1, b - 1),
             u = Splice(t, RangeAt(a, b), RenderedDefault(ls))
      PROVE  DefaultKeys(u, d) = DefaultKeys(t, d)
  <2>1. Alike(t, u) /\ PutsKeys(t, u, a, b, ls)
    BY <1>2, ManagedKeys
  <2>2. \A i \in 1 .. Len(section) : section[i] = t.lines[a + i]
    <3>1. IsSeq(t.lines) /\ a + 1 \in Nat \ {0} /\ b - 1 \in 0 .. L /\ a + 1 <= b - 1 + 1
      BY <1>1, <1>2, TextFacts DEF IsManaged
    <3>2. /\ Len(section) = b - 1 - (a + 1) + 1
          /\ \A i \in 1 .. b - 1 - (a + 1) + 1 : section[i] = t.lines[a + 1 + i - 1]
      BY <1>2, <3>1, PartFacts
    <3>3. \A i \in 1 .. b - 1 - (a + 1) + 1 : a + 1 + i - 1 = a + i
      BY <3>1
    <3> QED
      BY <3>2, <3>3
  <2>3. Len(ls) = Len(section) /\ Len(ls) = b - a - 1
    BY <2>1 DEF PutsKeys, KeysOnly
  <2>4. ASSUME NEW x \in 1 .. L
        PROVE  OwnLine(u.lines[x], d) = OwnLine(t.lines[x], d)
    <3>1. u.lines[x].k = t.lines[x].k
      BY <2>1 DEF Alike, Same
    <3>2. CASE x \notin a .. b
      BY <2>1, <2>4, <3>2 DEF PutsKeys
    <3>3. CASE x = a \/ x = b
      BY <1>2, <3>1, <3>3 DEF IsManaged, OwnLine
    <3>4. CASE x \in a .. b /\ x # a /\ x # b
      <4> DEFINE i == x - a
      <4>1. x \in a + 1 .. b - 1 /\ i \in 1 .. Len(section) /\ a + i = x
        BY <1>1, <2>3, <3>4
      <4> HIDE DEF i, section
      <4>2. u.lines[x] = ls[i] /\ t.lines[x] = section[i]
        BY <2>1, <2>2, <4>1 DEF PutsKeys, i
      <4>3. KeysBut(ls[i].keys, d) = KeysBut(section[i].keys, d)
        BY <4>1 DEF KeysSame, section
      <4> QED
        BY <3>1, <4>2, <4>3 DEF OwnLine
    <3> QED
      BY <3>2, <3>3, <3>4
  <2>5. Len(u.lines) = Len(t.lines)
    BY <2>1 DEF Alike
  <2> QED
    BY <1>1, <2>4, <2>5, OwnAlike
<1>3. ASSUME NEW h \in 1 .. L, find.managed = <<>>, find.hand = <<RangeAt(h, h)>>,
             section = <<t.lines[h]>>, u = Splice(t, RangeAt(h, h), RenderedDefault(ls))
      PROVE  DefaultKeys(u, d) = DefaultKeys(t, d)
  <2>1. PutsDefault(t, u, h, h, 3, h, ls[1])
    BY <1>3, HandTakenOver
  <2>2. \A x \in 1 .. L : t.lines[x].k = "default" <=> x = h
    <3>1. find.hand # <<>>
      BY <1>3, Singletons
    <3>2. PICK g \in 1 .. L : /\ find.hand = <<RangeAt(g, g)>>
                              /\ \A x \in 1 .. L : t.lines[x].k = "default" <=> x = g
      BY <1>3, <3>1, NotManaged
    <3>3. RangeAt(g, g) = RangeAt(h, h)
      BY <1>3, <3>2, Singletons
    <3>4. g = h
      BY <3>3 DEF RangeAt
    <3> QED
      BY <3>2, <3>4
  <2>3. \A x \in Outer(t, h, h) : t.lines[x].k # "default"
    BY <1>1, <2>2 DEF Outer
  <2>4. DefaultKeys(u, d) = KeysBut(ls[1].keys, d)
    BY <1>1, <2>1, <2>3, OneHeader
  <2>5. DefaultKeys(t, d) = KeysBut(t.lines[h].keys, d)
    BY <2>2, OwnOfOne
  <2>6. Len(section) = 1 /\ section[1] = t.lines[h]
    BY <1>3, SmallSeqs
  <2>7. KeysBut(ls[1].keys, d) = KeysBut(t.lines[h].keys, d)
    <3>1. KeysSame(section, ls, d)
      OBVIOUS
    <3> HIDE DEF section
    <3> QED
      BY <2>6, <3>1 DEF KeysSame
  <2> QED
    BY <2>4, <2>5, <2>7
<1>4. ASSUME find.managed = <<>>, find.hand = <<>>,
             section = <<Marked("default", None)>>, u = AppendText(t, RenderedDefault(ls))
      PROVE  DefaultKeys(u, d) = DefaultKeys(t, d)
  <2>1. PICK n, o : PutsDefault(t, u, L + 1, L, n, o, ls[1])
    BY <1>4, DefaultAppended
  <2>2. \A x \in 1 .. L : t.lines[x].k # "default"
    BY <1>4, NotManaged
  <2>3. \A x \in Outer(t, L + 1, L) : t.lines[x].k # "default"
    BY <2>2 DEF Outer
  <2>4. DefaultKeys(u, d) = KeysBut(ls[1].keys, d)
    BY <1>1, <2>1, <2>3, OneHeader
  <2>5. DefaultKeys(t, d) = <<>>
    BY <2>2, OwnOfNone
  <2>6. Len(section) = 1 /\ section[1].keys = <<>>
    BY <1>4, SmallSeqs DEF Marked, Section
  <2>7. KeysBut(ls[1].keys, d) = KeysBut(<<>>, d)
    <3>1. KeysSame(section, ls, d)
      OBVIOUS
    <3> HIDE DEF section
    <3> QED
      BY <2>6, <3>1 DEF KeysSame
  <2> QED
    BY <2>4, <2>5, <2>7, NoKeysBut
<1> HIDE DEF find, section
<1> QED
  BY <1>2, <1>3, <1>4 DEF Rewrites, find, section

\* Every line of [default] is among the lines that gac takes for the section.
LEMMA DefaultInSection ==
  ASSUME NEW t, IsText(t), FindDefault(t).ok, NEW ls, NEW u, Rewrites(t, u, ls),
         NEW x \in 1 .. Len(t.lines), t.lines[x].k = "default"
  PROVE  LET section == DefaultLines(t, FindDefault(t))
         IN \E i \in 1 .. Len(section) : section[i] = t.lines[x]
<1> DEFINE find == FindDefault(t)
           section == DefaultLines(t, find)
           L == Len(t.lines)
<1>1. IsLines(t) /\ OneDefault(t) /\ L \in Nat
  BY TextFacts, FindRight
<1>2. ASSUME NEW a \in 1 .. L, NEW b \in 1 .. L, IsManaged(t, a, b),
             section = SubSeq(t.lines, a + 1, b - 1)
      PROVE  \E i \in 1 .. Len(section) : section[i] = t.lines[x]
  <2>1. Inside(t, x)
    BY <1>1, <1>2, DefaultOnce
  <2>2. x \in a .. b
    BY <1>1, <1>2, <2>1, OneBlock DEF Inside
  <2>3. x # a /\ x # b
    BY <1>2 DEF IsManaged
  <2>4. IsSeq(t.lines) /\ a + 1 \in Nat \ {0} /\ b - 1 \in 0 .. L /\ a + 1 <= b - 1 + 1
    BY <1>1, <1>2, TextFacts DEF IsManaged
  <2>5. /\ Len(section) = b - 1 - (a + 1) + 1
        /\ \A i \in 1 .. b - 1 - (a + 1) + 1 : section[i] = t.lines[a + 1 + i - 1]
    BY <1>2, <2>4, PartFacts
  <2> DEFINE i == x - a
  <2>6. i \in 1 .. b - 1 - (a + 1) + 1 /\ a + 1 + i - 1 = x
    BY <1>1, <2>2, <2>3, <2>4
  <2> HIDE DEF i, section
  <2> QED
    BY <2>5, <2>6
<1>3. ASSUME NEW h \in 1 .. L, find.managed = <<>>, find.hand = <<RangeAt(h, h)>>,
             section = <<t.lines[h]>>
      PROVE  \E i \in 1 .. Len(section) : section[i] = t.lines[x]
  <2>1. find.hand # <<>>
    BY <1>3, Singletons
  <2>2. PICK g \in 1 .. L : /\ find.hand = <<RangeAt(g, g)>>
                            /\ \A y \in 1 .. L : t.lines[y].k = "default" <=> y = g
    BY <1>3, <2>1, NotManaged
  <2>3. RangeAt(g, g) = RangeAt(h, h)
    BY <1>3, <2>2, Singletons
  <2>4. x = h
    BY <2>2, <2>3 DEF RangeAt
  <2>5. Len(section) = 1 /\ section[1] = t.lines[x]
    BY <1>3, <2>4, SmallSeqs
  <2> QED
    BY <2>5
<1>4. ASSUME find.managed = <<>>, find.hand = <<>>
      PROVE  FALSE
  BY <1>4, NotManaged
<1> HIDE DEF find, section
<1> QED
  BY <1>2, <1>3, <1>4 DEF Rewrites, find, section

\* The region that select writes is one [default] does not have.
LEMMA RegionIsNew ==
  ASSUME NEW t, IsText(t), FindDefault(t).ok, NEW ls, NEW u, Rewrites(t, u, ls),
         Holding(DefaultLines(t, FindDefault(t)), {"region"}) = {}
  PROVE  ~Has(SectionKeys(t, "default", None), "region")
<1> DEFINE n == Len(t.lines)
           section == DefaultLines(t, FindDefault(t))
           part(i) == IF Defines(t.lines[i], {"default"}, None) THEN t.lines[i].keys ELSE <<>>
           parts == [i \in 1 .. n |-> part(i)]
<1>1. n \in Nat /\ DOMAIN t.lines = 1 .. n /\ \A i \in 1 .. n : IsLine(t.lines[i])
  BY SeqFacts DEF IsText, AreLines
<1>2. \A i \in 1 .. n : AreKeys(part(i))
  BY <1>1, SomeKeys DEF IsLine
<1>3. SectionKeys(t, "default", None) = FlattenSeq(parts)
  BY <1>1 DEF SectionKeys
<1>4. AreLines(section)
  BY RewritesWhere
<1>5. \A i \in 1 .. n : \A j \in 1 .. Len(part(i)) : part(i)[j][1] # "region"
  <2> TAKE i \in 1 .. n
  <2> TAKE j \in 1 .. Len(part(i))
  <2>1. CASE ~Defines(t.lines[i], {"default"}, None)
    <3>1. Len(part(i)) = 0
      BY <2>1
    <3> QED
      BY <3>1
  <2>2. CASE Defines(t.lines[i], {"default"}, None)
    <3>1. t.lines[i].k = "default" /\ part(i) = t.lines[i].keys
      BY <2>2 DEF Defines
    <3> DEFINE keys == t.lines[i].keys
    <3>2. PICK m \in 1 .. Len(section) : section[m] = t.lines[i]
      BY <3>1, DefaultInSection
    <3>3. DOMAIN section = 1 .. Len(section)
      BY <1>4, SeqFacts DEF AreLines
    <3> HIDE DEF section
    <3>4. ~Has(keys, "region")
      BY <3>1, <3>2, <3>3 DEF Holding, section
    <3>5. DOMAIN keys = 1 .. Len(keys)
      BY <1>1, SeqFacts DEF IsLine, AreKeys
    <3>6. j \in DOMAIN keys
      BY <3>1, <3>5
    <3> HIDE DEF part
    <3> QED
      BY <3>1, <3>4, <3>6 DEF Has, Positions
  <2> QED
    BY <2>1, <2>2
<1> HIDE DEF part, n
<1>6. parts = [i \in 1 .. n |-> parts[i]] /\ \A i \in 1 .. n : parts[i] = part(i)
  OBVIOUS
<1> HIDE DEF parts
<1>7. PICK S : parts \in Seq(Seq(S)) /\ \A l \in S : IsKeyLine(l)
  BY <1>1, <1>2, <1>6, KeyParts
<1> DEFINE T == {l \in S : l[1] # "region"}
<1>8. \A i \in 1 .. n : parts[i] \in Seq(T)
  <2> TAKE i \in 1 .. n
  <2> DEFINE s == parts[i]
  <2>1. DOMAIN parts = 1 .. n
    BY <1>6
  <2>2. s \in Seq(S)
    <3> DEFINE Q == Seq(S)
    <3>1. parts \in Seq(Q)
      BY <1>7
    <3> HIDE DEF Q
    <3>2. \A m \in DOMAIN parts : parts[m] \in Q
      BY <3>1
    <3>3. s \in Q
      BY <2>1, <3>2
    <3> QED
      BY <3>3 DEF Q
  <2>3. \A j \in 1 .. Len(s) : s[j][1] # "region"
    BY <1>5, <1>6
  <2> HIDE DEF s
  <2>4. Len(s) \in Nat /\ s = [j \in 1 .. Len(s) |-> s[j]] /\ \A j \in 1 .. Len(s) : s[j] \in S
    BY <2>2
  <2>5. \A j \in 1 .. Len(s) : s[j] \in T
    BY <2>3, <2>4
  <2> HIDE DEF T
  <2>6. s \in [1 .. Len(s) -> T]
    BY <2>4, <2>5
  <2>7. s \in Seq(T)
    BY <2>4, <2>6
  <2> QED
    BY <2>7 DEF s
<1> HIDE DEF T
<1>9. parts \in Seq(Seq(T))
  <2> DEFINE Q == Seq(T)
  <2> HIDE DEF Q
  <2>1. parts \in [1 .. n -> Q]
    BY <1>6, <1>8 DEF Q
  <2>2. parts \in Seq(Q)
    BY <1>1, <2>1
  <2> QED
    BY <2>2 DEF Q
<1>10. FlattenSeq(parts) \in Seq(T)
  BY <1>9, FlattenTyped
<1> DEFINE flat == FlattenSeq(parts)
<1> HIDE DEF flat
<1>11. \A i \in DOMAIN flat : flat[i] \in T
  BY <1>10 DEF flat
<1>12. \A i \in DOMAIN flat : flat[i][1] # "region"
  BY <1>11 DEF T
<1> QED
  BY <1>3, <1>12 DEF Has, Positions, flat

\* What a command that picks or clears a role may rely on.
Keeps(t, u, c, found) == FewBlanksAdded(t, u, c, found) /\ OwnKeys(t, u) = OwnKeys(t, t)

\* What OwnKeys leaves out, as one set of keys.
LEMMA OwnIs ==
  ASSUME NEW t
  PROVE  \E d : /\ PickKeys \subseteq d
                /\ ~Has(SectionKeys(t, "default", None), "region") => "region" \in d
                /\ \A u : OwnKeys(t, u) = DefaultKeys(u, d)
<1> DEFINE d == {"sso_session", "sso_account_id", "sso_role_name"}
                  \cup IF Has(SectionKeys(t, "default", None), "region") THEN {}
                       ELSE {"region"}
<1>1. PickKeys \subseteq d
  BY DEF PickKeys
<1>2. ~Has(SectionKeys(t, "default", None), "region") => "region" \in d
  OBVIOUS
<1>3. \A u : OwnKeys(t, u) = DefaultKeys(u, d)
  BY DEF OwnKeys, DefaultKeys, OwnLine
<1> HIDE DEF d
<1> QED
  BY <1>1, <1>2, <1>3

\* `gac select` leaves the user's lines as they are, and the other keys of [default].
LEMMA SelectUser ==
  ASSUME NEW t, IsText(t), NEW c, c.op = "select", NEW found, found => FindDefault(t).ok,
         FindDefault(t).ok => found
  PROVE  Keeps(t, Select(t, c), c, found)
<1>1. CASE Select(t, c) = t
  BY <1>1, FewItself DEF Keeps
<1>2. CASE Select(t, c) # t
  <2> DEFINE section == DefaultLines(t, FindDefault(t))
             u == Select(t, c)
  <2>1. /\ MaySelect(t, c, FindDefault(t), Chosen(t, c))
        /\ \E row : LET ls == Picked(section, row, RegionLines(t, section, row.session))
                    IN KeysOnly(section, ls) /\ Rewrites(t, u, ls)
    BY <1>2, SelectIs
  <2>2. FindDefault(t).ok /\ (FindDefault(t).hand # <<>> => c.adopt)
    BY <2>1 DEF MaySelect
  <2>3. PICK row : LET ls == Picked(section, row, RegionLines(t, section, row.session))
                   IN KeysOnly(section, ls) /\ Rewrites(t, u, ls)
    BY <2>1
  <2> DEFINE region == RegionLines(t, section, row.session)
             ls == Picked(section, row, region)
  <2>4. KeysOnly(section, ls) /\ Rewrites(t, u, ls) /\ AreLines(section)
    BY <2>2, <2>3, RewritesWhere
  <2>5. PICK d : /\ PickKeys \subseteq d
                 /\ ~Has(SectionKeys(t, "default", None), "region") => "region" \in d
                 /\ \A v : OwnKeys(t, v) = DefaultKeys(v, d)
    BY OwnIs
  <2>6. AreKeys(region)
    BY HeaderTyped, LinesOfTyped, SomeKeys DEF RegionLines
  <2>7. region # <<>> => Holding(section, {"region"}) = {}
    BY DEF RegionLines
  <2> HIDE DEF u, region
  <2>8. region # <<>> => "region" \in d
    <3> HIDE DEF ls
    <3> QED
      BY <2>2, <2>4, <2>5, <2>7, RegionIsNew
  <2>9. KeysSame(section, ls, d)
    <3> HIDE DEF section
    <3> QED
      BY <2>4, <2>5, <2>6, <2>8, PickedSame
  <2> HIDE DEF ls
  <2>10. FewBlanksAdded(t, u, c, found)
    <3>1. MayWrite(t, c, found)
      BY <2>2 DEF MayWrite
    <3> QED
      BY <2>2, <2>4, <3>1, RewritesUser
  <2>11. DefaultKeys(u, d) = DefaultKeys(t, d)
    BY <2>2, <2>4, <2>9, RewritesOwn
  <2> QED
    BY <2>5, <2>10, <2>11 DEF Keeps, u
<1> QED
  BY <1>1, <1>2

\* So does `gac select --clear`.
LEMMA ClearUser ==
  ASSUME NEW t, IsText(t), NEW c, c.op = "clear", NEW found, found => FindDefault(t).ok,
         FindDefault(t).ok => found
  PROVE  Keeps(t, Clear(t), c, found)
<1>1. CASE Clear(t) = t
  BY <1>1, FewItself DEF Keeps
<1>2. CASE Clear(t) # t
  <2> DEFINE section == DefaultLines(t, FindDefault(t))
             ls == Unpicked(section)
             u == Clear(t)
  <2>1. /\ FindDefault(t).ok /\ FindDefault(t).managed # <<>> /\ AreLines(section)
        /\ KeysOnly(section, ls) /\ Rewrites(t, u, ls)
    BY <1>2, ClearIs
  <2>2. FindDefault(t).hand = <<>>
    BY <2>1, TextFacts, FindRight
  <2>3. PICK d : /\ PickKeys \subseteq d
                 /\ \A v : OwnKeys(t, v) = DefaultKeys(v, d)
    BY OwnIs
  <2> HIDE DEF u
  <2>4. KeysSame(section, ls, d)
    <3> HIDE DEF section
    <3> QED
      BY <2>1, <2>3, UnpickedSame
  <2> HIDE DEF ls
  <2>5. FewBlanksAdded(t, u, c, found)
    <3>1. MayWrite(t, c, found)
      BY <2>1, <2>2 DEF MayWrite
    <3> QED
      BY <2>1, <3>1, RewritesUser
  <2>6. DefaultKeys(u, d) = DefaultKeys(t, d)
    BY <2>1, <2>4, RewritesOwn
  <2> QED
    BY <2>3, <2>5, <2>6 DEF Keeps, u
<1> QED
  BY <1>1, <1>2

-----------------------------------------------------------------------------
(***************************************************************************)
(* `gac doctor --fix` and the user's lines.                                *)
(***************************************************************************)
\* Blank lines after blank lines.
LEMMA MoreBlanks ==
  ASSUME NEW a, IsSeq(a), NEW k \in Nat, NEW m \in 0 .. 1
  PROVE  (a \o Blanks(k)) \o Blanks(m) = a \o Blanks(k + m)
<1>1. CASE m = 0
  <2> DEFINE b == a \o Blanks(k)
  <2>1. IsSeq(Blanks(k))
    <3>1. Blanks(k) \in [1 .. k -> {Blank}]
      BY DEF Blanks
    <3>2. Blanks(k) \in Seq({Blank})
      BY <3>1
    <3> QED
      BY <3>2, SeqOfAnything
  <2>2. IsSeq(b)
    BY <2>1, ConcatAt
  <2> HIDE DEF b
  <2>3. b \o <<>> = b
    BY <2>2, ConcatNothing
  <2>4. k + m = k /\ Blanks(m) = <<>>
    BY <1>1, FewBlanks
  <2> QED
    BY <2>3, <2>4 DEF b
<1>2. CASE m = 1
  <2> DEFINE S == Range(a) \cup {Blank}
  <2>1. a \in Seq(Range(a))
    BY DEF IsSeq
  <2>2. a \in Seq(S)
    BY <2>1
  <2>3. Blank \in S
    OBVIOUS
  <2> HIDE DEF S
  <2>4. Blanks(k) \in Seq(S) /\ Len(Blanks(k)) = k /\ Blanks(k + 1) \in Seq(S)
    <3>1. ASSUME NEW j \in Nat
          PROVE  Blanks(j) \in Seq(S) /\ Len(Blanks(j)) = j
      <4>1. Blanks(j) \in [1 .. j -> S]
        BY <2>3 DEF Blanks
      <4>2. DOMAIN Blanks(j) = 1 .. j
        BY DEF Blanks
      <4> HIDE DEF Blanks
      <4> QED
        BY <4>1, <4>2
    <3>2. k + 1 \in Nat
      OBVIOUS
    <3> HIDE DEF Blanks
    <3> QED
      BY <3>1, <3>2
  <2>5. Blanks(k) \o <<Blank>> = Blanks(k + 1)
    <3>1. \A i \in 1 .. k : Blanks(k)[i] = Blank
      BY DEF Blanks
    <3>2. Blanks(k + 1) = [i \in 1 .. k + 1 |-> Blank]
      BY DEF Blanks
    <3> HIDE DEF Blanks
    <3> DEFINE b == Blanks(k)
    <3> HIDE DEF b
    <3>3. b \in Seq(S) /\ Len(b) = k /\ \A i \in 1 .. k : b[i] = Blank
      BY <2>4, <3>1 DEF b
    <3>4. b \o <<Blank>> = [i \in 1 .. k + 1 |-> Blank]
      BY ONLY <2>3, <3>3, k \in Nat
    <3> QED
      BY <3>2, <3>4 DEF b
  <2>6. <<Blank>> \in Seq(S)
    BY <2>3
  <2>7. (a \o Blanks(k)) \o <<Blank>> = a \o (Blanks(k) \o <<Blank>>)
    BY <2>2, <2>4, <2>6, ConcatAssociative
  <2>8. Blanks(m) = <<Blank>> /\ k + m = k + 1
    BY <1>2, FewBlanks
  <2> QED
    BY <2>5, <2>7, <2>8
<1>3. m = 0 \/ m = 1
  OBVIOUS
<1> HIDE DEF Blanks
<1> QED
  BY <1>1, <1>2, <1>3

\* Two changes that add blank lines.
LEMMA ShowsOn ==
  ASSUME NEW t, IsText(t), NEW v, NEW u, NEW c, NEW found, NEW k \in Nat, NEW m \in 0 .. 1,
         Shows(t, v, c, found, k), Shows(v, u, c, found, m)
  PROVE  Shows(t, u, c, found, k + m)
<1> DEFINE a == UserLines(t, c, found)
<1>1. IsSeq(a)
  BY UserTyped
<1>2. UserLines(u, c, found) = (a \o Blanks(k)) \o Blanks(m)
  BY DEF Shows
<1> HIDE DEF a
<1>3. (a \o Blanks(k)) \o Blanks(m) = a \o Blanks(k + m)
  BY <1>1, MoreBlanks
<1> QED
  BY <1>2, <1>3 DEF Shows, a

\* Two changes that define no session for the user.
LEMMA OwnersOn ==
  ASSUME NEW t, NEW v, NEW u, NEW c, NEW found, Owners(t, v, c, found), Owners(v, u, c, found)
  PROVE  Owners(t, u, c, found)
<1> SUFFICES ASSUME NEW s, NEW y \in Copies(u, s), y \in UserPlaces(u, c, found)
             PROVE  \E x \in Copies(t, s) : x \in UserPlaces(t, c, found)
  BY DEF Owners
<1>1. PICK z \in Copies(v, s) : z \in UserPlaces(v, c, found)
  BY DEF Owners
<1> QED
  BY <1>1 DEF Owners

\* Nothing of the user's changes.
LeavesUser(t, u, c, found) == Shows(t, u, c, found, 0) /\ Owners(t, u, c, found)

\* A text that stays as it is.
LEMMA LeavesItself ==
  ASSUME NEW t, IsText(t), NEW c, NEW found
  PROVE  LeavesUser(t, t, c, found)
BY ShowsItself DEF LeavesUser, Owners

\* A block is taken out.
LEMMA RemoveUser ==
  ASSUME NEW t, IsText(t), WellNested(t), NEW s, NEW c, NEW found, Settled(t, found)
  PROVE  LeavesUser(t, RemoveBlock(t, s), c, found)
<1> DEFINE u == RemoveBlock(t, s)
           b == BlockOf(t, s)
<1>1. CASE HasBlock(t, s)
  <2>1. b \in Blocks(t) /\ IsRange(t, b)
    BY <1>1, BlockFacts
  <2>2. u = Without(t, b)
    BY <1>1 DEF RemoveBlock
  <2> HIDE DEF b, u
  <2>3. /\ IsText(u) /\ Swaps(t, u, b.first, b.last, 0)
        /\ Exact(t, u, b.first, b.last, 0)
    BY <2>1, <2>2, WithoutSwaps
  <2>4. /\ Fits(t, u, b.first, b.last, 0)
        /\ AreApart(t) => Untouched(t, b.first, b.last)
    BY <2>1, <2>3, BlockFits
  <2> DEFINE p == b.first
             q == b.last
  <2>5. /\ Swaps(t, u, p, q, 0) /\ Exact(t, u, p, q, 0) /\ Fits(t, u, p, q, 0)
        /\ AreApart(t) => Untouched(t, p, q)
    BY <2>3, <2>4
  <2>6. \A x \in p .. q : InBlock(t, x)
    BY <2>1 DEF InBlock
  <2> HIDE DEF p, q
  <2>7. \A y \in p .. p + 0 - 1 : FALSE
    <3>1. p \in Nat
      BY <2>5, Shifting
    <3> QED
      BY <3>1
  <2>8. Legible(t, u, p, q, 0)
    BY DEF Legible
  <2>9. SparesDefault(t, u, p, q, 0, found)
    BY <2>5, <2>7 DEF SparesDefault, Settled, NoMarks
  <2>10. Given(t, c, found, p, q)
    BY <2>6 DEF Given, InGac
  <2>11. Spares(t, u, c, found, p, q, 0)
    BY <2>3, <2>5, <2>8, <2>9, <2>10, SparesExact
  <2>12. Shows(t, u, c, found, 0)
    BY <2>3, <2>5, <2>7, <2>11, UserSwap
  <2>13. Owners(t, u, c, found)
    BY <2>3, <2>5, <2>7, <2>11, OwnersStay
  <2> QED
    BY <2>12, <2>13 DEF LeavesUser, u
<1>2. CASE ~HasBlock(t, s)
  BY <1>2, LeavesItself DEF RemoveBlock
<1> QED
  BY <1>1, <1>2

\* Lines with other keys, of which what is shown stays.
LEMMA KeysUser ==
  ASSUME NEW t, IsText(t), NEW u, IsText(u), Alike(t, u), NEW c,
         NEW found, found => OneDefault(t),
         \A x \in UserPlaces(t, c, found) : Shown(c, u.lines[x]) = Shown(c, t.lines[x])
  PROVE  LeavesUser(t, u, c, found)
<1>1. Shows(t, u, c, found, 0) /\ Owners(t, u, c, found)
  BY AlikeUser
<1> QED
  BY <1>1 DEF LeavesUser

\* A session whose scopes are gac's to add, or are left out of what is shown.
LEMMA ScopesUser ==
  ASSUME NEW t, IsText(t), NEW v, IsText(v), NEW c, c.op = "doctor", NEW s, MayScope(t, c, s),
         NEW found, FindDefault(t).ok => found, found => OneDefault(v),
         Owners(t, v, c, found)
  PROVE  LeavesUser(v, AddScopes(v, s), c, found)
<1> DEFINE at == The(v, "session", s)
           key == "sso_registration_scopes"
           keys == SetKey(v.lines[at].keys, key, DefaultScope, {"sso_start_url", "sso_region"})
           u == AddScopes(v, s)
<1>1. CASE ~Found(v, "session", s)
  BY <1>1, LeavesItself DEF AddScopes
<1>2. CASE Found(v, "session", s)
  <2>1. IsLines(v) /\ AreLines(v.lines)
    BY TextFacts DEF IsText
  <2>2. at \in Copies(v, s) /\ at \in 1 .. Len(v.lines)
        /\ v.lines[at].k = "session" /\ v.lines[at].of = s
    <3>1. Headers(v, "session", s) = Copies(v, s)
      BY DEF Headers, Copies
    <3>2. Cardinality(Copies(v, s)) = 1
      BY <1>2, <3>1 DEF Found
    <3>3. Copies(v, s) # {}
      BY <3>2, FS_EmptySet
    <3>4. at \in Copies(v, s)
      BY <3>1, <3>3 DEF The
    <3> QED
      BY <2>1, <3>4, CopyLines
  <2>3. u = WithLines(v, [v.lines EXCEPT ![at] = WithKeys(v.lines[at], keys)])
    BY <1>2 DEF AddScopes
  <2>4. \A x \in 1 .. Len(v.lines) :
          u.lines[x] = IF x = at THEN WithKeys(v.lines[at], keys) ELSE v.lines[x]
    BY <2>1, <2>3 DEF WithLines, IsLines
  <2>5. IsText(u) /\ Alike(v, u)
    BY AddScopesAlike
  <2> HIDE DEF u
  <2>6. ASSUME s \in c.scopes
        PROVE  Shown(c, u.lines[at]) = Shown(c, v.lines[at])
    <3> DEFINE old == v.lines[at].keys
               line == WithKeys(v.lines[at], keys)
    <3>1. AreKeys(old)
      BY <2>1, <2>2 DEF AreLines, IsLine
    <3>2. IsSeq(DefaultScope) /\ key # Continued
      BY SmallSeqs, KeyAssumption DEF DefaultScope
    <3>3. keys = SetKey(old, key, DefaultScope, {"sso_start_url", "sso_region"})
      OBVIOUS
    <3> HIDE DEF old, keys
    <3>4. KeysBut(keys, {key}) = KeysBut(old, {key})
      BY <3>1, <3>2, <3>3, SetSame
    <3>5. u.lines[at] = line
      BY <2>2, <2>4
    <3>6. line.k = "session" /\ line.of = s /\ line.keys = keys
      BY <2>2 DEF WithKeys, Section
    <3> HIDE DEF line
    <3>7. Shown(c, line) = WithKeys(line, KeysBut(keys, {key}))
      BY <2>6, <3>6 DEF Shown
    <3>8. Shown(c, v.lines[at]) = WithKeys(v.lines[at], KeysBut(old, {key}))
      BY <2>2, <2>6 DEF Shown, old
    <3>9. \A k : WithKeys(line, k) = WithKeys(v.lines[at], k)
      BY <2>2, <3>6 DEF WithKeys
    <3> QED
      BY <3>4, <3>5, <3>7, <3>8, <3>9
  <2>7. ASSUME s \notin c.scopes, at \in UserPlaces(v, c, found)
        PROVE  FALSE
    <3>1. Found(t, "session", s) /\ InGacBlock(t, The(t, "session", s))
      BY <2>7 DEF MayScope, OwnedByUser
    <3>2. PICK x \in Copies(t, s) : x \in UserPlaces(t, c, found)
      BY <2>2, <2>7 DEF Owners
    <3>3. FindDefault(t).ok /\ found
      BY <3>1 DEF Found
    <3>4. x = The(t, "session", s)
      <4>1. Headers(t, "session", s) = Copies(t, s)
        BY DEF Headers, Copies
      <4>2. Cardinality(Copies(t, s)) = 1
        BY <3>1, <4>1 DEF Found
      <4>3. The(t, "session", s) \in Copies(t, s)
        BY <3>2, <4>1 DEF The
      <4>4. \A y, z \in Copies(t, s) : y = z
        <5>1. IsFiniteSet(Copies(t, s))
          <6>1. IsLines(t)
            BY TextFacts
          <6>2. Copies(t, s) \subseteq 1 .. Len(t.lines) /\ Len(t.lines) \in Nat
            BY <6>1, CopyLines DEF IsLines
          <6>3. IsFiniteSet(1 .. Len(t.lines))
            BY <6>2, FS_Interval
          <6> QED
            BY <6>2, <6>3, FS_Subset
        <5>2. PICK z : Copies(t, s) = {z}
          BY <4>2, <5>1, FS_Singleton
        <5> QED
          BY <5>2
      <4> QED
        BY <4>3, <4>4
    <3>5. InGac(t, found, x)
      <4>1. PICK r \in Blocks(t) \cup Range(FindDefault(t).managed) : x \in r.first .. r.last
        BY <3>1, <3>4 DEF InGacBlock
      <4>2. CASE r \in Blocks(t)
        BY <4>1, <4>2 DEF InGac, InBlock
      <4>3. CASE r \in Range(FindDefault(t).managed)
        <5>1. FindDefault(t).managed # <<>>
          BY <4>3 DEF Range
        <5>2. PICK a \in 1 .. Len(t.lines), b \in 1 .. Len(t.lines) :
                FindDefault(t).managed = <<RangeAt(a, b)>> /\ IsManaged(t, a, b)
          BY <3>3, <5>1, TextFacts, FindRight
        <5>3. r = RangeAt(a, b)
          BY <4>3, <5>2 DEF Range
        <5>4. x \in a .. b
          BY <4>1, <5>3 DEF RangeAt
        <5> QED
          BY <3>3, <5>2, <5>4 DEF InGac, Inside
      <4> QED
        BY <4>2, <4>3
    <3> QED
      BY <3>2, <3>5, PlacesAre
  <2>8. ASSUME NEW x \in UserPlaces(v, c, found)
        PROVE  Shown(c, u.lines[x]) = Shown(c, v.lines[x])
    <3>1. x \in 1 .. Len(v.lines)
      BY PlacesAre
    <3>2. CASE x # at
      BY <2>4, <3>1, <3>2
    <3>3. CASE x = at
      BY <2>6, <2>7, <2>8, <3>3
    <3> QED
      BY <3>2, <3>3
  <2>9. LeavesUser(v, u, c, found)
    BY <2>5, <2>8, KeysUser
  <2> QED
    BY <2>9 DEF u
<1> QED
  BY <1>1, <1>2

\* The keys of a profile that is moved to a session.
LegacyKeys == {"sso_session", "sso_start_url", "sso_region"}

\* A profile that is moved keeps its other keys.
LEMMA MovedSame ==
  ASSUME NEW keys, AreKeys(keys), NEW s
  PROVE  KeysBut(Moved(keys, s), LegacyKeys) = KeysBut(keys, LegacyKeys)
<1> DEFINE set == SetKey(keys, "sso_session", <<s>>, {"sso_start_url"})
           once == RemoveKey(set, "sso_start_url")
           twice == RemoveKey(once, "sso_region")
           d == LegacyKeys
<1>1. \A key \in d : key # Continued
  BY KeyAssumption DEF LegacyKeys
<1>2. "sso_session" \in d /\ "sso_start_url" \in d /\ "sso_region" \in d
  BY DEF LegacyKeys
<1>3. IsSeq(<<s>>)
  BY SmallSeqs
<1>4. AreKeys(set)
  BY <1>3, EditedKeys
<1>5. AreKeys(once)
  BY <1>4, EditedKeys
<1>6. Moved(keys, s) = twice
  BY DEF Moved
<1> HIDE DEF d
<1>7. KeysBut(set, d) = KeysBut(keys, d)
  BY <1>1, <1>2, <1>3, SetSame
<1> HIDE DEF set
<1>8. KeysBut(once, d) = KeysBut(set, d)
  BY <1>1, <1>2, <1>4, RemoveSame
<1> HIDE DEF once
<1>9. KeysBut(twice, d) = KeysBut(once, d)
  BY <1>1, <1>2, <1>5, RemoveSame
<1> HIDE DEF twice
<1> QED
  BY <1>6, <1>7, <1>8, <1>9 DEF d

\* The profiles that are moved show the same.
LEMMA ProfilesUser ==
  ASSUME NEW t, IsText(t), NEW names, \A n \in names : Found(t, "profile", n), NEW s,
         NEW c, c.op = "doctor", c.legacy # {},
         NEW found, found => OneDefault(t)
  PROVE  LeavesUser(t, MoveProfiles(t, names, s), c, found)
<1> DEFINE headers == {The(t, "profile", n) : n \in names}
           moved(line) == WithKeys(line, Moved(line.keys, s))
           u == MoveProfiles(t, names, s)
<1>1. DOMAIN t.lines = 1 .. Len(t.lines) /\ \A i \in 1 .. Len(t.lines) : IsLine(t.lines[i])
  BY SeqFacts DEF IsText, AreLines
<1>2. \A i \in 1 .. Len(t.lines) :
        u.lines[i] = IF i \in headers THEN moved(t.lines[i]) ELSE t.lines[i]
  BY <1>1 DEF MoveProfiles, WithLines
<1>3. \A i \in headers : t.lines[i].k \in {"profile", "default"}
  <2> SUFFICES ASSUME NEW n \in names
               PROVE  t.lines[The(t, "profile", n)].k \in {"profile", "default"}
    OBVIOUS
  <2>1. Cardinality(Headers(t, "profile", n)) = 1
    BY DEF Found
  <2>2. Headers(t, "profile", n) # {}
    BY <2>1, FS_EmptySet
  <2>3. The(t, "profile", n) \in Headers(t, "profile", n)
    BY <2>2 DEF The
  <2> QED
    BY <2>3 DEF Headers, At, Defines
<1>4. IsText(u) /\ Alike(t, u)
  BY MoveProfilesAlike
<1>5. \A line : /\ IsLine(line) /\ line.k \in {"profile", "default"}
                => Shown(c, moved(line)) = Shown(c, line)
  <2> SUFFICES ASSUME NEW line, IsLine(line), line.k \in {"profile", "default"}
               PROVE  Shown(c, moved(line)) = Shown(c, line)
    OBVIOUS
  <2> DEFINE new == moved(line)
             d == {"sso_session", "sso_start_url", "sso_region"}
  <2>1. AreKeys(line.keys)
    BY DEF IsLine
  <2>2. KeysBut(Moved(line.keys, s), d) = KeysBut(line.keys, d)
    BY <2>1, MovedSame DEF LegacyKeys
  <2>3. new.k = line.k /\ new.of = line.of /\ new.keys = Moved(line.keys, s)
    BY DEF WithKeys, Section
  <2> HIDE DEF new
  <2>4. Shown(c, new) = WithKeys(new, KeysBut(new.keys, d))
    BY <2>3 DEF Shown
  <2>5. Shown(c, line) = WithKeys(line, KeysBut(line.keys, d))
    BY DEF Shown
  <2> HIDE DEF d
  <2>6. \A k : WithKeys(new, k) = WithKeys(line, k)
    BY <2>3 DEF WithKeys
  <2>7. Shown(c, new) = Shown(c, line)
    BY <2>2, <2>3, <2>4, <2>5, <2>6
  <2> QED
    BY <2>7 DEF new
<1> HIDE DEF u, headers, moved
<1>6. ASSUME NEW x \in UserPlaces(t, c, found)
      PROVE  Shown(c, u.lines[x]) = Shown(c, t.lines[x])
  <2>1. x \in 1 .. Len(t.lines)
    BY PlacesAre
  <2> QED
    BY <1>1, <1>2, <1>3, <1>5, <2>1
<1>7. LeavesUser(t, u, c, found)
  BY <1>4, <1>6, KeysUser
<1> QED
  BY <1>7 DEF u

\* What a fix does to the lines of the user: at most one blank line is added, and
\* then a block with a new session.
Adds(t, u, c, found, new) ==
  /\ Owners(t, u, c, found)
  /\ \/ Shows(t, u, c, found, 0)
     \/ Shows(t, u, c, found, 1) /\ new # {} /\ \A s \in new : Begun(u, s) /\ ~Begun(t, s)

\* A fix that leaves the user's lines adds no blank line.
LEMMA LeavesAdds ==
  ASSUME NEW t, NEW u, NEW c, NEW found, LeavesUser(t, u, c, found), NEW new
  PROVE  Adds(t, u, c, found, new)
BY DEF LeavesUser, Adds

\* Profiles are moved to a session, which gets a block if it is a new one.
LEMMA LegacyUser ==
  ASSUME NEW t, IsText(t), WellNested(t), NEW fix,
         fix.create => /\ fix.session # Garbled /\ ~Begun(t, fix.session)
                       /\ IsSeq(fix.portal[1]) /\ IsSeq(fix.portal[2]),
         NEW c, c.op = "doctor", c.legacy # {},
         NEW found, found => OneDefault(t)
  PROVE  Adds(t, MoveLegacy(t, fix), c, found,
              IF fix.create THEN {fix.session} ELSE {})
<1> DEFINE u == MoveLegacy(t, fix)
           moved == MoveProfiles(t, fix.profiles, fix.session)
           w == AppendSession(moved, fix.session, fix.portal[1], fix.portal[2])
           new == IF fix.create THEN {fix.session} ELSE {}
<1>1. /\ u = t \/ (fix.create /\ u = w) \/ u = moved
      /\ u # t => \A n \in fix.profiles : Found(t, "profile", n)
  BY DEF MoveLegacy
<1> HIDE DEF u, w, moved
<1>2. CASE u = t
  <2>1. LeavesUser(t, u, c, found)
    BY <1>2, LeavesItself
  <2> HIDE DEF new
  <2>2. Adds(t, u, c, found, new)
    BY <2>1, LeavesAdds
  <2> QED
    BY <2>2 DEF u, new
<1>3. CASE u # t
  <2>1. LeavesUser(t, moved, c, found)
    BY <1>1, <1>3, ProfilesUser DEF moved
  <2>2. IsText(moved) /\ Alike(t, moved)
    BY <1>1, <1>3, MoveProfilesAlike DEF moved
  <2>3. /\ WellNested(moved) /\ (found => OneDefault(moved))
        /\ \A x : Begun(moved, x) <=> Begun(t, x)
    BY <2>2, AlikeKeeps DEF Safe
  <2>4. CASE u = moved
    <3> HIDE DEF new
    <3>1. Adds(t, u, c, found, new)
      BY <2>1, <2>4, LeavesAdds
    <3> QED
      BY <3>1 DEF u, new
  <2>5. CASE fix.create /\ u = w
    <3>1. fix.session # Garbled /\ ~Begun(moved, fix.session)
      BY <2>3, <2>5
    <3>2. /\ \E m \in 0 .. 1 : Shows(moved, w, c, found, m)
          /\ Owners(moved, w, c, found) /\ Begun(w, fix.session)
      BY <2>2, <2>3, <2>5, <3>1, AppendSessionUser DEF w
    <3>3. Shows(t, moved, c, found, 0) /\ Owners(t, moved, c, found)
      BY <2>1 DEF LeavesUser
    <3>4. Owners(t, w, c, found)
      BY <3>2, <3>3, OwnersOn
    <3>5. PICK m \in 0 .. 1 : Shows(moved, w, c, found, m)
      BY <3>2
    <3>6. Shows(t, w, c, found, 0 + m)
      BY <3>3, <3>5, ShowsOn
    <3>7. 0 + m = 0 \/ 0 + m = 1
      OBVIOUS
    <3>8. Shows(t, w, c, found, 0) \/ Shows(t, w, c, found, 1)
      BY <3>6, <3>7
    <3>9. new # {} /\ \A s \in new : Begun(w, s) /\ ~Begun(t, s)
      BY <2>5, <3>2
    <3> HIDE DEF new
    <3>10. Adds(t, u, c, found, new)
      BY <2>5, <3>4, <3>8, <3>9 DEF Adds
    <3> QED
      BY <3>10 DEF u, new
  <2> QED
    BY <1>1, <1>3, <2>4, <2>5
<1> QED
  BY <1>2, <1>3

\* The sessions that get their first block.
FirstBlocks(t, u) == {s \in Sessions : Begun(u, s) /\ ~Begun(t, s)}

Fresh(t, u) == {<<s>> : s \in FirstBlocks(t, u)}

\* There is a new block for each, and finitely many.
LEMMA FreshNames ==
  ASSUME NEW t, NEW u, IsText(t), IsText(u), WellNested(u)
  PROVE  /\ Fresh(t, u) \in SUBSET (BlockNames(u) \ BlockNames(t))
         /\ IsFiniteSet(Fresh(t, u))
<1>1. Fresh(t, u) \in SUBSET (BlockNames(u) \ BlockNames(t))
  BY NewName DEF Fresh, FirstBlocks
<1>2. IsFiniteSet(BlockNames(u))
  BY BlockNamesFinite
<1> QED
  BY <1>1, <1>2, FS_Subset

\* What one of the planned fixes does to the user's lines.
LEMMA FixAdds ==
  ASSUME NEW t, IsText(t), WellNested(t), NEW c, c.op = "doctor",
         NEW n \in 1 .. Len(Fixes(t, c)), NEW v, Fixed(t, c, n - 1, v),
         NEW found, FindDefault(t).ok => found, Settled(t, found),
         Owners(t, v, c, found)
  PROVE  \E new \in SUBSET {s \in Sessions : ~Begun(t, s)} :
           Adds(v, Applied(v, Fixes(t, c)[n]), c, found, new)
<1> DEFINE fixes == Fixes(t, c)
           fix == fixes[n]
           u == Applied(v, fix)
           unused == {s \in Sessions : ~Begun(t, s)}
<1>1. /\ Len(fixes) \in Nat
      /\ \/ fix.edit = "RemoveBlock" /\ fix.session \in DeadBlocks(t)
         \/ fix.edit = "AddScopes" /\ MayScope(t, c, fix.session)
         \/ /\ fix.edit = "MoveLegacy" /\ fix.profiles # {}
            /\ c.legacy # {}
            /\ IsSeq(fix.portal[1]) /\ IsSeq(fix.portal[2])
            /\ fix.create => fix.session \in FreeNames(t)
  BY FixesFacts
<1>2. \A i \in 1 .. Len(fixes) :
        Creates(fixes[i]) /\ Creates(fix) /\ fixes[i].session = fix.session => i = n
  BY FixesFacts
<1>3. /\ IsText(v) /\ WellNested(v) /\ Safe(t, v)
      /\ \A x : Begun(v, x) =>
           Begun(t, x) \/ \E i \in 1 .. n - 1 : Creates(fixes[i]) /\ fixes[i].session = x
  BY DEF Fixed
<1> HIDE DEF fixes
<1>4. \A i \in 1 .. n - 1 : i \in 1 .. Len(fixes) /\ i # n
  <2>1. n \in 1 .. Len(fixes)
    BY DEF fixes
  <2> QED
    BY <1>1, <2>1
<1>5. Settled(v, found)
  BY <1>3 DEF Settled, Safe, InOrder
<1>6. found => OneDefault(v)
  BY <1>5 DEF Settled
<1>7. {} \in SUBSET unused
  OBVIOUS
<1>8. ASSUME LeavesUser(v, u, c, found)
      PROVE  \E new \in SUBSET unused : Adds(v, u, c, found, new)
  <2>1. Adds(v, u, c, found, {})
    BY <1>8, LeavesAdds
  <2> HIDE DEF u, unused
  <2> QED
    BY <1>7, <2>1
<1> HIDE DEF u, unused
<1>9. CASE fix.edit = "RemoveBlock"
  <2>1. u = RemoveBlock(v, fix.session)
    BY <1>9 DEF Applied, u
  <2>2. LeavesUser(v, u, c, found)
    BY <1>3, <1>5, <2>1, RemoveUser
  <2> QED
    BY <1>8, <2>2 DEF u, unused, fix, fixes
<1>10. CASE fix.edit = "AddScopes"
  <2>1. u = AddScopes(v, fix.session)
    BY <1>10 DEF Applied, u
  <2>2. MayScope(t, c, fix.session)
    BY <1>1, <1>10
  <2>3. LeavesUser(v, u, c, found)
    BY <1>3, <1>6, <2>1, <2>2, ScopesUser
  <2> QED
    BY <1>8, <2>3 DEF u, unused, fix, fixes
<1>11. CASE fix.edit = "MoveLegacy"
  <2>1. u = MoveLegacy(v, fix)
    BY <1>11 DEF Applied, u
  <2>2. ASSUME fix.create
        PROVE  /\ fix.session # Garbled /\ ~Begun(v, fix.session)
               /\ IsSeq(fix.portal[1]) /\ IsSeq(fix.portal[2])
               /\ fix.session \in unused
    <3>1. fix.session \in FreeNames(t) /\ Creates(fix)
      BY <1>1, <1>11, <2>2 DEF Creates
    <3>2. fix.session \in Sessions /\ ~HasBlock(t, fix.session)
      BY <3>1 DEF FreeNames
    <3>3. ~Begun(t, fix.session)
      BY <3>2, BlockFacts
    <3>4. ASSUME NEW i \in 1 .. n - 1
          PROVE  ~(Creates(fixes[i]) /\ fixes[i].session = fix.session)
      BY <1>2, <1>4, <3>1
    <3>5. ~Begun(v, fix.session)
      BY <1>3, <3>3, <3>4
    <3> QED
      BY <1>1, <1>11, <3>2, <3>3, <3>5, NameAssumption DEF unused
  <2> DEFINE new == IF fix.create THEN {fix.session} ELSE {}
  <2>3. c.legacy # {}
    BY <1>1, <1>11
  <2> HIDE DEF fix
  <2>4. Adds(v, MoveLegacy(v, fix), c, found, new)
    BY <1>3, <1>6, <2>2, <2>3, LegacyUser
  <2>5. new \in SUBSET unused
    BY <2>2
  <2> HIDE DEF new
  <2>6. \E e \in SUBSET unused : Adds(v, u, c, found, e)
    BY <2>1, <2>4, <2>5
  <2> QED
    BY <2>6 DEF u, unused, fix, fixes
<1> QED
  BY <1>1, <1>9, <1>10, <1>11

\* What is known of the user's lines after some fixes, u being the text they
\* make of t.
FixedUser(t, c, found, u) ==
  /\ Owners(t, u, c, found)
  /\ \E k \in Nat : k <= Cardinality(Fresh(t, u)) /\ Shows(t, u, c, found, k)

\* A block is given for each blank line.
LEMMA AddsOn ==
  ASSUME NEW t, IsText(t), NEW v, IsText(v), WellNested(v), NEW u, IsText(u), WellNested(u),
         NEW c, NEW found, FixedUser(t, c, found, v),
         NEW new \in SUBSET {s \in Sessions : ~Begun(t, s)}, Adds(v, u, c, found, new),
         FirstBlocks(t, v) \subseteq FirstBlocks(t, u)
  PROVE  FixedUser(t, c, found, u)
<1> DEFINE A == Fresh(t, v)
           B == Fresh(t, u)
<1>1. Owners(t, u, c, found)
  BY OwnersOn DEF FixedUser, Adds
<1>2. IsFiniteSet(A) /\ IsFiniteSet(B)
  BY FreshNames
<1>3. A \subseteq B
  BY DEF Fresh
<1>4. PICK k \in Nat : k <= Cardinality(A) /\ Shows(t, v, c, found, k)
  BY DEF FixedUser
<1>5. Cardinality(A) \in Nat /\ Cardinality(B) \in Nat
  BY <1>2, FS_CardinalityType
<1>6. CASE Shows(v, u, c, found, 0)
  <2>1. Shows(t, u, c, found, k + 0)
    BY <1>4, <1>6, ShowsOn
  <2>2. Cardinality(A) <= Cardinality(B)
    BY <1>2, <1>3, FS_Subset
  <2> HIDE DEF A, B
  <2>3. k + 0 = k /\ k <= Cardinality(B)
    BY <1>4, <1>5, <2>2
  <2>4. Shows(t, u, c, found, k)
    BY <2>1, <2>3
  <2> QED
    BY <1>1, <2>3, <2>4 DEF FixedUser, B
<1>7. CASE Shows(v, u, c, found, 1) /\ new # {} /\ \A s \in new : Begun(u, s) /\ ~Begun(v, s)
  <2>1. Shows(t, u, c, found, k + 1)
    BY <1>4, <1>7, ShowsOn
  <2>2. PICK s \in new : TRUE
    BY <1>7
  <2>3. <<s>> \in B /\ <<s>> \notin A
    <3>1. s \in FirstBlocks(t, u) /\ s \notin FirstBlocks(t, v)
      BY <1>7, <2>2 DEF FirstBlocks
    <3> QED
      BY <3>1 DEF Fresh
  <2> HIDE DEF A, B
  <2>4. Cardinality(A \cup {<<s>>}) = Cardinality(A) + 1
    BY <1>2, <2>3, FS_AddElement
  <2>5. Cardinality(A \cup {<<s>>}) <= Cardinality(B)
    <3>1. A \cup {<<s>>} \in SUBSET B
      BY <1>3, <2>3
    <3> QED
      BY <1>2, <3>1, FS_Subset
  <2>6. k + 1 \in Nat /\ k + 1 <= Cardinality(B)
    BY <1>4, <1>5, <2>4, <2>5
  <2> QED
    BY <1>1, <2>1, <2>6 DEF FixedUser, B
<1> QED
  BY <1>6, <1>7 DEF Adds

\* The fixes the doctor makes.
LEMMA DoctorUser ==
  ASSUME NEW t, IsText(t), NEW c, c.op = "doctor",
         NEW found, FindDefault(t).ok => found, WellNested(t) => Settled(t, found)
  PROVE  FewBlanksAdded(t, Doctor(t, c), c, found)
<1> DEFINE fixes == Fixes(t, c)
           L == Len(fixes)
<1>1. L \in Nat
  BY FixesFacts
<1>2. CASE ~WellNested(t)
  <2>1. Doctor(t, c) = t
    BY <1>2, DoctorKeeps
  <2> QED
    BY <2>1, FewItself
<1>3. CASE WellNested(t)
  <2>1. PICK r : /\ r[0] = t
                 /\ \A n \in 1 .. L : r[n] = Applied(r[n - 1], fixes[n])
                 /\ Doctor(t, c) = r[L]
    BY <1>1, DoctorReads
  <2> DEFINE good == {n \in 0 .. L : Fixed(t, c, n, r[n]) /\ FixedUser(t, c, found, r[n])}
  <2>2. 0 \in good
    <3>1. Safe(t, t)
      BY DEF Safe, InOrder
    <3>2. Fixed(t, c, 0, t)
      BY <1>3, <3>1 DEF Fixed
    <3>3. Shows(t, t, c, found, 0) /\ Owners(t, t, c, found)
      BY LeavesItself DEF LeavesUser
    <3>4. 0 \in Nat /\ 0 <= Cardinality(Fresh(t, t))
      <4>1. Fresh(t, t) = {}
        BY DEF Fresh, FirstBlocks
      <4>2. Cardinality(Fresh(t, t)) = 0
        BY <4>1, FS_EmptySet
      <4> QED
        BY <4>2
    <3>5. FixedUser(t, c, found, t)
      BY <3>3, <3>4 DEF FixedUser
    <3> QED
      BY <1>1, <2>1, <3>2, <3>5
  <2>3. ASSUME NEW n \in 1 .. L, n - 1 \in good
        PROVE  n \in good
    <3> DEFINE v == r[n - 1]
               u == Applied(v, fixes[n])
    <3>1. Fixed(t, c, n - 1, v) /\ FixedUser(t, c, found, v)
      BY <2>3
    <3>2. /\ Fixed(t, c, n, u)
          /\ \A x : Begun(v, x) /\ x \notin DeadBlocks(t) => Begun(u, x)
      BY <1>3, <3>1, FixKeeps
    <3>3. PICK new \in SUBSET {s \in Sessions : ~Begun(t, s)} : Adds(v, u, c, found, new)
      <4>1. Owners(t, v, c, found) /\ Settled(t, found)
        BY <1>3, <3>1 DEF FixedUser
      <4> QED
        BY <1>3, <3>1, <4>1, FixAdds
    <3>4. r[n] = u
      BY <2>1
    <3>5. n \in 0 .. L
      BY <1>1
    <3> HIDE DEF u, v
    <3>6. FirstBlocks(t, v) \subseteq FirstBlocks(t, u)
      <4> SUFFICES ASSUME NEW s \in Sessions, Begun(v, s), ~Begun(t, s)
                   PROVE  Begun(u, s)
        BY DEF FirstBlocks
      <4>1. ~HasBlock(t, s)
        BY BlockFacts
      <4>2. s \notin DeadBlocks(t)
        BY <4>1 DEF DeadBlocks
      <4> QED
        BY <3>2, <4>2
    <3>7. IsText(v) /\ WellNested(v) /\ IsText(u) /\ WellNested(u)
      BY <3>1, <3>2 DEF Fixed
    <3>8. FixedUser(t, c, found, u)
      BY <3>1, <3>3, <3>6, <3>7, AddsOn
    <3> QED
      BY <3>2, <3>4, <3>5, <3>8
  <2> HIDE DEF good, L
  <2>4. \A m \in 1 .. L : m - 1 \in good => m \in good
    BY <2>3, Zenon
  <2>5. \A m \in 0 .. L : m \in good
    BY <1>1, <2>2, <2>4, UpTo
  <2>6. L \in good
    BY <1>1, <2>5
  <2> DEFINE u == r[L]
  <2>7. IsText(u) /\ WellNested(u) /\ FixedUser(t, c, found, u)
    BY <2>6 DEF good, Fixed
  <2> HIDE DEF u
  <2>8. PICK k \in Nat : k <= Cardinality(Fresh(t, u)) /\ Shows(t, u, c, found, k)
    BY <2>7 DEF FixedUser
  <2>9. Fresh(t, u) \in SUBSET (BlockNames(u) \ BlockNames(t))
    BY <2>7, FreshNames
  <2>10. FewBlanksAdded(t, u, c, found)
    BY <2>7, <2>8, <2>9, FewWhen
  <2> QED
    BY <2>1, <2>10 DEF u
<1> QED
  BY <1>2, <1>3

-----------------------------------------------------------------------------
(***************************************************************************)
(* The names of the profiles that a sync writes.                           *)
(***************************************************************************)
\* No profile of the session's block has its name a second time in the text.
NamesAlone(u, s) ==
  \A name \in ProfilesOf(u, BlockOf(u, s)) :
    At(u, {"profile"}, name) \subseteq BlockOf(u, s).first .. BlockOf(u, s).last

\* The names of the profiles among some lines.
Names(ls) == {ls[i].of : i \in {j \in 1 .. Len(ls) : ls[j].k = "profile"}}

\* A block whose profiles have names that none of the lines that stay has.
LEMMA BlockNamesAlone ==
  ASSUME NEW t, NEW u, IsText(u), WellNested(u), NEW p, NEW q, NEW n,
         Swaps(t, u, p, q, n), Exact(t, u, p, q, n),
         NEW s, s # Garbled, PutsBlock(u, p, p + n - 1, s),
         NEW body, FromBody(u, p, p + n - 1, body),
         \A x \in Outer(t, p, q) :
           t.lines[x].k = "profile" => t.lines[x].of \notin Names(body)
  PROVE  NamesAlone(u, s)
<1> DEFINE b == BlockOf(u, s)
           e == p + n - 1
<1>1. IsLines(u) /\ Len(u.lines) \in Nat
  BY TextFacts
<1>2. /\ p \in Nat /\ e \in Nat /\ p .. e \subseteq 1 .. Len(u.lines)
      /\ \A y \in Outer(u, p, e) : \E x \in Outer(t, p, q) : y = Shift(p, q, n, x)
  BY Shifting
<1>3. /\ b.first \in p .. e /\ b.last = e
      /\ \A y \in p .. e : y < b.first => u.lines[y] = Blank
      /\ \A y \in b.first .. e :
           u.lines[y].k \in {"begin", "end", "session", "profile"}
  BY <1>2, PutIsBlock
<1>4. \A y \in p .. e : u.lines[y].k = "profile" => u.lines[y].of \in Names(body)
  BY DEF FromBody, Names
<1> HIDE DEF b, e
<1>5. ASSUME NEW name \in ProfilesOf(u, b)
      PROVE  name \in Names(body)
  <2> DEFINE ls == Slice(u, b.first, e).lines
  <2>1. PICK l \in Range(ls) : (l.k = "profile" /\ l.of = name) \/ l.k = "default"
    BY <1>3, <1>5 DEF ProfilesOf, ProfilesIn
  <2>2. b.first \in 1 .. Len(u.lines) /\ e \in 1 .. Len(u.lines)
    BY <1>2, <1>3
  <2>3. PICK y \in b.first .. e : l = u.lines[y]
    BY <2>2, SliceLine
  <2>4. y \in p .. e
    BY <1>2, <1>3
  <2> HIDE DEF ls
  <2>5. l.k = "profile" /\ l.of = name
    BY <1>3, <2>1, <2>3
  <2> QED
    BY <1>4, <2>3, <2>4, <2>5
<1>6. ASSUME NEW name \in Names(body), NEW y \in At(u, {"profile"}, name)
      PROVE  y \in b.first .. e
  <2>1. y \in 1 .. Len(u.lines) /\ u.lines[y].k = "profile" /\ u.lines[y].of = name
    BY <1>1, <1>6 DEF At, Defines, IsLines
  <2>2. y \in Outer(u, p, e) => FALSE
    <3> SUFFICES ASSUME y \in Outer(u, p, e)
                 PROVE  FALSE
      OBVIOUS
    <3>1. PICK x \in Outer(t, p, q) : y = Shift(p, q, n, x)
      BY <1>2
    <3>2. u.lines[y] = t.lines[x]
      BY <3>1 DEF Exact
    <3> QED
      BY <1>6, <2>1, <3>1, <3>2
  <2>3. y \in p .. e
    BY <1>1, <1>2, <2>1, <2>2 DEF Outer
  <2>4. ~(y < b.first)
    BY <1>3, <2>1, <2>3, BlankKind
  <2> QED
    BY <1>2, <1>3, <2>3, <2>4
<1> QED
  BY <1>3, <1>5, <1>6 DEF NamesAlone, b, e

\* The profiles that stay when a session's block is left out are those of the text
\* without it.
LEMMA OutsideNames ==
  ASSUME NEW t, IsText(t), NEW b \in Blocks(t), NEW x \in Outer(t, b.first, b.last),
         t.lines[x].k = "profile"
  PROVE  t.lines[x].of \in ProfilesIn(Without(t, b))
<1> DEFINE w == Without(t, b)
           y == Shift(b.first, b.last, 0, x)
<1>1. IsRange(t, b)
  BY BlockFacts
<1>2. /\ IsText(w) /\ Swaps(t, w, b.first, b.last, 0)
      /\ Exact(t, w, b.first, b.last, 0)
  BY <1>1, WithoutSwaps
<1>3. y \in 1 .. Len(w.lines)
  BY <1>2, Shifting DEF Outer
<1>4. w.lines[y] = t.lines[x]
  BY <1>2 DEF Exact
<1>5. DOMAIN w.lines = 1 .. Len(w.lines)
  BY <1>2, TextFacts DEF IsLines
<1> HIDE DEF w, y
<1>6. t.lines[x] \in Range(w.lines)
  BY <1>3, <1>4, <1>5 DEF Range
<1> QED
  BY <1>6 DEF ProfilesIn, w

\* The session's block is replaced by, or appended as, one with such profiles.
LEMMA UpsertNames ==
  ASSUME NEW t, IsText(t), WellNested(t), NEW s, s # Garbled,
         NEW settings, AreKeys(settings), NEW body, BodyLines(body),
         Names(body) \cap ProfilesIn(Outside(t, s)) = {}
  PROVE  NamesAlone(Upsert(t, s, Rendered(s, settings, body)), s)
<1> DEFINE block == Rendered(s, settings, body)
           u == Upsert(t, s, block)
<1>1. IsLines(t) /\ Len(t.lines) \in Nat
  BY TextFacts
<1>2. IsText(u) /\ WellNested(u)
  BY UpsertKeeps DEF Leaves
<1>3. ASSUME HasBlock(t, s)
      PROVE  NamesAlone(u, s)
  <2> DEFINE b == BlockOf(t, s)
             p == b.first
             q == b.last
  <2>1. b \in Blocks(t) /\ IsRange(t, b)
    BY <1>3, BlockFacts
  <2>2. u = Splice(t, b, block) /\ Outside(t, s) = Without(t, b)
    BY <1>3 DEF Upsert, Outside
  <2> HIDE DEF b
  <2>3. \E n : /\ Swaps(t, u, p, q, n) /\ PutsBlock(u, p, p + n - 1, s)
               /\ FromBody(u, p, p + n - 1, body) /\ Exact(t, u, p, q, n)
    BY <2>1, <2>2, SpliceBlock
  <2> HIDE DEF u
  <2>4. \A x \in Outer(t, p, q) :
          t.lines[x].k = "profile" => t.lines[x].of \notin Names(body)
    BY <2>1, <2>2, OutsideNames
  <2> QED
    BY <1>2, <2>3, <2>4, BlockNamesAlone
<1>4. ASSUME ~HasBlock(t, s)
      PROVE  NamesAlone(u, s)
  <2> DEFINE p == Len(t.lines) + 1
             q == Len(t.lines)
  <2>1. u = AppendText(t, block) /\ Outside(t, s) = t
    BY <1>4 DEF Upsert, Outside
  <2>2. \E n : /\ Swaps(t, u, p, q, n) /\ PutsBlock(u, p, p + n - 1, s)
               /\ FromBody(u, p, p + n - 1, body) /\ Exact(t, u, p, q, n)
    BY <2>1, AppendBlock
  <2> HIDE DEF u
  <2>3. \A x \in Outer(t, p, q) :
          t.lines[x].k = "profile" => t.lines[x].of \notin Names(body)
    <3>1. \A x \in Outer(t, p, q) : t.lines[x] \in Range(t.lines)
      BY <1>1 DEF Outer, IsLines, Range
    <3> QED
      BY <2>1, <3>1 DEF ProfilesIn
  <2> QED
    BY <1>2, <2>2, <2>3, BlockNamesAlone
<1> QED
  BY <1>3, <1>4 DEF u, block

\* A sync writes no profile whose name is taken.
LEMMA SyncedNames ==
  ASSUME NEW t, NEW s, NEW outside, NEW lines, BodyLines(lines), NEW taken,
         \A i \in 1 .. Len(lines) : lines[i].of \notin taken
  PROVE  Names(OwnSession(t, s, outside) \o lines) \cap taken = {}
<1> DEFINE own == OwnSession(t, s, outside)
           body == own \o lines
<1>1. IsSeq(own) /\ \A i \in 1 .. Len(own) : own[i].k = "session"
  <2>1. CASE own = <<>>
    BY <2>1, SmallSeqs
  <2>2. CASE own # <<>>
    <3> DEFINE one == SessionLine(s, PortalOf(t, s)[1], PortalOf(t, s)[2], Scopes(t, s))
    <3>1. own = <<one>>
      BY <2>2 DEF OwnSession
    <3>2. one.k = "session"
      BY DEF SessionLine, Section
    <3> HIDE DEF one
    <3> QED
      BY <3>1, <3>2, SmallSeqs
  <2> QED
    BY <2>1, <2>2
<1>2. IsSeq(lines) /\ Len(lines) \in Nat
  BY SeqFacts DEF BodyLines, AreLines
<1> HIDE DEF own
<1>3. Len(own) \in Nat
  BY <1>1, SeqFacts
<1>4. /\ Len(body) = Len(own) + Len(lines)
      /\ \A i \in 1 .. Len(body) :
           body[i] = IF i <= Len(own) THEN own[i] ELSE lines[i - Len(own)]
  BY <1>1, <1>2, <1>3, ConcatFacts
<1> HIDE DEF body
<1>5. ASSUME NEW i \in 1 .. Len(body), body[i].k = "profile"
      PROVE  body[i].of \notin taken
  <2>1. ~(i <= Len(own))
    BY <1>1, <1>3, <1>4, <1>5
  <2>2. i - Len(own) \in 1 .. Len(lines) /\ body[i] = lines[i - Len(own)]
    BY <1>2, <1>3, <1>4, <2>1
  <2> QED
    BY <2>2
<1> QED
  BY <1>5 DEF Names, body, own

\* A sync that changes the text names no profile of its block as another section is
\* named.
LEMMA SyncNames ==
  ASSUME NEW t, IsText(t), NEW c, IsCommand(c), c.op = "sync", Sync(t, c) # t
  PROVE  NamesAlone(Sync(t, c), SyncedSession(t, c))
BY SyncWrites, SyncedNames, UpsertNames

-----------------------------------------------------------------------------
(***************************************************************************)
(* Every command, and every edit.                                          *)
(***************************************************************************)
\* In a text that has at most one default profile, Apart is AreApart.
LEMMA ApartMeans ==
  ASSUME NEW t, IsText(t), WellNested(t), OneDefault(t), Apart(t)
  PROVE  AreApart(t)
<1> DEFINE L == Len(t.lines)
           found == FindDefault(t)
<1>1. IsLines(t)
  BY TextFacts
<1> SUFFICES ASSUME NEW i \in 1 .. L, NEW j \in 1 .. L,
                    NEW a \in 1 .. L, NEW b \in 1 .. L,
                    Delimit(t, i, j), IsManaged(t, a, b)
             PROVE  j < a \/ b < i
  BY DEF AreApart
<1> DEFINE block == [of |-> t.lines[i].of, first |-> i, last |-> j]
<1>2. block \in Blocks(t)
  BY BlockFacts
<1>3. found.ok
  BY <1>1, FindRight
<1>4. <<a, b>> \in DefaultBlocks(t)
  BY <1>1, DefaultBlock
<1>5. found.managed # <<>>
  BY <1>1, <1>3, <1>4, FindRight
<1>6. PICK f \in 1 .. L, g \in 1 .. L :
        found.managed = <<RangeAt(f, g)>> /\ IsManaged(t, f, g)
  BY <1>1, <1>3, <1>5, FindRight
<1>7. f = a /\ g = b
  BY <1>1, <1>6, OneBlock
<1>8. Range(<<RangeAt(a, b)>>) = {RangeAt(a, b)}
  BY DEF Range
<1>9. DefaultRange(t) = Range(found.managed)
  BY <1>3 DEF DefaultRange
<1> HIDE DEF found
<1>10. RangeAt(a, b) \in DefaultRange(t)
  BY <1>6, <1>7, <1>8, <1>9
<1>11. block.last < RangeAt(a, b).first \/ RangeAt(a, b).last < block.first
  BY <1>2, <1>10 DEF Apart
<1> QED
  BY <1>11 DEF RangeAt

\* What each command keeps of the text it read.
LEMMA OutcomeKeeps ==
  ASSUME NEW t, IsText(t), NEW c, IsCommand(c)
  PROVE  LET u == Outcome(t, c)
         IN /\ IsText(u)
            /\ WellNested(t) => WellNested(u)
            /\ /\ OneDefault(t) /\ (WellNested(t) => AreApart(t))
               /\ c.op = "sync" => ~NamesDefault(u)
               => OneDefault(u)
            /\ WellNested(t) =>
                 \A x : Begun(t, x) /\ x \notin DeadBlocks(t) => Begun(u, x)
<1>1. c.op \in {"sync", "select", "setup", "clear", "doctor"}
  BY DEF IsCommand
<1>2. CASE c.op = "sync"
  <2> DEFINE u == Sync(t, c)
  <2>1. Leaves(t, u) /\ (InOrder(t) /\ ~NamesDefault(u) => OneDefault(u))
    BY <1>2, SyncKeeps
  <2>2. Outcome(t, c) = u
    BY <1>2 DEF Outcome
  <2> HIDE DEF u
  <2> QED
    BY <1>2, <2>1, <2>2 DEF Leaves, InOrder
<1>3. CASE c.op = "setup"
  <2> DEFINE u == Setup(t, c)
  <2>1. Leaves(t, u) /\ Safe(t, u)
    BY <1>3, SetupKeeps
  <2>2. Outcome(t, c) = u
    BY <1>3 DEF Outcome
  <2> HIDE DEF u
  <2> QED
    BY <2>1, <2>2 DEF Leaves, Safe, InOrder
<1>4. CASE c.op = "select"
  <2> DEFINE u == Select(t, c)
  <2>1. Retains(t, u)
    BY SelectKeeps
  <2>2. Outcome(t, c) = u
    BY <1>4 DEF Outcome
  <2> HIDE DEF u
  <2> QED
    BY <2>1, <2>2 DEF Retains
<1>5. CASE c.op = "clear"
  <2> DEFINE u == Clear(t)
  <2>1. Retains(t, u)
    BY ClearKeeps
  <2>2. Outcome(t, c) = u
    BY <1>5 DEF Outcome
  <2> HIDE DEF u
  <2> QED
    BY <2>1, <2>2 DEF Retains
<1>6. CASE c.op = "doctor"
  <2> DEFINE u == Doctor(t, c)
  <2>1. /\ IsText(u) /\ Safe(t, u)
        /\ ~WellNested(t) => u = t
        /\ \A x : Begun(t, x) /\ x \notin DeadBlocks(t) => Begun(u, x)
    BY DoctorKeeps
  <2>2. Outcome(t, c) = u
    BY <1>6 DEF Outcome
  <2> HIDE DEF u
  <2> QED
    BY <2>1, <2>2 DEF Safe, InOrder
<1> QED
  BY <1>1, <1>2, <1>3, <1>4, <1>5, <1>6

\* Every command keeps every session.
LEMMA OutcomeKept ==
  ASSUME NEW t, IsText(t), NEW c, IsCommand(c), NEW x \in Sessions
  PROVE  Kept(t, Outcome(t, c), x)
<1>1. c.op \in {"sync", "select", "setup", "clear", "doctor"}
  BY DEF IsCommand
<1>2. CASE c.op = "sync"
  BY <1>2, SyncKept DEF Outcome
<1>3. CASE c.op = "setup"
  BY <1>3, SetupKept DEF Outcome
<1>4. CASE c.op = "select"
  BY <1>4, SelectKeeps DEF Outcome, Retains
<1>5. CASE c.op = "clear"
  BY <1>5, ClearKeeps DEF Outcome, Retains
<1>6. CASE c.op = "doctor"
  BY <1>6, DoctorKept DEF Outcome
<1> QED
  BY <1>1, <1>2, <1>3, <1>4, <1>5, <1>6

\* A session that is defined once has the keys of that one line.
LEMMA OnlyCopy ==
  ASSUME NEW t, IsText(t), NEW s, NEW j, Copies(t, s) = {j}
  PROVE  PortalOf(t, s) = Portal(t.lines[j].keys)
<1> DEFINE n == Len(t.lines)
           part(i) == IF Defines(t.lines[i], {"session"}, s) THEN t.lines[i].keys ELSE <<>>
           parts == [i \in 1 .. n |-> part(i)]
<1>1. n \in Nat /\ DOMAIN t.lines = 1 .. n /\ \A i \in 1 .. n : IsLine(t.lines[i])
  BY SeqFacts DEF IsText, AreLines
<1>2. \A i \in 1 .. n : AreKeys(part(i))
  BY <1>1, SomeKeys DEF IsLine
<1>3. SectionKeys(t, "session", s) = FlattenSeq(parts)
  BY <1>1 DEF SectionKeys
<1>4. j \in 1 .. n /\ part(j) = t.lines[j].keys /\ \A i \in 1 .. n : i # j => part(i) = <<>>
  BY <1>1 DEF Copies, At
<1> HIDE DEF n, part
<1>5. parts = [i \in 1 .. n |-> parts[i]] /\ \A i \in 1 .. n : parts[i] = part(i)
  OBVIOUS
<1> HIDE DEF parts
<1>6. PICK S : parts \in Seq(Seq(S))
  BY <1>1, <1>2, <1>5, KeyParts
<1>7. Len(parts) = n
  BY <1>1, <1>5, <1>6
<1>8. FlattenSeq(parts) = parts[j]
  BY <1>4, <1>5, <1>6, <1>7, FlattenOne
<1> QED
  BY <1>3, <1>4, <1>5, <1>8 DEF PortalOf

\* The definitions of a session, counted.
LEMMA KeptMeans ==
  ASSUME NEW t, IsText(t), NEW u, IsText(u), NEW s, Kept(t, u, s)
  PROVE  LET before == Cardinality(Copies(t, s))
             after == Cardinality(Copies(u, s))
         IN /\ AtHome(t, s) => after > 0
            /\ after <= 1 \/ after <= before
            /\ AtHome(t, s) /\ before = 1 => PortalOf(u, s) = PortalOf(t, s)
<1> DEFINE A == Copies(t, s)
           B == Copies(u, s)
<1>1. IsFiniteSet(A) /\ IsFiniteSet(B)
  <2>1. /\ A \subseteq 1 .. Len(t.lines) /\ B \subseteq 1 .. Len(u.lines)
        /\ Len(t.lines) \in Nat /\ Len(u.lines) \in Nat
    BY TextFacts DEF Copies, At, IsLines
  <2>2. IsFiniteSet(1 .. Len(t.lines)) /\ IsFiniteSet(1 .. Len(u.lines))
    <3>1. \A n \in Nat : 1 \in Int /\ n \in Int
      OBVIOUS
    <3>2. \A n \in Nat : IsFiniteSet(1 .. n)
      BY ONLY <3>1, FS_Interval
    <3> QED
      BY <2>1, <3>2
  <2> HIDE DEF A, B
  <2> QED
    BY <2>1, <2>2, FS_Subset
<1>2. Cardinality(A) \in Nat /\ Cardinality(B) \in Nat
  BY <1>1, FS_CardinalityType
<1>3. AtHome(t, s) => B # {}
  BY DEF Kept
<1>4. Once(u, s) => Cardinality(B) <= 1
  <2>1. Once(u, s) => B = {} \/ \E y : B = {y}
    BY DEF Once
  <2>2. /\ B = {} => Cardinality(B) = 0
        /\ \A y : B = {y} => Cardinality(B) = 1
    BY FS_EmptySet, FS_Singleton
  <2> HIDE DEF B
  <2> QED
    BY <2>1, <2>2
<1>5. KeepsSession(t, u, s) => Cardinality(B) <= Cardinality(A)
  <2> SUFFICES ASSUME KeepsSession(t, u, s)
               PROVE  Cardinality(B) <= Cardinality(A)
    OBVIOUS
  <2>1. PICK f \in [B -> A] : \A y, z \in B : f[y] = f[z] => y = z
    BY DEF KeepsSession
  <2> HIDE DEF A, B
  <2>2. f \in Injection(B, A)
    BY <2>1 DEF Injection, IsInjective
  <2> QED
    BY <1>1, <2>2, FS_Injection
<1>6. AtHome(t, s) => Cardinality(B) > 0
  <2> HIDE DEF A, B
  <2> QED
    BY <1>1, <1>2, <1>3, FS_EmptySet
<1>7. ASSUME AtHome(t, s), Cardinality(A) = 1
      PROVE  PortalOf(u, s) = PortalOf(t, s)
  <2>1. PICK j : A = {j}
    <3> HIDE DEF A
    <3> QED
      BY <1>1, <1>7, FS_Singleton
  <2>2. Cardinality(B) = 1
    BY <1>2, <1>4, <1>5, <1>6, <1>7 DEF Kept
  <2>3. PICK y : B = {y}
    <3> HIDE DEF B
    <3> QED
      BY <1>1, <2>2, FS_Singleton
  <2>4. /\ PortalOf(t, s) = Portal(t.lines[j].keys)
        /\ PortalOf(u, s) = Portal(u.lines[y].keys)
    BY <2>1, <2>3, OnlyCopy
  <2>5. CASE KeepsSession(t, u, s)
    <3>1. PICK f \in [B -> A] : \A z \in B : Portal(u.lines[z].keys) = Portal(t.lines[f[z]].keys)
      BY <2>5 DEF KeepsSession
    <3>2. f[y] = j
      BY <2>1, <2>3, <3>1
    <3> QED
      BY <2>3, <2>4, <3>1, <3>2
  <2>6. CASE ~KeepsSession(t, u, s)
    BY <1>7, <2>3, <2>4, <2>6 DEF Kept
  <2> QED
    BY <2>5, <2>6
<1>8. Cardinality(B) <= 1 \/ Cardinality(B) <= Cardinality(A)
  BY <1>4, <1>5 DEF Kept
<1> QED
  BY <1>6, <1>7, <1>8

\* The lines a file starts with and users put in are lines.
LEMMA LineShape ==
  ASSUME NEW l \in Line
  PROVE  IsLine(l)
BY KeysTyped DEF Line, IsLine

\* The texts of the model are texts.
LEMMA TextShape ==
  ASSUME NEW t \in Text
  PROVE  IsText(t)
<1>1. t = [lines |-> t.lines, ended |-> t.ended] /\ t.lines \in Seq(Line)
  BY DEF Text
<1>2. IsSeq(t.lines)
  BY <1>1, SeqOfAnything
<1>3. \A i \in 1 .. Len(t.lines) : t.lines[i] \in Line
  BY <1>1
<1>4. \A i \in 1 .. Len(t.lines) : IsLine(t.lines[i])
  BY <1>3, LineShape
<1> QED
  BY <1>1, <1>2, <1>4 DEF IsText, AreLines

\* What a user makes of a text is a text.
LEMMA EditShape ==
  ASSUME NEW t, IsText(t), NEW lines, lines \subseteq Line, NEW u \in Edits(t, lines)
  PROVE  IsText(u)
<1> DEFINE L == Len(t.lines)
<1>1. L \in Nat /\ AreLines(t.lines)
  BY TextFacts DEF IsText
<1>2. \A ls : AreLines(ls) => IsText(WithLines(t, ls))
  BY DEF WithLines, IsText
<1>3. ASSUME NEW i \in 1 .. L + 1, NEW line \in lines
      PROVE  AreLines(InsertAt(t.lines, i, line))
  <2> DEFINE a == SubSeq(t.lines, 1, i - 1)
             b == <<line>>
             c == SubSeq(t.lines, i, L)
  <2>1. /\ 1 \in Nat \ {0} /\ i - 1 \in 0 .. L /\ 1 <= i - 1 + 1
        /\ i \in Nat \ {0} /\ L \in 0 .. L /\ i <= L + 1
    BY <1>1
  <2>2. AreLines(a) /\ AreLines(c)
    BY <1>1, <2>1, PartLines
  <2>3. AreLines(b)
    <3>1. IsLine(line)
      BY LineShape
    <3> QED
      BY <3>1, SmallSeqs DEF AreLines
  <2>4. InsertAt(t.lines, i, line) = (a \o b) \o c
    BY DEF InsertAt
  <2> HIDE DEF a, b, c
  <2>5. AreLines((a \o b) \o c)
    BY <2>2, <2>3, ConcatLines
  <2> QED
    BY <2>4, <2>5
<1>4. ASSUME NEW i \in 1 .. L
      PROVE  AreLines(RemoveAt(t.lines, i))
  <2> DEFINE a == SubSeq(t.lines, 1, i - 1)
             c == SubSeq(t.lines, i + 1, L)
  <2>1. /\ 1 \in Nat \ {0} /\ i - 1 \in 0 .. L /\ 1 <= i - 1 + 1
        /\ i + 1 \in Nat \ {0} /\ L \in 0 .. L /\ i + 1 <= L + 1
    BY <1>1
  <2>2. AreLines(a) /\ AreLines(c)
    BY <1>1, <2>1, PartLines
  <2>3. RemoveAt(t.lines, i) = a \o c
    BY DEF RemoveAt
  <2> HIDE DEF a, c
  <2>4. AreLines(a \o c)
    BY <2>2, ConcatLines
  <2> QED
    BY <2>3, <2>4
<1>5. DOMAIN t.lines = 1 .. L
  BY TextFacts DEF IsLines
<1>6. \/ \E i \in 1 .. L + 1, line \in lines : u = WithLines(t, InsertAt(t.lines, i, line))
      \/ \E i \in 1 .. L : u = WithLines(t, RemoveAt(t.lines, i))
      \/ u = [lines |-> t.lines, ended |-> FALSE]
  BY <1>5 DEF Edits
<1>7. IsText([lines |-> t.lines, ended |-> FALSE])
  BY <1>1 DEF IsText
<1> HIDE DEF L
<1> QED
  BY <1>2, <1>3, <1>4, <1>6, <1>7

\* Every command leaves the user's lines, and [default] its keys.
LEMMA OutcomeUser ==
  ASSUME NEW t, IsText(t), NEW c, IsCommand(c), Apart(t),
         NEW found, found => FindDefault(t).ok, FindDefault(t).ok => found
  PROVE  LET u == Outcome(t, c)
         IN /\ FewBlanksAdded(t, u, c, found)
            /\ c.op \in {"select", "clear"} => OwnKeys(t, u) = OwnKeys(t, t)
<1> DEFINE u == Outcome(t, c)
<1>1. c.op \in {"sync", "select", "setup", "clear", "doctor"}
  BY DEF IsCommand
<1>2. found => OneDefault(t)
  BY TextFacts, FindRight
<1>3. WellNested(t) => Settled(t, found)
  BY <1>2, ApartMeans DEF Settled
<1>4. CASE c.op = "sync"
  <2>1. FewBlanksAdded(t, Sync(t, c), c, found)
    BY <1>3, <1>4, SyncUser
  <2> QED
    BY <1>4, <2>1 DEF Outcome
<1>5. CASE c.op = "setup"
  <2>1. FewBlanksAdded(t, Setup(t, c), c, found)
    BY <1>2, <1>5, SetupUser
  <2> QED
    BY <1>5, <2>1 DEF Outcome
<1>6. CASE c.op = "select"
  <2>1. Keeps(t, Select(t, c), c, found)
    BY <1>6, SelectUser
  <2> QED
    BY <1>6, <2>1 DEF Outcome, Keeps
<1>7. CASE c.op = "clear"
  <2>1. Keeps(t, Clear(t), c, found)
    BY <1>7, ClearUser
  <2> QED
    BY <1>7, <2>1 DEF Outcome, Keeps
<1>8. CASE c.op = "doctor"
  <2>1. FewBlanksAdded(t, Doctor(t, c), c, found)
    BY <1>3, <1>8, DoctorUser
  <2> QED
    BY <1>8, <2>1 DEF Outcome
<1> QED
  BY <1>1, <1>4, <1>5, <1>6, <1>7, <1>8

-----------------------------------------------------------------------------
(***************************************************************************)
(* The theorems.                                                           *)
(***************************************************************************)
\* Whatever is run on the file, and whatever its user puts in or takes out, it is
\* a sequence of lines: no command writes anything else.
TypeInvariant == IsText(text)

\* What the config file holds is a text after every command and every edit.
THEOREM TypeCorrect == Spec => []TypeInvariant
<1>1. Init => TypeInvariant
  <2> SUFFICES ASSUME Init PROVE TypeInvariant
    OBVIOUS
  <2>1. text \in Text
    BY TextAssumption DEF Init
  <2> QED
    BY <2>1, TextShape DEF TypeInvariant
<1>2. TypeInvariant /\ [Next]_vars => TypeInvariant'
  <2> SUFFICES ASSUME TypeInvariant, [Next]_vars PROVE TypeInvariant'
    OBVIOUS
  <2>1. IsText(text)
    BY DEF TypeInvariant
  <2>2. CASE Run
    <3>1. PICK c \in Commands : text' = Outcome(text, c)
      BY <2>2 DEF Run
    <3>2. IsText(Outcome(text, c))
      BY <2>1, CommandAssumption, OutcomeKeeps
    <3> QED
      BY <3>1, <3>2 DEF TypeInvariant
  <2>3. CASE Edit
    <3>1. text' \in Edits(text, EditLines)
      BY <2>3 DEF Edit
    <3>2. IsText(text')
      BY <2>1, <3>1, TextAssumption, EditShape
    <3> QED
      BY <3>2 DEF TypeInvariant
  <2>4. CASE UNCHANGED vars
    BY <2>1, <2>4 DEF vars, TypeInvariant
  <2> QED
    BY <2>2, <2>3, <2>4 DEF Next
<1> QED
  BY <1>1, <1>2, PTL DEF Spec

\* What `scan` finds in any text the file can come to hold is its well-nested,
\* unique blocks, and it refuses every other text (managed_block.rs).
THEOREM BlocksFound == Spec => []ScanFindsBlocks
<1>1. TypeInvariant => ScanFindsBlocks
  <2> SUFFICES ASSUME IsText(text) PROVE ScanFindsBlocks
    BY DEF TypeInvariant
  <2> DEFINE L == Len(text.lines)
             begins == Marks(text, {"begin"})
             ends == Marks(text, {"end"})
  <2>1. IsLines(text) /\ L \in Nat
    BY TextFacts
  <2>2. Scan(text).ok <=> WellNested(text)
    BY <2>1, ScanRight
  <2>3. ASSUME Scan(text).ok
        PROVE  {<<b.first, b.last>> : b \in Range(Scan(text).blocks)} =
                 {p \in begins \X ends : Delimit(text, p[1], p[2])}
    <3>1. Range(Scan(text).blocks) = {BlockAt(text, p) : p \in Closed(text, L)}
      BY <2>1, <2>3, ScanRight
    <3>2. \A p \in Closed(text, L) :
            <<BlockAt(text, p).first, BlockAt(text, p).last>> = p
      BY DEF Closed, BlockAt
    <3>3. {<<b.first, b.last>> : b \in {BlockAt(text, p) : p \in Closed(text, L)}}
            = Closed(text, L)
      BY <3>2
    <3>4. begins \X ends \subseteq (1 .. L) \X (1 .. L)
      BY <2>1 DEF Marks, IsLines
    <3>5. \A p \in Closed(text, L) : p \in begins \X ends
      BY <2>1 DEF Closed, Delimit, Marks, IsLines
    <3>6. Closed(text, L) = {p \in begins \X ends : Delimit(text, p[1], p[2])}
      BY <3>4, <3>5 DEF Closed
    <3> QED
      BY <3>1, <3>3, <3>6
  <2> QED
    BY <2>2, <2>3 DEF ScanFindsBlocks
<1> QED
  BY <1>1, TypeCorrect, PTL

\* What `find` says of the default profile is right of any text the file can come
\* to hold: where it is, who wrote it, and that there is not more than one
\* (default_block.rs).
THEOREM DefaultFound == Spec => []FindKnowsOwner
<1>1. TypeInvariant => FindKnowsOwner
  <2> SUFFICES ASSUME IsText(text) PROVE FindKnowsOwner
    BY DEF TypeInvariant
  <2> DEFINE found == FindDefault(text)
  <2>1. IsLines(text)
    BY TextFacts
  <2>2. found.ok <=> OneDefault(text)
    BY <2>1, FindRight
  <2>3. ASSUME found.ok
        PROVE  {<<r.first, r.last>> : r \in Range(found.managed)} = DefaultBlocks(text)
    <3>1. CASE found.managed = <<>>
      <4>1. Range(found.managed) = {}
        BY <3>1 DEF Range
      <4>2. DefaultBlocks(text) = {}
        BY <2>1, <2>3, <3>1, FindRight
      <4> QED
        BY <4>1, <4>2
    <3>2. CASE found.managed # <<>>
      <4>1. PICK a, b \in 1 .. Len(text.lines) :
              found.managed = <<RangeAt(a, b)>> /\ DefaultBlocks(text) = {<<a, b>>}
        BY <2>1, <2>3, <3>2, FindRight
      <4>2. Range(<<RangeAt(a, b)>>) = {RangeAt(a, b)}
        BY DEF Range
      <4>3. {<<r.first, r.last>> : r \in {RangeAt(a, b)}} = {<<a, b>>}
        BY DEF RangeAt
      <4> QED
        BY <4>1, <4>2, <4>3
    <3> QED
      BY <3>1, <3>2
  <2>4. ASSUME found.ok, found.managed = <<>>
        PROVE  {r.first : r \in Range(found.hand)} = Marks(text, {"default"})
    <3>1. CASE found.hand = <<>>
      <4>1. Range(found.hand) = {}
        BY <3>1 DEF Range
      <4>2. Marks(text, {"default"}) = {}
        BY <2>1, <2>4, <3>1, FindRight
      <4> QED
        BY <4>1, <4>2
    <3>2. CASE found.hand # <<>>
      <4>1. PICK h \in 1 .. Len(text.lines) :
              found.hand = <<RangeAt(h, h)>> /\ Marks(text, {"default"}) = {h}
        BY <2>1, <2>4, <3>2, FindRight
      <4>2. Range(<<RangeAt(h, h)>>) = {RangeAt(h, h)}
        BY DEF Range
      <4>3. {r.first : r \in {RangeAt(h, h)}} = {h}
        BY DEF RangeAt
      <4> QED
        BY <4>1, <4>2, <4>3
    <3> QED
      BY <3>1, <3>2
  <2> QED
    BY <2>2, <2>3, <2>4 DEF FindKnowsOwner
<1> QED
  BY <1>1, TypeCorrect, PTL

\* A step of a user's edit is told from a command's, and a command's text is its
\* outcome on the text it found.
LEMMA StepsOf ==
  ASSUME TypeInvariant, Next, ran' # UserEdit
  PROVE  \E c \in Commands : IsCommand(c) /\ ran' = c /\ text' = Outcome(text, c)
BY CommandAssumption DEF Next, Run, Edit

\* What a command writes it can read again: whatever the markers of the file were
\* when it began, none of them is broken by it, but for a sync that plans a
\* profile of the default profile's name (managed_block.rs:94-95).
THEOREM MarkersKept == Spec => MarkersStayWhole
<1>1. TypeInvariant /\ [Next]_vars => [KeepsMarkers]_vars
  <2> SUFFICES ASSUME TypeInvariant, Next, ran' # UserEdit
               PROVE  KeepsMarkers
    BY DEF KeepsMarkers
  <2>1. IsText(text)
    BY DEF TypeInvariant
  <2>2. PICK c \in Commands : IsCommand(c) /\ ran' = c /\ text' = Outcome(text, c)
    BY StepsOf
  <2> DEFINE u == Outcome(text, c)
  <2>3. /\ IsText(u)
        /\ WellNested(text) => WellNested(u)
        /\ /\ OneDefault(text) /\ (WellNested(text) => AreApart(text))
           /\ c.op = "sync" => ~NamesDefault(u)
           => OneDefault(u)
    BY <2>1, <2>2, OutcomeKeeps
  <2>4. /\ Scan(text).ok <=> WellNested(text)
        /\ FindDefault(text).ok <=> OneDefault(text)
    BY <2>1, TextFacts, ScanRight, FindRight
  <2>5. /\ Scan(u).ok <=> WellNested(u)
        /\ FindDefault(u).ok <=> OneDefault(u)
    BY <2>3, TextFacts, ScanRight, FindRight
  <2>6. OneDefault(text) /\ WellNested(text) /\ Apart(text) => AreApart(text)
    BY <2>1, ApartMeans
  <2> HIDE DEF u
  <2>7. /\ Scan(text).ok => Scan(u).ok
        /\ /\ FindDefault(text).ok /\ Apart(text)
           /\ c.op = "sync" => ~NamesDefault(u)
           => FindDefault(u).ok
    BY <2>3, <2>4, <2>5, <2>6
  <2>8. text' = u
    BY <2>2 DEF u
  <2> QED
    BY <2>2, <2>7, <2>8 DEF KeepsMarkers
<1> QED
  BY <1>1, TypeCorrect, PTL DEF Spec, MarkersStayWhole

\* The block of a session that the file still defines is never removed
\* (doctor/fix.rs:127-145).
THEOREM BlocksKept == Spec => OnlyDeadBlocksGo
<1>1. TypeInvariant /\ [Next]_vars => [KeepsBlocks]_vars
  <2> SUFFICES ASSUME TypeInvariant, Next, ran' # UserEdit,
                      NEW b \in Blocks(text), b.of \in SessionsIn(text)
               PROVE  \E d \in Blocks(text') : d.of = b.of
    BY DEF KeepsBlocks
  <2>1. IsText(text)
    BY DEF TypeInvariant
  <2>2. PICK c \in Commands : IsCommand(c) /\ text' = Outcome(text, c)
    BY StepsOf
  <2> DEFINE u == Outcome(text, c)
  <2>3. /\ IsText(u)
        /\ WellNested(text) => WellNested(u)
        /\ WellNested(text) =>
             \A x : Begun(text, x) /\ x \notin DeadBlocks(text) => Begun(u, x)
    BY <2>1, <2>2, OutcomeKeeps
  <2> HIDE DEF u
  <2>4. WellNested(text) /\ Begun(text, b.of)
    <3>1. HasBlock(text, b.of)
      BY DEF HasBlock
    <3> QED
      BY <2>1, <3>1, BlockFacts
  <2>5. b.of \notin DeadBlocks(text)
    BY DEF DeadBlocks
  <2>6. HasBlock(u, b.of)
    BY <2>3, <2>4, <2>5, BlockFacts
  <2>7. text' = u
    BY <2>2 DEF u
  <2> QED
    BY <2>6, <2>7 DEF HasBlock
<1> QED
  BY <1>1, TypeCorrect, PTL DEF Spec, OnlyDeadBlocksGo

\* A session that is defined in its own block, or by the user, is never lost by
\* a command, never gets a second definition, and stays the session of its portal
\* (sync.rs:42, setup.rs:70-86, profiles.rs:356).
THEOREM SessionsStay == Spec => SessionsKept
<1>1. TypeInvariant /\ [Next]_vars => [KeepsSessions]_vars
  <2> SUFFICES ASSUME TypeInvariant, Next, ran' # UserEdit, NEW s \in Sessions
               PROVE  LET before == Cardinality(Copies(text, s))
                          after == Cardinality(Copies(text', s))
                      IN /\ AtHome(text, s) => after > 0
                         /\ after <= 1 \/ after <= before
                         /\ AtHome(text, s) /\ before = 1 =>
                              PortalOf(text', s) = PortalOf(text, s)
    BY DEF KeepsSessions
  <2>1. IsText(text)
    BY DEF TypeInvariant
  <2>2. PICK c \in Commands : IsCommand(c) /\ text' = Outcome(text, c)
    BY StepsOf
  <2> DEFINE u == Outcome(text, c)
  <2>3. IsText(u) /\ Kept(text, u, s)
    BY <2>1, <2>2, OutcomeKeeps, OutcomeKept
  <2> HIDE DEF u
  <2>4. text' = u
    BY <2>2 DEF u
  <2> QED
    BY <2>1, <2>3, <2>4, KeptMeans
<1> QED
  BY <1>1, TypeCorrect, PTL DEF Spec, SessionsKept

\* A command never changes, drops, doubles or moves a line the user wrote outside
\* gac's blocks, however often it is run and whatever the text, but for the keys
\* the user agreed to give up; and [default] keeps its other keys when gac takes
\* it over, picks a role and clears it (managed_block.rs:4-5, section.rs:1-4,
\* README.md:64).
THEOREM UserLinesStay == Spec => UserLinesKept
<1>1. TypeInvariant /\ [Next]_vars => [KeepsUserLines]_vars
  <2> DEFINE found == FindDefault(text).ok
  <2> SUFFICES ASSUME TypeInvariant, Next, ran' # UserEdit, Apart(text)
               PROVE  /\ \E n \in 0 .. Cardinality(BlockNames(text') \ BlockNames(text)) :
                           UserLines(text', ran', found) =
                             UserLines(text, ran', found) \o [i \in 1 .. n |-> Blank]
                      /\ ran'.op \in {"select", "clear"} =>
                           OwnKeys(text, text') = OwnKeys(text, text)
    BY DEF KeepsUserLines
  <2>1. IsText(text)
    BY DEF TypeInvariant
  <2>2. PICK c \in Commands : IsCommand(c) /\ ran' = c /\ text' = Outcome(text, c)
    BY StepsOf
  <2> DEFINE u == Outcome(text, c)
  <2>3. found => FindDefault(text).ok
    OBVIOUS
  <2>4. FindDefault(text).ok => found
    OBVIOUS
  <2> HIDE DEF found
  <2>5. /\ FewBlanksAdded(text, u, c, found)
        /\ c.op \in {"select", "clear"} => OwnKeys(text, u) = OwnKeys(text, text)
    BY <2>1, <2>2, <2>3, <2>4, OutcomeUser
  <2> HIDE DEF u
  <2>6. text' = u
    BY <2>2 DEF u
  <2> QED
    BY <2>2, <2>5, <2>6 DEF FewBlanksAdded, Shows, Blanks
<1> QED
  BY <1>1, TypeCorrect, PTL DEF Spec, UserLinesKept

\* A profile that sync writes has a name that no profile section outside its
\* session's block has: neither one the user wrote nor one in another block
\* (guards.rs:1-4).
THEOREM NamesTakenOnce == Spec => NameTakenOnce
<1>1. TypeInvariant /\ [Next]_vars => [TakesNoName]_vars
  <2> SUFFICES ASSUME TypeInvariant, Next, ran'.op = "sync", text' # text
               PROVE  NamesAlone(text', SyncedSession(text, ran'))
    BY DEF TakesNoName, NamesAlone
  <2>1. IsText(text) /\ ran' # UserEdit
    BY DEF TypeInvariant, UserEdit
  <2>2. PICK c \in Commands : IsCommand(c) /\ ran' = c /\ text' = Outcome(text, c)
    BY <2>1, StepsOf
  <2>3. text' = Sync(text, c)
    BY <2>2 DEF Outcome
  <2> QED
    BY <2>1, <2>2, <2>3, SyncNames
<1> QED
  BY <1>1, TypeCorrect, PTL DEF Spec, NameTakenOnce

===============================================================================
