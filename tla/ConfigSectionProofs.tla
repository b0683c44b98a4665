-------------------------- MODULE ConfigSectionProofs --------------------------
(***************************************************************************)
(* What the edits of a section do to its other keys, for every section,    *)
(* every key and every value; and the lines of keys, sections and texts    *)
(* that the commands put together.                                         *)
(***************************************************************************)
EXTENDS ConfigText, SequenceTheorems, FiniteSetTheorems, WellFoundedInduction, TLAPS

-----------------------------------------------------------------------------
(***************************************************************************)
(* Numbers                                                                 *)
(***************************************************************************)
LEMMA LeastNumber ==
  ASSUME NEW T \in SUBSET Nat, T # {}
  PROVE  \E x \in T : \A y \in T : x <= y
<1> DEFINE below == {ss \in Nat \X Nat : ss[1] < ss[2]}
<1>1. IsWellFoundedOn(below, Nat)
  BY NatLessThanWellFounded DEF OpToRel
<1> HIDE DEF below
<1>2. \E x \in T : \A y \in T : ~ (<<y, x>> \in below)
  BY <1>1, WFMin
<1>3. ASSUME NEW x \in Nat, NEW y \in Nat, ~ (<<y, x>> \in below)
      PROVE  x <= y
  BY <1>3 DEF below
<1> QED
  BY <1>2, <1>3

\* A set of numbers with a bound has a greatest.
LEMMA GreatestNumber ==
  ASSUME NEW n \in Nat, NEW T \in SUBSET (0 .. n), T # {}
  PROVE  \E x \in T : \A y \in T : y <= x
<1> DEFINE room == {n - e : e \in T}
<1>1. room \subseteq Nat /\ room # {}
  <2>1. \A e \in T : e \in Int /\ n - e \in Nat
    OBVIOUS
  <2> QED
    BY <2>1
<1>2. PICK x \in room : \A y \in room : x <= y
  BY <1>1, LeastNumber
<1>3. PICK e \in T : x = n - e
  BY <1>2
<1>4. \A y \in T : n - y \in room
  OBVIOUS
<1>5. \A y \in T : n - e <= n - y
  BY <1>2, <1>3, <1>4
<1> QED
  BY <1>5

\* What holds of 0, and of a number with the one before, holds up to any number.
LEMMA UpTo ==
  ASSUME NEW L \in Nat, NEW good, 0 \in good,
         \A m \in 1 .. L : m - 1 \in good => m \in good
  PROVE  \A m \in 0 .. L : m \in good
<1> DEFINE bad == {m \in 0 .. L : m \notin good}
<1>1. bad \in SUBSET Nat
  OBVIOUS
<1>2. ASSUME NEW m \in bad, \A y \in bad : m <= y
      PROVE  FALSE
  <2>1. m \in 1 .. L
    OBVIOUS
  <2>2. m - 1 \in 0 .. L /\ ~ (m <= m - 1)
    BY <2>1
  <2>3. m - 1 \in good
    BY <1>2, <2>2, Zenon
  <2> QED
    BY <2>1, <2>3, Zenon
<1>3. bad = {}
  <2> HIDE DEF bad
  <2> QED
    BY <1>1, <1>2, LeastNumber
<1> QED
  BY <1>3

\* A key that is there has a first line.
LEMMA FirstPosition ==
  ASSUME NEW S, NEW keys \in Seq(S), NEW key, Has(keys, key)
  PROVE  /\ Position(keys, key) \in 1 .. Len(keys)
         /\ keys[Position(keys, key)][1] = key
         /\ \A j \in 1 .. Len(keys) : keys[j][1] = key => Position(keys, key) <= j
<1>1. Len(keys) \in Nat /\ DOMAIN keys = 1 .. Len(keys)
  BY LenProperties
<1>2. Positions(keys, key) \subseteq Nat
  BY <1>1 DEF Positions
<1>3. \E i \in Positions(keys, key) : \A j \in Positions(keys, key) : i <= j
  BY <1>2, LeastNumber DEF Has
<1>4. /\ Position(keys, key) \in Positions(keys, key)
      /\ \A j \in Positions(keys, key) : Position(keys, key) <= j
  BY <1>3 DEF Position
<1>5. Positions(keys, key) = {i \in 1 .. Len(keys) : keys[i][1] = key}
  BY <1>1, Zenon DEF Positions
<1> QED
  BY <1>4, <1>5, Zenon

\* A key that is not there is on no line.
LEMMA NoPosition ==
  ASSUME NEW S, NEW keys \in Seq(S), NEW key, ~Has(keys, key)
  PROVE  \A j \in 1 .. Len(keys) : keys[j][1] # key
<1>1. DOMAIN keys = 1 .. Len(keys)
  BY LenProperties
<1> QED
  BY <1>1, Zenon DEF Has, Positions

\* A value ends: at the last of the lines that continue it.
LEMMA LastOfValue ==
  ASSUME NEW S, NEW keys \in Seq(S), NEW i \in DOMAIN keys
  PROVE  /\ ValueEnd(keys, i) \in i .. Len(keys)
         /\ \A x \in i + 1 .. ValueEnd(keys, i) : keys[x][1] = Continued
         /\ ValueEnd(keys, i) < Len(keys) =>
              keys[ValueEnd(keys, i) + 1][1] # Continued
<1> DEFINE stops ==
      {j \in i .. Len(keys) : j < Len(keys) => keys[j + 1][1] # Continued}
<1>1. i \in 1 .. Len(keys) /\ Len(keys) \in Nat
  OBVIOUS
<1>2. Len(keys) \in stops /\ stops \subseteq Nat
  BY <1>1
<1>3. PICK j \in stops : \A y \in stops : j <= y
  BY <1>2, LeastNumber
<1>4. ASSUME NEW x \in i + 1 .. j
      PROVE  keys[x][1] = Continued
  <2>1. x - 1 \in i .. Len(keys) /\ x - 1 < j
    BY <1>1, <1>3, <1>4
  <2>2. x - 1 \notin stops
    BY <1>1, <1>3, <2>1
  <2> QED
    BY <1>1, <2>1, <2>2
<1>5. \E k \in i .. Len(keys) :
        /\ \A x \in i + 1 .. k : keys[x][1] = Continued
        /\ k < Len(keys) => keys[k + 1][1] # Continued
  BY <1>3, <1>4
<1> QED
  BY <1>5 DEF ValueEnd

\* The place for a new key is in the section.
LEMMA AnchorInside ==
  ASSUME NEW S, NEW keys \in Seq(S), NEW after
  PROVE  Anchor(keys, after) \in 0 .. Len(keys)
<1> DEFINE ends == {ValueEnd(keys, i) : i \in {j \in DOMAIN keys : keys[j][1] \in after}}
           last == CHOOSE i \in ends : \A j \in ends : j <= i
<1>1. Len(keys) \in Nat /\ DOMAIN keys = 1 .. Len(keys)
  OBVIOUS
<1>2. ends \in SUBSET (0 .. Len(keys))
  BY <1>1, LastOfValue
<1>3. Anchor(keys, after) = IF ends = {} THEN 0 ELSE last
  BY DEF Anchor
<1> HIDE DEF ends
<1>4. ends # {} => \E i \in ends : \A j \in ends : j <= i
  BY <1>1, <1>2, GreatestNumber
<1>5. ends # {} => last \in ends
  BY <1>4
<1> HIDE DEF last
<1>6. ASSUME ends = {} PROVE Anchor(keys, after) = 0
  BY <1>3, <1>6
<1>7. ASSUME ends # {} PROVE last \in 0 .. Len(keys)
  BY <1>2, <1>5, <1>7
<1>8. 0 \in 0 .. Len(keys)
  BY <1>1
<1> QED
  BY <1>3, <1>7, <1>8, Zenon

-----------------------------------------------------------------------------
(***************************************************************************)
(* What a section reads as                                                 *)
(***************************************************************************)

\* The first line with a key has its value.
LEMMA GetFirst ==
  ASSUME NEW S, NEW keys \in Seq(S), NEW key, NEW i \in 1 .. Len(keys),
         keys[i][1] = key,
         \A j \in 1 .. i - 1 : keys[j][1] # key
  PROVE  Has(keys, key) /\ Position(keys, key) = i /\ Get(keys, key) = Tail(keys[i])
<1>1. Len(keys) \in Nat /\ DOMAIN keys = 1 .. Len(keys)
  BY LenProperties
<1>2. Has(keys, key)
  BY <1>1 DEF Has, Positions
<1>3. /\ Position(keys, key) \in 1 .. Len(keys)
      /\ keys[Position(keys, key)][1] = key
      /\ Position(keys, key) <= i
  BY <1>2, FirstPosition, Zenon
<1>4. Position(keys, key) \notin 1 .. i - 1
  BY <1>3, Zenon
<1>5. Position(keys, key) = i
  BY <1>1, <1>3, <1>4
<1> QED
  BY <1>2, <1>5, Zenon DEF Get

\* One element put before a sequence is its head.
LEMMA PutBefore ==
  ASSUME NEW S, NEW e \in S, NEW s \in Seq(S)
  PROVE  /\ <<e>> \o s \in Seq(S) \ {<<>>}
         /\ (<<e>> \o s)[1] = e
         /\ Tail(<<e>> \o s) = s
<1> DEFINE t == <<e>> \o s
<1>1. <<e>> \in Seq(S) /\ Len(<<e>>) = 1 /\ <<e>>[1] = e /\ Len(s) \in Nat
  OBVIOUS
<1>2. /\ t \in Seq(S)
      /\ Len(t) = 1 + Len(s)
      /\ \A i \in 1 .. 1 + Len(s) : t[i] = IF i <= 1 THEN <<e>>[i] ELSE s[i - 1]
  BY <1>1, ConcatProperties
<1> HIDE DEF t
<1>3. t # <<>> /\ t[1] = e
  BY <1>1, <1>2
<1>4. /\ Tail(t) \in Seq(S)
      /\ Len(Tail(t)) = Len(s)
      /\ \A i \in 1 .. Len(s) : Tail(t)[i] = s[i]
  BY <1>1, <1>2, <1>3, HeadTailProperties
<1>5. Tail(t) = s
  BY <1>4, SeqEqual
<1> QED
  BY <1>2, <1>3, <1>5 DEF t

\* A line of a key and a value.
LEMMA NewLine ==
  ASSUME NEW key \in STRING, NEW value \in Seq(STRING)
  PROVE  /\ Assigned(key, value) \in KeyLine
         /\ (Assigned(key, value))[1] = key
         /\ Tail(Assigned(key, value)) = value
BY PutBefore DEF KeyLine, Assigned

-----------------------------------------------------------------------------
(***************************************************************************)
(* Section::set                                                            *)
(***************************************************************************)

\* A key that is there is set on its first line.
LEMMA SetInPlace ==
  ASSUME NEW S, NEW keys \in Seq(S), NEW key, NEW value, NEW after,
         Assigned(key, value) \in S, Has(keys, key)
  PROVE  LET new == SetKey(keys, key, value, after)
             p == Position(keys, key)
         IN /\ new \in Seq(S)
            /\ Len(new) = Len(keys)
            /\ p \in 1 .. Len(keys)
            /\ new[p] = Assigned(key, value)
            /\ \A i \in 1 .. Len(keys) : i # p => new[i] = keys[i]
<1> DEFINE new == SetKey(keys, key, value, after)
           p == Position(keys, key)
<1> DEFINE line == Assigned(key, value)
<1>1. p \in 1 .. Len(keys)
  BY FirstPosition, Zenon
<1>2. line \in S
  OBVIOUS
<1>3. new = [keys EXCEPT ![p] = line]
  BY DEF SetKey
<1> HIDE DEF line
<1>4. /\ new \in Seq(S)
      /\ Len(new) = Len(keys)
      /\ \A i \in 1 .. Len(keys) : new[i] = IF i = p THEN line ELSE keys[i]
  BY <1>1, <1>2, <1>3, ExceptSeq
<1> QED
  BY <1>1, <1>4 DEF line

\* A key that is not there gets a line of its own below the anchor.
LEMMA SetInserted ==
  ASSUME NEW S, NEW keys \in Seq(S), NEW key, NEW value, NEW after,
         Assigned(key, value) \in S, ~Has(keys, key)
  PROVE  LET new == SetKey(keys, key, value, after)
             a == Anchor(keys, after)
         IN /\ a \in 0 .. Len(keys)
            /\ new \in Seq(S)
            /\ Len(new) = Len(keys) + 1
            /\ \A i \in 1 .. a : new[i] = keys[i]
            /\ new[a + 1] = Assigned(key, value)
            /\ \A i \in a + 1 .. Len(keys) : new[i + 1] = keys[i]
<1> DEFINE new == SetKey(keys, key, value, after)
           a == Anchor(keys, after)
<1> DEFINE line == Assigned(key, value)
           top == SubSeq(keys, 1, a)
           rest == SubSeq(keys, a + 1, Len(keys))
           left == top \o <<line>>
<1>1. a \in 0 .. Len(keys) /\ Len(keys) \in Nat
  BY AnchorInside
<1>2. line \in S
  OBVIOUS
<1>3. \A i \in 1 .. Len(keys) : keys[i] \in S
  OBVIOUS
<1> HIDE DEF line
<1>4. top \in Seq(S) /\ Len(top) = a /\ \A i \in 1 .. a : top[i] = keys[i]
  BY <1>1, <1>3, SubSeqProperties
<1>5. /\ rest \in Seq(S)
      /\ Len(rest) = Len(keys) - a
      /\ \A i \in 1 .. Len(keys) - a : rest[i] = keys[a + i]
  BY <1>1, <1>3, SubSeqProperties
<1> HIDE DEF top, rest
<1>6. <<line>> \in Seq(S) /\ Len(<<line>>) = 1 /\ <<line>>[1] = line
  BY <1>2
<1>7. /\ left \in Seq(S)
      /\ Len(left) = a + 1
      /\ \A i \in 1 .. a + 1 : left[i] = IF i <= a THEN top[i] ELSE <<line>>[i - a]
  BY <1>4, <1>6, ConcatProperties
<1>8. /\ left \in Seq(S)
      /\ Len(left) = a + 1
      /\ left[a + 1] = line
      /\ \A i \in 1 .. a : left[i] = keys[i]
  BY <1>1, <1>4, <1>6, <1>7
<1> HIDE DEF left
<1>9. /\ left \o rest \in Seq(S)
      /\ Len(left \o rest) = Len(left) + Len(rest)
      /\ \A i \in 1 .. Len(left) + Len(rest) :
           (left \o rest)[i] = IF i <= Len(left) THEN left[i] ELSE rest[i - Len(left)]
  BY <1>5, <1>8, ConcatProperties
<1>10. Len(left) + Len(rest) = Len(keys) + 1
  BY <1>1, <1>5, <1>8
<1>11. /\ left \o rest \in Seq(S)
      /\ Len(left \o rest) = Len(keys) + 1
      /\ \A i \in 1 .. Len(keys) + 1 :
           (left \o rest)[i] = IF i <= a + 1 THEN left[i] ELSE rest[i - (a + 1)]
  BY <1>8, <1>9, <1>10
<1>12. \A i \in a + 1 .. Len(keys) : (left \o rest)[i + 1] = keys[i]
  <2> TAKE i \in a + 1 .. Len(keys)
  <2>1. i + 1 \in 1 .. Len(keys) + 1 /\ ~ (i + 1 <= a + 1)
    BY <1>1
  <2>2. i - a \in 1 .. Len(keys) - a /\ a + (i - a) = i /\ (i + 1) - (a + 1) = i - a
    BY <1>1
  <2> QED
    BY <1>5, <1>11, <2>1, <2>2
<1>13. new = left \o rest
  BY DEF SetKey, left, top, rest, line
<1>14. \A i \in 1 .. a : (left \o rest)[i] = keys[i]
  BY <1>1, <1>8, <1>11
<1>15. (left \o rest)[a + 1] = line
  BY <1>1, <1>8, <1>11
<1> QED
  BY <1>1, <1>11, <1>12, <1>13, <1>14, <1>15 DEF line

\* No line before the one with the key that is set has it.
LEMMA SetFirst ==
  ASSUME NEW S, NEW keys \in Seq(S), NEW key, NEW value, NEW after,
         Assigned(key, value) \in S
  PROVE  LET new == SetKey(keys, key, value, after)
         IN /\ new \in Seq(S)
            /\ \E i \in 1 .. Len(new) :
                 /\ new[i] = Assigned(key, value)
                 /\ \A j \in 1 .. i - 1 : new[j][1] # key
<1> DEFINE new == SetKey(keys, key, value, after)
           p == Position(keys, key)
           a == Anchor(keys, after)
<1>1. CASE Has(keys, key)
  <2>1. \A j \in 1 .. Len(keys) : keys[j][1] = key => p <= j
    BY <1>1, FirstPosition, Zenon
  <2>2. /\ new \in Seq(S) /\ Len(new) = Len(keys)
        /\ p \in 1 .. Len(keys) /\ new[p] = Assigned(key, value)
        /\ \A i \in 1 .. Len(keys) : i # p => new[i] = keys[i]
    BY <1>1, SetInPlace, SMTT(30)
  <2> HIDE DEF new, p
  <2>3. \A j \in 1 .. p - 1 : new[j][1] # key
    <3> TAKE j \in 1 .. p - 1
    <3>1. j \in 1 .. Len(keys) /\ j # p /\ ~ (p <= j)
      BY <2>2
    <3> QED
      BY <2>1, <2>2, <3>1
  <2>4. p \in 1 .. Len(new)
    BY <2>2
  <2> QED
    BY <2>2, <2>3, <2>4, Zenon DEF new
<1>2. CASE ~Has(keys, key)
  <2>1. \A j \in 1 .. Len(keys) : keys[j][1] # key
    BY <1>2, NoPosition, Zenon
  <2>2. /\ a \in 0 .. Len(keys)
        /\ new \in Seq(S) /\ Len(new) = Len(keys) + 1
        /\ new[a + 1] = Assigned(key, value)
        /\ \A i \in 1 .. a : new[i] = keys[i]
    BY <1>2, SetInserted, SMTT(30)
  <2> HIDE DEF new, a
  <2>3. a + 1 \in 1 .. Len(new) /\ (a + 1) - 1 = a /\ 1 .. a \subseteq 1 .. Len(keys)
    BY <2>2
  <2>4. \A j \in 1 .. a : new[j][1] # key
    BY <2>1, <2>2, <2>3
  <2>5. \A j \in 1 .. (a + 1) - 1 : new[j][1] # key
    BY <2>3, <2>4, Zenon
  <2> QED
    BY <2>2, <2>3, <2>5, Zenon DEF new
<1> QED
  BY <1>1, <1>2

\* What gac sets is what it reads back, whether the key was there once, several
\* times or not at all (section.rs, Section::set and Section::get).
THEOREM SetIsRead ==
  ASSUME NEW keys \in Seq(KeyLine), NEW key \in STRING,
         NEW value \in Seq(STRING), NEW after
  PROVE  Get(SetKey(keys, key, value, after), key) = value
<1> DEFINE line == Assigned(key, value)
           new == SetKey(keys, key, value, after)
<1>1. line \in KeyLine /\ line[1] = key /\ Tail(line) = value
  BY NewLine
<1>2. /\ new \in Seq(KeyLine)
      /\ \E i \in 1 .. Len(new) : new[i] = line /\ \A j \in 1 .. i - 1 : new[j][1] # key
  BY <1>1, SetFirst, SMTT(30)
<1> HIDE DEF line, new
<1>3. PICK i \in 1 .. Len(new) : new[i] = line /\ \A j \in 1 .. i - 1 : new[j][1] # key
  BY <1>2
<1>4. Get(new, key) = Tail(line)
  BY <1>1, <1>2, <1>3, GetFirst, Zenon
<1> QED
  BY <1>1, <1>4 DEF new

-----------------------------------------------------------------------------
(***************************************************************************)
(* The other keys                                                          *)
(***************************************************************************)

\* Two sections answer the same for a key when the lines that have it are the
\* same lines in the same order: line i of the one is line f[i] of the other.
LEMMA SameAnswer ==
  ASSUME NEW S, NEW short \in Seq(S), NEW long \in Seq(S), NEW key,
         NEW f \in [1 .. Len(short) -> 1 .. Len(long)],
         \A i, j \in 1 .. Len(short) : i < j => f[i] < f[j],
         \A i \in 1 .. Len(short) :
           short[i][1] = key \/ long[f[i]][1] = key => short[i] = long[f[i]],
         \A x \in 1 .. Len(long) :
           long[x][1] = key => \E i \in 1 .. Len(short) : f[i] = x
  PROVE  Get(short, key) = Get(long, key)
<1>1. CASE Has(short, key)
  <2> DEFINE q == Position(short, key)
  <2>1. /\ q \in 1 .. Len(short) /\ short[q][1] = key
        /\ \A i \in 1 .. Len(short) : short[i][1] = key => q <= i
    BY <1>1, FirstPosition, Zenon
  <2>2. Get(short, key) = Tail(short[q])
    BY <1>1, Zenon DEF Get
  <2> HIDE DEF q
  <2>3. f[q] \in 1 .. Len(long) /\ long[f[q]] = short[q]
    BY <2>1
  <2>4. ASSUME NEW x \in 1 .. f[q] - 1, long[x][1] = key
        PROVE  FALSE
    <3>1. x \in 1 .. Len(long) /\ x < f[q]
      BY <2>3
    <3>2. PICK i \in 1 .. Len(short) : f[i] = x
      BY <2>4, <3>1, Zenon
    <3>3. short[i][1] = key
      BY <2>4, <3>2, Zenon
    <3>4. q = i \/ q < i
      BY <2>1, <3>3
    <3>5. q < i => f[q] < f[i]
      BY <2>1
    <3>6. f[q] \in Int /\ f[q] # f[i] /\ ~(f[q] < f[i])
      BY <2>3, <3>1, <3>2
    <3> QED
      BY <3>4, <3>5, <3>6, Zenon
  <2>5. PICK x \in 1 .. Len(long) : x = f[q]
    BY <2>3
  <2>6. long[x][1] = key /\ \A j \in 1 .. x - 1 : long[j][1] # key
    BY <2>1, <2>3, <2>4, <2>5, Zenon
  <2>7. Get(long, key) = Tail(long[x])
    BY <2>6, GetFirst, SMTT(30)
  <2> QED
    BY <2>2, <2>3, <2>7, <2>5, Zenon
<1>2. CASE ~Has(short, key)
  <2>1. \A i \in 1 .. Len(short) : short[i][1] # key
    BY <1>2, NoPosition, Zenon
  <2>2. ASSUME NEW x \in 1 .. Len(long), long[x][1] = key
        PROVE  FALSE
    <3>1. PICK i \in 1 .. Len(short) : f[i] = x
      BY <2>2, Zenon
    <3>2. short[i] = long[x]
      BY <2>2, <3>1, Zenon
    <3> QED
      BY <2>1, <2>2, <3>2, Zenon
  <2>3. ~Has(long, key)
    <3>1. DOMAIN long = 1 .. Len(long)
      BY LenProperties
    <3> QED
      BY <2>2, <3>1, Zenon DEF Has, Positions
  <2> QED
    BY <1>2, <2>3, Zenon DEF Get
<1> QED
  BY <1>1, <1>2

\* Setting a key changes no other (section.rs, Section::set).  The line that is
\* set has the key, as NewLine says of every key and value.
THEOREM SetKeepsOthers ==
  ASSUME NEW S, NEW keys \in Seq(S), NEW key, NEW value, NEW after, NEW other,
         Assigned(key, value) \in S, Assigned(key, value)[1] = key,
         other # key
  PROVE  Get(SetKey(keys, key, value, after), other) = Get(keys, other)
<1> DEFINE line == Assigned(key, value)
           new == SetKey(keys, key, value, after)
<1>1. line[1] # other
  OBVIOUS
<1>2. Len(keys) \in Nat
  BY LenProperties
<1>3. CASE Has(keys, key)
  <2> DEFINE p == Position(keys, key)
             f == [i \in 1 .. Len(keys) |-> i]
  <2>1. keys[p][1] = key
    BY <1>3, FirstPosition, Zenon
  <2>2. /\ new \in Seq(S) /\ Len(new) = Len(keys)
        /\ new[p] = line
        /\ \A i \in 1 .. Len(keys) : i # p => new[i] = keys[i]
    BY <1>3, SetInPlace, SMTT(30)
  <2> HIDE DEF new, p, line
  <2>3. f \in [1 .. Len(keys) -> 1 .. Len(new)]
    BY <2>2
  <2>4. \A i, j \in 1 .. Len(keys) : i < j => f[i] < f[j]
    OBVIOUS
  <2>5. \A i \in 1 .. Len(keys) :
          keys[i][1] = other \/ new[f[i]][1] = other => keys[i] = new[f[i]]
    BY <1>1, <2>1, <2>2
  <2>6. \A x \in 1 .. Len(new) :
          new[x][1] = other => \E i \in 1 .. Len(keys) : f[i] = x
    BY <2>2
  <2>7. new \in Seq(S)
    BY <2>2
  <2> HIDE DEF f
  <2>8. Get(keys, other) = Get(new, other)
    BY <2>3, <2>4, <2>5, <2>6, <2>7, SameAnswer, SMTT(30)
  <2> QED
    BY <2>8 DEF new
<1>4. CASE ~Has(keys, key)
  <2> DEFINE a == Anchor(keys, after)
             f == [i \in 1 .. Len(keys) |-> IF i <= a THEN i ELSE i + 1]
  <2>1. /\ a \in 0 .. Len(keys)
        /\ new \in Seq(S) /\ Len(new) = Len(keys) + 1
        /\ \A i \in 1 .. a : new[i] = keys[i]
        /\ new[a + 1] = line
        /\ \A i \in a + 1 .. Len(keys) : new[i + 1] = keys[i]
    BY <1>4, SetInserted, SMTT(30)
  <2> HIDE DEF new, a, line
  <2>2. f \in [1 .. Len(keys) -> 1 .. Len(new)]
    BY <1>2, <2>1
  <2>3. \A i, j \in 1 .. Len(keys) : i < j => f[i] < f[j]
    BY <2>1
  <2>4. \A i \in 1 .. Len(keys) : keys[i] = new[f[i]]
    BY <1>2, <2>1
  <2>5. ASSUME NEW x \in 1 .. Len(new), new[x][1] = other
        PROVE  \E i \in 1 .. Len(keys) : f[i] = x
    <3>1. x # a + 1
      BY <1>1, <2>1, <2>5
    <3>2. CASE x <= a
      BY <1>2, <2>1, <3>2
    <3>3. CASE x > a + 1
      <4>1. x - 1 \in 1 .. Len(keys) /\ f[x - 1] = x
        BY <1>2, <2>1, <3>3
      <4> QED
        BY <4>1
    <3> QED
      BY <2>1, <3>1, <3>2, <3>3
  <2>6. new \in Seq(S)
    BY <2>1
  <2>7. \A i \in 1 .. Len(keys) :
          keys[i][1] = other \/ new[f[i]][1] = other => keys[i] = new[f[i]]
    BY <2>4
  <2>8. \A x \in 1 .. Len(new) :
          new[x][1] = other => \E i \in 1 .. Len(keys) : f[i] = x
    BY <2>5
  <2> HIDE DEF f
  <2>9. Get(keys, other) = Get(new, other)
    BY <2>2, <2>3, <2>6, <2>7, <2>8, SameAnswer, SMTT(30)
  <2> QED
    BY <2>9 DEF new
<1> QED
  BY <1>3, <1>4

-----------------------------------------------------------------------------
(***************************************************************************)
(* Section::remove                                                         *)
(***************************************************************************)

\* The first line with the key is taken out, with the lines that continue it.
LEMMA RemovedLines ==
  ASSUME NEW S, NEW keys \in Seq(S), NEW key, Has(keys, key)
  PROVE  LET new == RemoveKey(keys, key)
             p == Position(keys, key)
             e == ValueEnd(keys, p)
         IN /\ p \in 1 .. Len(keys) /\ e \in p .. Len(keys)
            /\ new \in Seq(S)
            /\ Len(new) = Len(keys) - (e - p + 1)
            /\ \A i \in 1 .. p - 1 : new[i] = keys[i]
            /\ \A i \in p .. Len(new) : new[i] = keys[i + (e - p + 1)]
<1> DEFINE p == Position(keys, key)
           e == ValueEnd(keys, p)
           top == SubSeq(keys, 1, p - 1)
           rest == SubSeq(keys, e + 1, Len(keys))
<1>1. Len(keys) \in Nat /\ DOMAIN keys = 1 .. Len(keys)
  BY LenProperties
<1>2. p \in 1 .. Len(keys)
  BY FirstPosition, Zenon
<1>3. e \in p .. Len(keys)
  BY <1>1, <1>2, LastOfValue
<1>4. RemoveKey(keys, key) = top \o rest
  BY DEF RemoveKey
<1>5. \A i \in 1 .. Len(keys) : keys[i] \in S
  OBVIOUS
<1> HIDE DEF p, e
<1>6. /\ top \in Seq(S) /\ Len(top) = p - 1
      /\ \A i \in 1 .. p - 1 : top[i] = keys[i]
  BY <1>1, <1>2, <1>5, SubSeqProperties
<1>7. /\ rest \in Seq(S) /\ Len(rest) = Len(keys) - e
      /\ \A i \in 1 .. Len(keys) - e : rest[i] = keys[e + i]
  <2> DEFINE b == e + 1
             n == Len(keys)
  <2>1. b \in 1 .. n + 1 /\ n \in Nat
    BY <1>1, <1>2, <1>3
  <2>2. \A i \in b .. n : keys[i] \in S
    BY <1>1, <1>5, <2>1
  <2> HIDE DEF b, n
  <2>3. /\ SubSeq(keys, b, n) \in Seq(S)
        /\ Len(SubSeq(keys, b, n)) = IF b <= n THEN n - b + 1 ELSE 0
        /\ \A i \in 1 .. n - b + 1 : SubSeq(keys, b, n)[i] = keys[b + i - 1]
    <3>1. b \in Int /\ n \in Int
      BY <2>1
    <3> QED
      BY <2>2, <3>1, SubSeqProperties
  <2>4. e = b - 1 /\ n = Len(keys) /\ rest = SubSeq(keys, b, n)
    BY <1>1, <1>2, <1>3 DEF b, n
  <2>5. n - e = n - b + 1 /\ \A i \in 1 .. n - e : b + i - 1 = e + i
    BY <2>1, <2>4
  <2> QED
    BY <2>1, <2>3, <2>4, <2>5
<1> HIDE DEF top, rest
<1>8. /\ top \o rest \in Seq(S)
      /\ Len(top \o rest) = Len(top) + Len(rest)
      /\ \A i \in 1 .. Len(top) + Len(rest) :
           (top \o rest)[i] = IF i <= Len(top) THEN top[i] ELSE rest[i - Len(top)]
  BY <1>6, <1>7, ConcatProperties
<1>9. Len(top) + Len(rest) = Len(keys) - (e - p + 1)
  BY <1>1, <1>2, <1>3, <1>6, <1>7
<1>10. \A i \in 1 .. p - 1 : (top \o rest)[i] = keys[i]
  BY <1>1, <1>2, <1>3, <1>6, <1>8, <1>9
<1>11. ASSUME NEW i \in p .. Len(top \o rest)
       PROVE  (top \o rest)[i] = keys[i + (e - p + 1)]
  <2>1. /\ i \in 1 .. Len(top) + Len(rest) /\ ~ (i <= Len(top))
        /\ i - Len(top) \in 1 .. Len(keys) - e
        /\ e + (i - Len(top)) = i + (e - p + 1)
    BY <1>1, <1>2, <1>3, <1>6, <1>8, <1>9
  <2> QED
    BY <1>7, <1>8, <2>1
<1> QED
  BY <1>2, <1>3, <1>4, <1>8, <1>9, <1>10, <1>11 DEF p, e

\* Removing a key changes no other (section.rs, Section::remove).
THEOREM RemoveKeepsOthers ==
  ASSUME NEW S, NEW keys \in Seq(S), NEW key, NEW other,
         other # key, other # Continued
  PROVE  Get(RemoveKey(keys, key), other) = Get(keys, other)
<1>1. CASE Has(keys, key)
  <2> DEFINE new == RemoveKey(keys, key)
             p == Position(keys, key)
             e == ValueEnd(keys, p)
             f == [i \in 1 .. Len(new) |-> IF i < p THEN i ELSE i + (e - p + 1)]
  <2>1. /\ p \in 1 .. Len(keys) /\ e \in p .. Len(keys)
        /\ new \in Seq(S)
        /\ Len(new) = Len(keys) - (e - p + 1)
        /\ \A i \in 1 .. p - 1 : new[i] = keys[i]
        /\ \A i \in p .. Len(new) : new[i] = keys[i + (e - p + 1)]
    BY <1>1, RemovedLines, SMTT(30)
  <2>2. Len(keys) \in Nat /\ DOMAIN keys = 1 .. Len(keys)
    BY LenProperties
  <2>3. keys[p][1] = key
    BY <1>1, FirstPosition, Zenon
  <2>4. \A x \in p + 1 .. e : keys[x][1] = Continued
    BY <2>1, <2>2, LastOfValue
  <2> HIDE DEF new, p, e
  <2>5. f \in [1 .. Len(new) -> 1 .. Len(keys)]
    BY <2>1, <2>2
  <2>6. \A i, j \in 1 .. Len(new) : i < j => f[i] < f[j]
    BY <2>1, <2>2
  <2>7. \A i \in 1 .. Len(new) : new[i] = keys[f[i]]
    BY <2>1, <2>2
  <2>8. ASSUME NEW x \in 1 .. Len(keys), keys[x][1] = other
        PROVE  \E i \in 1 .. Len(new) : f[i] = x
    <3>1. x < p \/ x > e
      <4>1. x # p
        BY <2>3, <2>8, Zenon
      <4>2. x \notin p + 1 .. e
        BY <2>4, <2>8, Zenon
      <4>3. x \in Int /\ p \in Int /\ e \in Int
        BY <2>1, <2>2
      <4> QED
        BY ONLY <4>1, <4>2, <4>3
    <3>2. CASE x < p
      <4>1. x \in 1 .. Len(new)
        BY <2>1, <2>2, <3>2
      <4>2. f[x] = x
        BY <3>2, <4>1
      <4> QED
        BY <4>1, <4>2
    <3>3. CASE x > e
      <4> DEFINE i == x - (e - p + 1)
      <4>1. i \in 1 .. Len(new) /\ f[i] = x
        BY <2>1, <2>2, <3>3
      <4> QED
        BY <4>1
    <3> QED
      BY <3>1, <3>2, <3>3
  <2>9. new \in Seq(S)
    BY <2>1
  <2> HIDE DEF f
  <2>10. Get(new, other) = Get(keys, other)
    BY <2>5, <2>6, <2>7, <2>8, <2>9, SameAnswer, SMTT(30)
  <2> QED
    BY <2>10 DEF new
<1>2. CASE ~Has(keys, key)
  BY <1>2 DEF RemoveKey
<1> QED
  BY <1>1, <1>2

\* A key that was there once is gone (section.rs, Section::remove; of a key that
\* was there several times the first goes, which is what `gac select --clear`
\* leaves for the SDKs to read).
THEOREM RemoveDropsKey ==
  ASSUME NEW S, NEW keys \in Seq(S), NEW key,
         \A i, j \in Positions(keys, key) : i = j
  PROVE  ~Has(RemoveKey(keys, key), key)
<1>1. CASE Has(keys, key)
  <2> DEFINE new == RemoveKey(keys, key)
             p == Position(keys, key)
             e == ValueEnd(keys, p)
  <2>1. /\ p \in 1 .. Len(keys) /\ e \in p .. Len(keys)
        /\ new \in Seq(S)
        /\ Len(new) = Len(keys) - (e - p + 1)
        /\ \A i \in 1 .. p - 1 : new[i] = keys[i]
        /\ \A i \in p .. Len(new) : new[i] = keys[i + (e - p + 1)]
    BY <1>1, RemovedLines, SMTT(30)
  <2>2. Len(keys) \in Nat /\ DOMAIN keys = 1 .. Len(keys) /\ DOMAIN new = 1 .. Len(new)
    BY <2>1, LenProperties
  <2>3. keys[p][1] = key
    BY <1>1, FirstPosition, Zenon
  <2> HIDE DEF new, p, e
  <2>4. \A i \in 1 .. Len(keys) : keys[i][1] = key => i = p
    BY <2>1, <2>2, <2>3, Zenon DEF Positions
  <2>5. ASSUME NEW i \in 1 .. Len(new), new[i][1] = key
        PROVE  FALSE
    <3>1. CASE i < p
      BY <2>1, <2>2, <2>4, <2>5, <3>1
    <3>2. CASE i >= p
      <4>1. i + (e - p + 1) \in 1 .. Len(keys) /\ i + (e - p + 1) # p
        BY <2>1, <2>2, <3>2
      <4>2. new[i] = keys[i + (e - p + 1)]
        BY <2>1, <2>2, <3>2
      <4> QED
        BY <2>4, <2>5, <4>1, <4>2
    <3> QED
      BY <2>1, <3>1, <3>2
  <2>6. ~Has(new, key)
    BY <2>2, <2>5, Zenon DEF Has, Positions
  <2> QED
    BY <2>6 DEF new
<1>2. CASE ~Has(keys, key)
  BY <1>2 DEF RemoveKey
<1> QED
  BY <1>1, <1>2

-----------------------------------------------------------------------------
(***************************************************************************)
(* What the SDKs read: the last value of a key.                            *)
(***************************************************************************)

\* The lines p .. e of a section are one value of a key, and the last it has.
LastValue(keys, key, p, e) ==
  /\ p \in 1 .. Len(keys) /\ e \in p .. Len(keys)
  /\ keys[p][1] = key
  /\ \A j \in p + 1 .. Len(keys) : keys[j][1] # key
  /\ \A x \in p + 1 .. e : keys[x][1] = Continued
  /\ e < Len(keys) => keys[e + 1][1] # Continued

\* The words of that value.
Words(keys, p, e) ==
  Tail(FlattenSeq([x \in 1 .. e - p + 1 |->
                     IF x = 1 THEN keys[p] ELSE Tail(keys[p + x - 1])]))

\* A key that is there has one last value, and that is what is read.
LEMMA ValueIs ==
  ASSUME NEW S, NEW keys \in Seq(S), NEW key, NEW p, NEW e, LastValue(keys, key, p, e)
  PROVE  Has(keys, key) /\ Value(keys, key) = Words(keys, p, e)
<1>1. Len(keys) \in Nat /\ DOMAIN keys = 1 .. Len(keys)
  BY LenProperties
<1>2. p \in 1 .. Len(keys) /\ e \in p .. Len(keys)
  BY DEF LastValue
<1>3. Positions(keys, key) = {i \in 1 .. Len(keys) : keys[i][1] = key}
  BY <1>1, Zenon DEF Positions
<1>4. p \in Positions(keys, key) /\ \A j \in Positions(keys, key) : j <= p
  <2>1. \A j \in p + 1 .. Len(keys) : keys[j][1] # key
    BY DEF LastValue
  <2>2. \A j \in 1 .. Len(keys) : keys[j][1] = key => j <= p
    BY <1>1, <1>2, <2>1
  <2>3. keys[p][1] = key
    BY DEF LastValue
  <2> QED
    BY <1>2, <1>3, <2>2, <2>3, Zenon
<1>5. Positions(keys, key) \subseteq Nat
  BY <1>1, <1>3
<1> DEFINE last == CHOOSE i \in Positions(keys, key) :
                     \A j \in Positions(keys, key) : j <= i
<1>6. last = p
  <2>1. last \in Positions(keys, key) /\ \A j \in Positions(keys, key) : j <= last
    BY <1>4
  <2>2. last <= p /\ p <= last
    BY <1>4, <2>1
  <2> HIDE DEF last
  <2> QED
    BY <1>4, <1>5, <2>1, <2>2
<1>7. ValueEnd(keys, p) = e
  <2> DEFINE v == ValueEnd(keys, p)
  <2>1. /\ v \in p .. Len(keys)
        /\ \A x \in p + 1 .. v : keys[x][1] = Continued
        /\ v < Len(keys) => keys[v + 1][1] # Continued
    BY <1>1, <1>2, LastOfValue
  <2> HIDE DEF v
  <2>2. /\ \A x \in p + 1 .. e : keys[x][1] = Continued
        /\ e < Len(keys) => keys[e + 1][1] # Continued
    BY DEF LastValue
  <2>3. ~ (v < e)
    <3>1. ASSUME v < e PROVE v + 1 \in p + 1 .. e /\ v < Len(keys)
      BY <1>1, <1>2, <2>1, <3>1
    <3> QED
      BY <2>1, <2>2, <3>1
  <2>4. ~ (e < v)
    <3>1. ASSUME e < v PROVE e + 1 \in p + 1 .. v /\ e < Len(keys)
      BY <1>1, <1>2, <2>1, <3>1
    <3> QED
      BY <2>1, <2>2, <3>1
  <2>5. v = e
    BY <1>1, <1>2, <2>1, <2>3, <2>4
  <2> QED
    BY <2>5 DEF v
<1>8. Has(keys, key)
  BY <1>4 DEF Has
<1> HIDE DEF last
<1>9. Value(keys, key) =
        Tail(FlattenSeq([x \in 1 .. ValueEnd(keys, last) - last + 1 |->
                             IF x = 1 THEN keys[last]
                             ELSE Tail(keys[last + x - 1])]))
  BY <1>8 DEF Value, last
<1> QED
  BY <1>6, <1>7, <1>8, <1>9 DEF Words

\* A key that a section has, has a last value.
LEMMA HasLastValue ==
  ASSUME NEW S, NEW keys \in Seq(S), NEW key, Has(keys, key)
  PROVE  \E p, e : LastValue(keys, key, p, e)
<1>1. Len(keys) \in Nat /\ DOMAIN keys = 1 .. Len(keys)
  BY LenProperties
<1>2. Positions(keys, key) = {i \in 1 .. Len(keys) : keys[i][1] = key}
  BY <1>1, Zenon DEF Positions
<1>3. Positions(keys, key) \in SUBSET (0 .. Len(keys)) /\ Positions(keys, key) # {}
  BY <1>1, <1>2 DEF Has
<1>4. PICK p \in Positions(keys, key) : \A j \in Positions(keys, key) : j <= p
  BY <1>1, <1>3, GreatestNumber
<1>5. p \in 1 .. Len(keys) /\ keys[p][1] = key
  BY <1>2
<1>6. \A j \in p + 1 .. Len(keys) : keys[j][1] # key
  BY <1>1, <1>2, <1>4, <1>5
<1> DEFINE e == ValueEnd(keys, p)
<1>7. /\ e \in p .. Len(keys)
      /\ \A x \in p + 1 .. e : keys[x][1] = Continued
      /\ e < Len(keys) => keys[e + 1][1] # Continued
  BY <1>1, <1>5, LastOfValue
<1> HIDE DEF e
<1> QED
  BY <1>5, <1>6, <1>7 DEF LastValue

\* Two sections with the same last value read the same.
LEMMA SameValue ==
  ASSUME NEW S, NEW a \in Seq(S), NEW T, NEW b \in Seq(T), NEW key,
         NEW p, NEW e, NEW d \in Int,
         LastValue(a, key, p, e), LastValue(b, key, p + d, e + d),
         \A x \in p .. e : b[x + d] = a[x]
  PROVE  Value(a, key) = Value(b, key)
<1>1. p \in Nat /\ e \in Nat
  BY LenProperties DEF LastValue
<1> DEFINE f == [x \in 1 .. e - p + 1 |-> IF x = 1 THEN a[p] ELSE Tail(a[p + x - 1])]
           g == [x \in 1 .. (e + d) - (p + d) + 1 |->
                   IF x = 1 THEN b[p + d] ELSE Tail(b[(p + d) + x - 1])]
<1>2. (e + d) - (p + d) + 1 = e - p + 1
  BY <1>1
<1>3. \A x \in 1 .. e - p + 1 : f[x] = g[x]
  <2> TAKE x \in 1 .. e - p + 1
  <2>1. p + x - 1 \in p .. e /\ (p + d) + x - 1 = (p + x - 1) + d /\ p \in p .. e
    BY <1>1
  <2>2. b[(p + d) + x - 1] = a[p + x - 1] /\ b[p + d] = a[p]
    BY <2>1
  <2> QED
    BY <1>2, <2>2
<1>4. f = g
  BY <1>2, <1>3
<1>5. Words(a, p, e) = Words(b, p + d, e + d)
  BY <1>4 DEF Words
<1>6. Value(a, key) = Words(a, p, e)
  BY ValueIs
<1>7. Value(b, key) = Words(b, p + d, e + d)
  BY ValueIs
<1> QED
  BY <1>5, <1>6, <1>7

\* The same, for a value on the same lines of both.
LEMMA SamePlace ==
  ASSUME NEW S, NEW a \in Seq(S), NEW T, NEW b \in Seq(T), NEW key, NEW p, NEW e,
         LastValue(a, key, p, e), LastValue(b, key, p, e),
         \A x \in p .. e : b[x] = a[x]
  PROVE  Value(a, key) = Value(b, key)
<1> DEFINE d == 0
<1>1. p \in Nat /\ e \in Nat
  BY LenProperties DEF LastValue
<1>2. d \in Int /\ p + d = p /\ e + d = e /\ \A x \in p .. e : x + d = x
  BY <1>1
<1> HIDE DEF d
<1>3. LastValue(b, key, p + d, e + d) /\ \A x \in p .. e : b[x + d] = a[x]
  BY <1>2
<1> QED
  BY <1>2, <1>3, SameValue

\* What a section reads as a key that is on no line.
LEMMA NoValue ==
  ASSUME NEW keys, NEW key, ~Has(keys, key)
  PROVE  Value(keys, key) = <<>>
BY DEF Value

\* A new key is not put before a line that continues a value.
LEMMA AnchorEnds ==
  ASSUME NEW S, NEW keys \in Seq(S), NEW after
  PROVE  LET a == Anchor(keys, after)
         IN a \in 1 .. Len(keys) - 1 => keys[a + 1][1] # Continued
<1> DEFINE ends == {ValueEnd(keys, i) : i \in {j \in DOMAIN keys : keys[j][1] \in after}}
           last == CHOOSE i \in ends : \A j \in ends : j <= i
           a == Anchor(keys, after)
<1>1. Len(keys) \in Nat /\ DOMAIN keys = 1 .. Len(keys)
  BY LenProperties
<1>2. ends \in SUBSET (0 .. Len(keys))
  BY <1>1, LastOfValue
<1>3. a = IF ends = {} THEN 0 ELSE last
  BY DEF Anchor
<1>4. \A i \in ends : i \in 1 .. Len(keys) - 1 => keys[i + 1][1] # Continued
  <2> SUFFICES ASSUME NEW j \in DOMAIN keys, ValueEnd(keys, j) \in 1 .. Len(keys) - 1
               PROVE  keys[ValueEnd(keys, j) + 1][1] # Continued
    OBVIOUS
  <2>1. ValueEnd(keys, j) < Len(keys)
    BY <1>1
  <2> QED
    BY <2>1, LastOfValue
<1> HIDE DEF ends
<1>5. ends # {} => \E i \in ends : \A j \in ends : j <= i
  BY <1>1, <1>2, GreatestNumber
<1>6. ends # {} => last \in ends
  BY <1>5
<1> HIDE DEF last, a
<1>7. ends = {} => a = 0
  BY <1>3
<1> QED
  BY <1>3, <1>4, <1>6, <1>7 DEF a

\* Setting a key changes what no other key reads as (section.rs, Section::set).
THEOREM SetKeepsValues ==
  ASSUME NEW S, NEW keys \in Seq(S), NEW key, NEW value, NEW after, NEW other,
         Assigned(key, value) \in S, Assigned(key, value)[1] = key,
         other # key, key # Continued
  PROVE  Value(SetKey(keys, key, value, after), other) = Value(keys, other)
<1> DEFINE line == Assigned(key, value)
           new == SetKey(keys, key, value, after)
<1>1. line[1] = key
  OBVIOUS
<1>2. Len(keys) \in Nat
  BY LenProperties
<1>3. CASE Has(keys, key)
  <2> DEFINE p0 == Position(keys, key)
  <2>1. keys[p0][1] = key
    BY <1>3, FirstPosition, Zenon
  <2>2. /\ new \in Seq(S) /\ Len(new) = Len(keys) /\ p0 \in 1 .. Len(keys)
        /\ new[p0] = line
        /\ \A i \in 1 .. Len(keys) : i # p0 => new[i] = keys[i]
    BY <1>3, SetInPlace, SMTT(30)
  <2> HIDE DEF new, p0, line
  <2>3. \A i \in 1 .. Len(keys) : new[i][1] = keys[i][1]
    BY <1>1, <2>1, <2>2
  <2>4. CASE Has(keys, other)
    <3>1. PICK p, e : LastValue(keys, other, p, e)
      BY <2>4, HasLastValue
    <3>2. p \in 1 .. Len(keys) /\ e \in p .. Len(keys) /\ p + 0 = p /\ e + 0 = e
      BY <1>2, <3>1 DEF LastValue
    <3>3. \A x \in p .. e : new[x] = keys[x]
      <4> TAKE x \in p .. e
      <4>1. x \in 1 .. Len(keys) /\ (x = p \/ x \in p + 1 .. e)
        BY <1>2, <3>2
      <4>2. keys[x][1] # key
        BY <3>1, <4>1 DEF LastValue
      <4> QED
        BY <2>1, <2>2, <4>1, <4>2
    <3>4. LastValue(new, other, p, e)
      <4>1. \A i \in p .. Len(keys) : new[i][1] = keys[i][1]
        BY <2>3, <3>2
      <4>2. e < Len(keys) => e + 1 \in p .. Len(keys)
        BY <1>2, <3>2
      <4> QED
        BY <1>2, <2>2, <3>1, <3>2, <4>1, <4>2 DEF LastValue
    <3> QED
      BY <2>2, <3>1, <3>3, <3>4, SamePlace DEF new
  <2>5. CASE ~Has(keys, other)
    <3>1. ~Has(new, other)
      <4>1. DOMAIN new = 1 .. Len(keys) /\ DOMAIN keys = 1 .. Len(keys)
        BY <2>2, LenProperties
      <4> QED
        BY <2>3, <2>5, <4>1, Zenon DEF Has, Positions
    <3> QED
      BY <2>5, <3>1, NoValue DEF new
  <2> QED
    BY <2>4, <2>5
<1>4. CASE ~Has(keys, key)
  <2> DEFINE a == Anchor(keys, after)
  <2>1. /\ a \in 0 .. Len(keys)
        /\ new \in Seq(S) /\ Len(new) = Len(keys) + 1
        /\ \A i \in 1 .. a : new[i] = keys[i]
        /\ new[a + 1] = line
        /\ \A i \in a + 1 .. Len(keys) : new[i + 1] = keys[i]
    BY <1>4, SetInserted, SMTT(30)
  <2>2. a \in 1 .. Len(keys) - 1 => keys[a + 1][1] # Continued
    BY AnchorEnds
  <2> HIDE DEF new, a, line
  <2>3. new[a + 1][1] = key
    BY <1>1, <2>1
  <2>4. CASE Has(keys, other)
    <3>1. PICK p, e : LastValue(keys, other, p, e)
      BY <2>4, HasLastValue
    <3>2. p \in 1 .. Len(keys) /\ e \in p .. Len(keys)
      BY <1>2, <3>1 DEF LastValue
    <3>3. CASE a < p
      <4>1. \A i \in p .. Len(keys) : new[i + 1] = keys[i]
        BY <1>2, <2>1, <3>2, <3>3
      <4>2. LastValue(new, other, p + 1, e + 1)
        <5>1. p + 1 \in 1 .. Len(new) /\ e + 1 \in p + 1 .. Len(new)
          BY <1>2, <2>1, <3>2
        <5>2. new[p + 1][1] = other
          BY <3>1, <3>2, <4>1 DEF LastValue
        <5>3. \A j \in p + 1 + 1 .. Len(new) :
                j - 1 \in p + 1 .. Len(keys) /\ j - 1 \in p .. Len(keys) /\ (j - 1) + 1 = j
          BY <1>2, <2>1, <3>2
        <5>4. \A j \in p + 1 + 1 .. Len(new) : new[j][1] # other
          <6> TAKE j \in p + 1 + 1 .. Len(new)
          <6> DEFINE i == j - 1
          <6>1. i \in p + 1 .. Len(keys) /\ i \in p .. Len(keys) /\ i + 1 = j
            BY <5>3
          <6> HIDE DEF i
          <6>2. keys[i][1] # other
            BY <3>1, <6>1 DEF LastValue
          <6> QED
            BY <4>1, <6>1, <6>2
        <5>5. \A x \in p + 1 + 1 .. e + 1 :
                x - 1 \in p + 1 .. e /\ x - 1 \in p .. Len(keys) /\ (x - 1) + 1 = x
          BY <1>2, <3>2
        <5>6. \A x \in p + 1 + 1 .. e + 1 : new[x][1] = Continued
          <6> TAKE x \in p + 1 + 1 .. e + 1
          <6> DEFINE i == x - 1
          <6>1. i \in p + 1 .. e /\ i \in p .. Len(keys) /\ i + 1 = x
            BY <5>5
          <6> HIDE DEF i
          <6>2. keys[i][1] = Continued
            BY <3>1, <6>1 DEF LastValue
          <6> QED
            BY <4>1, <6>1, <6>2
        <5>7. e + 1 < Len(new) => e < Len(keys) /\ e + 1 \in p .. Len(keys)
          BY <1>2, <2>1, <3>2
        <5>8. e + 1 < Len(new) => new[e + 1 + 1][1] # Continued
          BY <3>1, <4>1, <5>7 DEF LastValue
        <5> QED
          BY <5>1, <5>2, <5>4, <5>6, <5>8 DEF LastValue
      <4>3. \A x \in p .. e : new[x + 1] = keys[x]
        BY <1>2, <3>2, <4>1
      <4> QED
        BY <2>1, <3>1, <4>2, <4>3, SameValue DEF new
    <3>4. CASE p <= a
      <4>1. e <= a
        <5>1. ASSUME a < e PROVE FALSE
          <6>1. a + 1 \in p + 1 .. e /\ a \in 1 .. Len(keys) - 1
            BY <1>2, <2>1, <3>2, <3>4, <5>1
          <6> QED
            BY <2>2, <3>1, <6>1 DEF LastValue
        <5> QED
          BY <1>2, <2>1, <3>2, <5>1
      <4>2. \A i \in 1 .. Len(new) :
              \/ i <= a /\ i \in 1 .. Len(keys) /\ new[i] = keys[i]
              \/ i = a + 1
              \/ i > a + 1 /\ i - 1 \in a + 1 .. Len(keys) /\ new[i] = keys[i - 1]
        <5> TAKE i \in 1 .. Len(new)
        <5>1. CASE i <= a
          BY <1>2, <2>1, <5>1
        <5>2. CASE i > a + 1
          <6>1. i - 1 \in a + 1 .. Len(keys) /\ (i - 1) + 1 = i
            BY <1>2, <2>1, <5>2
          <6> QED
            BY <2>1, <5>2, <6>1
        <5> QED
          BY <1>2, <2>1, <5>1, <5>2
      <4>3. LastValue(new, other, p, e)
        <5>1. /\ p \in 1 .. Len(new) /\ e \in p .. Len(new)
              /\ \A x \in p .. e : x \in 1 .. a /\ x \in 1 .. Len(keys)
          BY <1>2, <2>1, <3>2, <4>1
        <5>2. new[p][1] = other
          BY <2>1, <3>1, <3>2, <5>1 DEF LastValue
        <5>3. \A j \in p + 1 .. Len(new) : new[j][1] # other
          <6> TAKE j \in p + 1 .. Len(new)
          <6>1. j \in 1 .. Len(new)
            BY <1>2, <2>1, <3>2
          <6>2. CASE j <= a /\ j \in 1 .. Len(keys) /\ new[j] = keys[j]
            <7>1. j \in p + 1 .. Len(keys)
              BY <1>2, <3>2, <6>2
            <7> QED
              BY <3>1, <6>2, <7>1 DEF LastValue
          <6>3. CASE j = a + 1
            BY <2>3, <6>3
          <6>4. CASE j > a + 1 /\ j - 1 \in a + 1 .. Len(keys) /\ new[j] = keys[j - 1]
            <7>1. j - 1 \in p + 1 .. Len(keys)
              BY <1>2, <2>1, <3>2, <3>4, <6>4
            <7> QED
              BY <3>1, <6>4, <7>1 DEF LastValue
          <6> QED
            BY <4>2, <6>1, <6>2, <6>3, <6>4
        <5>4. \A x \in p + 1 .. e : new[x][1] = Continued
          <6>1. \A x \in p + 1 .. e : x \in 1 .. a
            BY <1>2, <2>1, <3>2, <5>1
          <6> QED
            BY <2>1, <3>1, <6>1 DEF LastValue
        <5>5. new[e + 1][1] # Continued
          <6>1. CASE e = a
            BY <2>3, <6>1
          <6>2. CASE e < a
            <7>1. e + 1 \in 1 .. a /\ e < Len(keys)
              BY <1>2, <2>1, <3>2, <6>2
            <7> QED
              BY <2>1, <3>1, <7>1 DEF LastValue
          <6> QED
            BY <1>2, <2>1, <3>2, <4>1, <6>1, <6>2
        <5> QED
          BY <5>1, <5>2, <5>3, <5>4, <5>5 DEF LastValue
      <4>4. \A x \in p .. e : new[x] = keys[x]
        <5>1. \A x \in p .. e : x \in 1 .. a
          BY <1>2, <2>1, <3>2, <4>1
        <5> QED
          BY <2>1, <5>1
      <4> QED
        BY <2>1, <3>1, <4>3, <4>4, SamePlace DEF new
    <3> QED
      BY <1>2, <2>1, <3>2, <3>3, <3>4
  <2>5. CASE ~Has(keys, other)
    <3>1. \A i \in 1 .. Len(keys) : keys[i][1] # other
      BY <2>5, NoPosition, Zenon
    <3>2. ASSUME NEW i \in 1 .. Len(new), new[i][1] = other
          PROVE  FALSE
      <4>1. CASE i <= a
        BY <1>2, <2>1, <3>1, <3>2, <4>1
      <4>2. CASE i > a + 1
        <5>1. i - 1 \in a + 1 .. Len(keys) /\ i - 1 \in 1 .. Len(keys) /\ (i - 1) + 1 = i
          BY <1>2, <2>1, <4>2
        <5> QED
          BY <2>1, <3>1, <3>2, <5>1
      <4> QED
        BY <1>2, <2>1, <2>3, <3>2, <4>1, <4>2
    <3>3. ~Has(new, other)
      <4>1. DOMAIN new = 1 .. Len(new)
        BY <2>1, LenProperties
      <4> QED
        BY <3>2, <4>1, Zenon DEF Has, Positions
    <3> QED
      BY <2>5, <3>3, NoValue DEF new
  <2> QED
    BY <2>4, <2>5
<1> QED
  BY <1>3, <1>4

\* Removing a key changes what no other key reads as (section.rs, Section::remove).
THEOREM RemoveKeepsValues ==
  ASSUME NEW S, NEW keys \in Seq(S), NEW key, NEW other,
         other # key, other # Continued, key # Continued
  PROVE  Value(RemoveKey(keys, key), other) = Value(keys, other)
<1>1. CASE Has(keys, key)
  <2> DEFINE new == RemoveKey(keys, key)
             f == Position(keys, key)
             l == ValueEnd(keys, f)
             w == l - f + 1
  <2>1. /\ f \in 1 .. Len(keys) /\ l \in f .. Len(keys)
        /\ new \in Seq(S)
        /\ Len(new) = Len(keys) - (l - f + 1)
        /\ \A i \in 1 .. f - 1 : new[i] = keys[i]
        /\ \A i \in f .. Len(new) : new[i] = keys[i + (l - f + 1)]
    BY <1>1, RemovedLines, SMTT(30)
  <2>2. Len(keys) \in Nat /\ DOMAIN keys = 1 .. Len(keys) /\ DOMAIN new = 1 .. Len(new)
    BY <2>1, LenProperties
  <2>3. keys[f][1] = key
    BY <1>1, FirstPosition, Zenon
  <2>4. /\ \A x \in f + 1 .. l : keys[x][1] = Continued
        /\ l < Len(keys) => keys[l + 1][1] # Continued
    BY <2>1, <2>2, LastOfValue
  <2> HIDE DEF new, f, l
  <2>5. /\ w \in Nat /\ Len(new) = Len(keys) - w /\ f + w = l + 1 /\ Len(new) \in Nat
        /\ \A i \in f .. Len(new) : new[i] = keys[i + w]
    BY <2>1, <2>2
  <2> HIDE DEF w
  <2>6. CASE Has(keys, other)
    <3>1. PICK p, e : LastValue(keys, other, p, e)
      BY <2>6, HasLastValue
    <3>2. p \in 1 .. Len(keys) /\ e \in p .. Len(keys)
      BY <2>2, <3>1 DEF LastValue
    <3>3. p < f \/ p > l
      <4>1. ASSUME p \in f .. l PROVE FALSE
        <5>1. p = f \/ p \in f + 1 .. l
          BY <2>1, <2>2, <4>1
        <5> QED
          BY <2>3, <2>4, <3>1, <5>1 DEF LastValue
      <4> QED
        BY <2>1, <2>2, <3>2, <4>1
    <3>4. CASE p > l
      <4> DEFINE d == 0 - w
      <4>1. d \in Int /\ p + d \in Nat /\ e + d \in Nat
        BY <2>1, <2>2, <2>5, <3>2, <3>4
      <4>2. \A i \in p .. Len(keys) : i + d \in f .. Len(new) /\ (i + d) + w = i
        BY <2>1, <2>2, <2>5, <3>2, <3>4
      <4>3. \A i \in p .. Len(keys) : new[i + d] = keys[i]
        BY <2>5, <4>2
      <4>4. LastValue(new, other, p + d, e + d)
        <5>1. p + d \in 1 .. Len(new) /\ e + d \in p + d .. Len(new)
          BY <2>1, <2>2, <2>5, <3>2, <3>4
        <5>2. new[p + d][1] = other
          BY <2>2, <3>1, <3>2, <4>3 DEF LastValue
        <5>3. \A j \in p + d + 1 .. Len(new) : new[j][1] # other
          <6> TAKE j \in p + d + 1 .. Len(new)
          <6> DEFINE i == j + w
          <6>1. i \in p + 1 .. Len(keys) /\ i \in p .. Len(keys) /\ i + d = j
            BY <2>1, <2>2, <2>5, <3>2, <3>4, <4>1
          <6> HIDE DEF i, d
          <6>2. keys[i][1] # other
            BY <3>1, <6>1 DEF LastValue
          <6> QED
            BY <4>3, <6>1, <6>2
        <5>4. \A x \in p + d + 1 .. e + d : new[x][1] = Continued
          <6> TAKE x \in p + d + 1 .. e + d
          <6> DEFINE i == x + w
          <6>1. i \in p + 1 .. e /\ i \in p .. Len(keys) /\ i + d = x
            BY <2>1, <2>2, <2>5, <3>2, <3>4, <4>1
          <6> HIDE DEF i, d
          <6>2. keys[i][1] = Continued
            BY <3>1, <6>1 DEF LastValue
          <6> QED
            BY <4>3, <6>1, <6>2
        <5>5. e + d < Len(new) => new[e + d + 1][1] # Continued
          <6> SUFFICES ASSUME e + d < Len(new) PROVE new[e + d + 1][1] # Continued
            OBVIOUS
          <6>1. e < Len(keys) /\ e + 1 \in p .. Len(keys) /\ (e + 1) + d = e + d + 1
            BY <2>2, <2>5, <3>2, <4>1
          <6> HIDE DEF d
          <6>2. keys[e + 1][1] # Continued
            BY <3>1, <6>1 DEF LastValue
          <6> QED
            BY <4>3, <6>1, <6>2
        <5> HIDE DEF d
        <5> QED
          BY <5>1, <5>2, <5>3, <5>4, <5>5 DEF LastValue
      <4>5. \A x \in p .. e : new[x + d] = keys[x]
        <5>1. \A x \in p .. e : x \in p .. Len(keys)
          BY <2>2, <3>2
        <5> HIDE DEF d
        <5> QED
          BY <4>3, <5>1
      <4> HIDE DEF d
      <4> QED
        BY <2>1, <3>1, <4>1, <4>4, <4>5, SameValue DEF new
    <3>5. CASE p < f
      <4>1. e < f
        <5>1. ASSUME f <= e PROVE FALSE
          <6>1. f \in p + 1 .. e
            BY <2>1, <2>2, <3>2, <3>5, <5>1
          <6> QED
            BY <2>3, <3>1, <6>1 DEF LastValue
        <5> QED
          BY <2>1, <2>2, <3>2, <5>1
      <4>2. /\ p \in 1 .. Len(new) /\ e \in p .. Len(new)
            /\ \A x \in p .. e : x \in 1 .. f - 1
        BY <2>1, <2>2, <2>5, <3>2, <4>1
      <4>3. \A x \in p .. e : new[x] = keys[x]
        BY <2>1, <4>2
      <4>4. \A j \in p + 1 .. Len(new) : new[j][1] # other
        <5> TAKE j \in p + 1 .. Len(new)
        <5>1. CASE j < f
          <6>1. j \in 1 .. f - 1 /\ j \in p + 1 .. Len(keys)
            BY <2>1, <2>2, <3>2, <5>1
          <6> QED
            BY <2>1, <3>1, <6>1 DEF LastValue
        <5>2. CASE f <= j
          <6> DEFINE i == j + w
          <6>1. i \in p + 1 .. Len(keys) /\ j \in f .. Len(new)
            BY <2>1, <2>2, <2>5, <3>2, <5>2
          <6>2. new[j] = keys[i]
            BY <2>5, <6>1
          <6> HIDE DEF i
          <6> QED
            BY <3>1, <6>1, <6>2 DEF LastValue
        <5> QED
          BY <2>1, <2>2, <2>5, <5>1, <5>2
      <4>5. \A x \in p + 1 .. e : new[x][1] = Continued
        <5>1. \A x \in p + 1 .. e : x \in p .. e
          BY <2>2, <3>2
        <5> QED
          BY <3>1, <4>3, <5>1 DEF LastValue
      <4>6. e < Len(new) => new[e + 1][1] # Continued
        <5> SUFFICES ASSUME e < Len(new) PROVE new[e + 1][1] # Continued
          OBVIOUS
        <5>1. CASE e + 1 < f
          <6>1. e + 1 \in 1 .. f - 1 /\ e < Len(keys)
            BY <2>1, <2>2, <3>2, <5>1
          <6> QED
            BY <2>1, <3>1, <6>1 DEF LastValue
        <5>2. CASE e + 1 = f
          <6>1. f \in f .. Len(new) /\ l < Len(keys)
            BY <2>1, <2>2, <2>5, <3>2, <5>2
          <6>2. new[f] = keys[l + 1]
            BY <2>5, <6>1
          <6> QED
            BY <2>4, <5>2, <6>1, <6>2
        <5> QED
          BY <2>1, <2>2, <3>2, <4>1, <5>1, <5>2
      <4>7. LastValue(new, other, p, e)
        <5>1. new[p][1] = other
          BY <2>2, <3>1, <3>2, <4>3 DEF LastValue
        <5> QED
          BY <4>2, <4>4, <4>5, <4>6, <5>1 DEF LastValue
      <4> QED
        BY <2>1, <3>1, <4>3, <4>7, SamePlace DEF new
    <3> QED
      BY <3>3, <3>4, <3>5
  <2>7. CASE ~Has(keys, other)
    <3>1. \A i \in 1 .. Len(keys) : keys[i][1] # other
      BY <2>7, NoPosition, Zenon
    <3>2. ASSUME NEW i \in 1 .. Len(new), new[i][1] = other
          PROVE  FALSE
      <4>1. CASE i < f
        BY <2>1, <2>2, <3>1, <3>2, <4>1
      <4>2. CASE f <= i
        <5>1. i \in f .. Len(new) /\ i + w \in 1 .. Len(keys)
          BY <2>1, <2>2, <2>5, <4>2
        <5> QED
          BY <2>5, <3>1, <3>2, <5>1
      <4> QED
        BY <2>1, <2>2, <2>5, <4>1, <4>2
    <3>3. ~Has(new, other)
      BY <2>2, <3>2, Zenon DEF Has, Positions
    <3> QED
      BY <2>7, <3>3, NoValue DEF new
  <2> QED
    BY <2>6, <2>7
<1>2. CASE ~Has(keys, key)
  BY <1>2 DEF RemoveKey
<1> QED
  BY <1>1, <1>2

-----------------------------------------------------------------------------
(***************************************************************************)
(* Sequences put together                                                  *)
(***************************************************************************)
\* One sequence after another, as one operator.
Followed(a, b) == a \o b

\* What FlattenSeq computes, part by part.
LEMMA FlattenReads ==
  ASSUME NEW parts, Len(parts) \in Nat \ {0}
  PROVE  LET L == Len(parts)
         IN \E r : /\ r[1] = parts[1]
                   /\ \A n \in 2 .. L : r[n] = r[n - 1] \o parts[n]
                   /\ FlattenSeq(parts) = r[L]
<1> DEFINE L == Len(parts)
           step(g, n) == Followed(g[n - 1], parts[n])
           body(g, n) == IF n = 1 THEN parts[n] ELSE step(g, n)
           flatten[n \in 1 .. L] ==
             IF n = 1 THEN parts[n] ELSE Followed(flatten[n - 1], parts[n])
           good == {m \in 0 .. L : m = 0 \/ \E g : g = [n \in 1 .. m |-> body(g, n)]}
<1>1. L \in Nat /\ L # 0
  OBVIOUS
<1>2. 0 \in good
  BY <1>1
<1>3. ASSUME NEW m \in 1 .. L, m - 1 \in good
      PROVE  m \in good
  <2>1. CASE m = 1
    <3> DEFINE g == [n \in 1 .. 1 |-> parts[n]]
    <3>1. g = [n \in 1 .. 1 |-> body(g, n)]
      OBVIOUS
    <3>2. m \in 0 .. L
      BY <1>1
    <3> HIDE DEF g
    <3> QED
      BY <2>1, <3>1, <3>2, Zenon
  <2>2. CASE m # 1
    <3>1. PICK h : h = [n \in 1 .. m - 1 |-> body(h, n)]
      <4>1. m - 1 # 0
        BY <2>2
      <4> QED
        BY <1>3, <4>1
    <3> DEFINE g == [n \in 1 .. m |-> IF n = m THEN step(h, m) ELSE h[n]]
    <3>2. ASSUME NEW n \in 1 .. m
          PROVE  g[n] = body(g, n)
      <4>1. n # 1 => n - 1 \in 1 .. m - 1 /\ n - 1 \in 1 .. m /\ n - 1 # m
        OBVIOUS
      <4>2. n # 1 => g[n - 1] = h[n - 1]
        BY <4>1
      <4>3. n # m => n \in 1 .. m - 1 /\ g[n] = h[n] /\ h[n] = body(h, n)
        BY <3>1
      <4>4. n = m => g[n] = step(h, n) /\ n # 1
        BY <2>2
      <4> HIDE DEF g
      <4> QED
        BY <4>2, <4>3, <4>4
    <3>3. g = [n \in 1 .. m |-> body(g, n)]
      BY <3>2
    <3> HIDE DEF g
    <3> QED
      BY <3>3
  <2> QED
    BY <2>1, <2>2
<1>4. L \in good
  <2>1. L \in Nat /\ L \in 0 .. L
    BY <1>1
  <2> HIDE DEF good, L
  <2>2. \A m \in 1 .. L : m - 1 \in good => m \in good
    BY <1>3, Zenon
  <2>3. \A m \in 0 .. L : m \in good
    BY <1>2, <2>1, <2>2, UpTo
  <2> QED
    BY <2>1, <2>3
<1>5. flatten = [n \in 1 .. L |-> body(flatten, n)]
  BY <1>1, <1>4
<1>6. FlattenSeq(parts) = flatten[L]
  BY <1>1, Zenon DEF FlattenSeq, Followed
<1> HIDE DEF flatten
<1>7. flatten[1] = body(flatten, 1)
  BY <1>1, <1>5
<1>8. \A n \in 2 .. L : flatten[n] = Followed(flatten[n - 1], parts[n])
  BY <1>1, <1>5
<1>9. \A n \in 2 .. L : flatten[n] = flatten[n - 1] \o parts[n]
  BY <1>8 DEF Followed
<1> QED
  BY <1>6, <1>7, <1>9

\* What all the parts have is what is put together.
LEMMA FlattenTyped ==
  ASSUME NEW S, NEW parts \in Seq(Seq(S))
  PROVE  FlattenSeq(parts) \in Seq(S)
<1> DEFINE L == Len(parts)
<1>1. L \in Nat /\ \A n \in 1 .. L : parts[n] \in Seq(S)
  OBVIOUS
<1>2. CASE L = 0
  <2>1. FlattenSeq(parts) = <<>>
    BY <1>2 DEF FlattenSeq
  <2> QED
    BY <2>1
<1>3. CASE L # 0
  <2>1. PICK r : /\ r[1] = parts[1]
                 /\ \A n \in 2 .. L : r[n] = r[n - 1] \o parts[n]
                 /\ FlattenSeq(parts) = r[L]
    BY <1>1, <1>3, FlattenReads
  <2> DEFINE good == {m \in 0 .. L : m = 0 \/ r[m] \in Seq(S)}
  <2>2. 0 \in good
    BY <1>1
  <2>3. ASSUME NEW m \in 1 .. L, m - 1 \in good
        PROVE  m \in good
    <3>1. CASE m = 1
      BY <1>1, <2>1, <3>1
    <3>2. CASE m # 1
      <4>1. m \in 2 .. L /\ m - 1 # 0 /\ r[m - 1] \in Seq(S) /\ parts[m] \in Seq(S)
        BY <1>1, <2>3, <3>2
      <4>2. r[m] \in Seq(S)
        BY <2>1, <4>1, ConcatProperties
      <4> QED
        BY <1>1, <4>2
    <3> QED
      BY <3>1, <3>2
  <2> HIDE DEF good, L
  <2>4. \A m \in 0 .. L : m \in good
    BY <1>1, <2>2, <2>3, UpTo
  <2>5. L \in good
    BY <1>1, <2>4
  <2>6. r[L] \in Seq(S)
    BY <1>3, <2>5 DEF good
  <2> QED
    BY <2>1, <2>6
<1> QED
  BY <1>2, <1>3

\* If all parts but one are empty, that one is all there is.
LEMMA FlattenOne ==
  ASSUME NEW S, NEW parts \in Seq(Seq(S)), NEW j \in 1 .. Len(parts),
         \A i \in 1 .. Len(parts) : i # j => parts[i] = <<>>
  PROVE  FlattenSeq(parts) = parts[j]
<1> DEFINE L == Len(parts)
<1>1. L \in Nat /\ L # 0 /\ \A n \in 1 .. L : parts[n] \in Seq(S)
  OBVIOUS
<1>2. PICK r : /\ r[1] = parts[1]
               /\ \A n \in 2 .. L : r[n] = r[n - 1] \o parts[n]
               /\ FlattenSeq(parts) = r[L]
  BY <1>1, FlattenReads
<1> DEFINE good == {m \in 0 .. L : m = 0 \/ r[m] = IF m < j THEN <<>> ELSE parts[j]}
<1>3. 0 \in good
  BY <1>1
<1>4. \A s \in Seq(S) : s \o <<>> = s /\ <<>> \o s = s
  BY ConcatEmptySeq
<1>5. ASSUME NEW m \in 1 .. L, m - 1 \in good
      PROVE  m \in good
  <2>1. CASE m = 1
    <3>1. parts[1] = IF 1 < j THEN <<>> ELSE parts[j]
      <4>1. 1 < j \/ j = 1
        OBVIOUS
      <4>2. 1 < j => parts[1] = <<>>
        BY <1>1
      <4> QED
        BY <4>1, <4>2
    <3>2. r[m] = IF m < j THEN <<>> ELSE parts[j]
      BY <1>2, <2>1, <3>1
    <3> QED
      BY <1>1, <3>2
  <2>2. CASE m # 1
    <3>1. /\ m \in 2 .. L /\ m - 1 # 0
          /\ r[m - 1] = IF m - 1 < j THEN <<>> ELSE parts[j]
          /\ parts[m] \in Seq(S) /\ parts[j] \in Seq(S)
      BY <1>1, <1>5, <2>2
    <3>2. r[m] = r[m - 1] \o parts[m]
      BY <1>2, <3>1
    <3>3. CASE m < j
      <4>1. r[m - 1] = <<>> /\ parts[m] = <<>>
        BY <3>1, <3>3
      <4>2. r[m] = <<>>
        BY <1>4, <3>1, <3>2, <4>1
      <4> QED
        BY <1>1, <3>3, <4>2
    <3>4. CASE m = j
      <4>1. r[m - 1] = <<>>
        BY <3>1, <3>4
      <4>2. r[m] = parts[j]
        BY <1>4, <3>1, <3>2, <3>4, <4>1
      <4> QED
        BY <1>1, <3>4, <4>2
    <3>5. CASE m > j
      <4>1. r[m - 1] = parts[j] /\ parts[m] = <<>>
        BY <3>1, <3>5
      <4>2. r[m] = parts[j]
        BY <1>4, <3>1, <3>2, <4>1
      <4> QED
        BY <1>1, <3>5, <4>2
    <3> QED
      BY <3>1, <3>3, <3>4, <3>5
  <2> QED
    BY <2>1, <2>2
<1> HIDE DEF good
<1>6. \A m \in 0 .. L : m \in good
  <2> HIDE DEF L
  <2> QED
    BY <1>1, <1>3, <1>5, UpTo
<1>7. r[L] = IF L < j THEN <<>> ELSE parts[j]
  <2>1. L \in good
    BY <1>1, <1>6
  <2> QED
    BY <1>1, <2>1 DEF good
<1> QED
  BY <1>1, <1>2, <1>7

\* What begins with something is something.
LEMMA FlattenBegins ==
  ASSUME NEW S, NEW parts \in Seq(Seq(S)), Len(parts) # 0, parts[1] # <<>>
  PROVE  FlattenSeq(parts) \in Seq(S) \ {<<>>}
<1> DEFINE L == Len(parts)
<1>1. L \in Nat /\ L # 0 /\ \A n \in 1 .. L : parts[n] \in Seq(S)
  OBVIOUS
<1>2. PICK r : /\ r[1] = parts[1]
               /\ \A n \in 2 .. L : r[n] = r[n - 1] \o parts[n]
               /\ FlattenSeq(parts) = r[L]
  BY <1>1, FlattenReads
<1> DEFINE good == {m \in 0 .. L : m = 0 \/ (r[m] \in Seq(S) /\ r[m] # <<>>)}
<1>3. 0 \in good
  BY <1>1
<1>4. ASSUME NEW m \in 1 .. L, m - 1 \in good
      PROVE  m \in good
  <2>1. CASE m = 1
    BY <1>1, <1>2, <2>1
  <2>2. CASE m # 1
    <3>1. /\ m \in 2 .. L /\ m - 1 # 0 /\ parts[m] \in Seq(S)
          /\ r[m - 1] \in Seq(S) /\ r[m - 1] # <<>>
      BY <1>1, <1>4, <2>2
    <3>2. \A a, b \in Seq(S) : a # <<>> => a \o b \in Seq(S) /\ a \o b # <<>>
      BY ConcatProperties
    <3>3. r[m] = r[m - 1] \o parts[m]
      BY <1>2, <3>1
    <3>4. r[m] \in Seq(S) /\ r[m] # <<>>
      BY <3>1, <3>2, <3>3
    <3> QED
      BY <1>1, <3>4
  <2> QED
    BY <2>1, <2>2
<1> HIDE DEF good, L
<1>5. \A m \in 0 .. L : m \in good
  BY <1>1, <1>3, <1>4, UpTo
<1>6. L \in good
  BY <1>1, <1>5
<1>7. r[L] \in Seq(S) /\ r[L] # <<>>
  BY <1>1, <1>6 DEF good
<1> QED
  BY <1>2, <1>7

\* What is left of a sequence without its first element.
LEMMA Rest ==
  ASSUME NEW S, NEW s \in Seq(S), s # <<>>
  PROVE  Tail(s) \in Seq(S)
BY HeadTailProperties

\* What is read is a sequence of words.
LEMMA ValueTyped ==
  ASSUME NEW W, NEW keys \in Seq(Seq(W) \ {<<>>}), NEW key
  PROVE  Value(keys, key) \in Seq(W)
<1>1. CASE Has(keys, key)
  <2>1. PICK p, e : LastValue(keys, key, p, e)
    BY <1>1, HasLastValue
  <2>2. /\ p \in 1 .. Len(keys) /\ e \in p .. Len(keys) /\ Len(keys) \in Nat
        /\ \A i \in 1 .. Len(keys) : keys[i] \in Seq(W) /\ keys[i] # <<>>
    BY <2>1 DEF LastValue
  <2> DEFINE n == e - p + 1
             part(x) == IF x = 1 THEN keys[p] ELSE Tail(keys[p + x - 1])
             parts == [x \in 1 .. n |-> part(x)]
  <2>3. n \in Nat /\ n # 0 /\ \A x \in 1 .. n : p + x - 1 \in 1 .. Len(keys)
    BY <2>2
  <2>4. \A x \in 1 .. n : part(x) \in Seq(W)
    <3> TAKE x \in 1 .. n
    <3>1. keys[p] \in Seq(W)
      BY <2>2
    <3>2. Tail(keys[p + x - 1]) \in Seq(W)
      BY <2>2, <2>3, Rest
    <3> QED
      BY <3>1, <3>2
  <2>5. parts[1] = keys[p]
    BY <2>3
  <2>6. parts \in Seq(Seq(W)) /\ Len(parts) = n
    <3> HIDE DEF n, part
    <3> QED
      BY <2>3, <2>4
  <2>7. FlattenSeq(parts) \in Seq(W) \ {<<>>}
    <3>1. parts[1] # <<>>
      BY <2>2, <2>5
    <3> HIDE DEF parts, n
    <3> QED
      BY <2>3, <2>6, <3>1, FlattenBegins
  <2>8. Words(keys, p, e) = Tail(FlattenSeq(parts))
    BY DEF Words
  <2> HIDE DEF parts
  <2>9. Words(keys, p, e) \in Seq(W)
    BY <2>7, <2>8, Rest
  <2> QED
    BY <2>1, <2>9, ValueIs
<1>2. CASE ~Has(keys, key)
  <2>1. <<>> \in Seq(W)
    OBVIOUS
  <2> QED
    BY <1>2, <2>1, NoValue
<1> QED
  BY <1>1, <1>2

\* A value on one line.
LEMMA OneLine ==
  ASSUME NEW W, NEW keys \in Seq(Seq(W) \ {<<>>}), NEW key, NEW p,
         LastValue(keys, key, p, p)
  PROVE  Value(keys, key) = Tail(keys[p])
<1>1. p \in 1 .. Len(keys) /\ p \in Nat /\ keys[p] \in Seq(W)
  BY LenProperties DEF LastValue
<1> DEFINE parts == [x \in 1 .. p - p + 1 |->
                       IF x = 1 THEN keys[p] ELSE Tail(keys[p + x - 1])]
<1>2. p - p + 1 = 1
  BY <1>1
<1>3. parts = [x \in 1 .. 1 |-> keys[p]]
  BY <1>2
<1>4. parts \in Seq(Seq(W)) /\ Len(parts) = 1 /\ parts[1] = keys[p]
  BY <1>1, <1>3
<1>5. FlattenSeq(parts) = parts[1]
  <2> HIDE DEF parts
  <2>1. 1 \in 1 .. Len(parts) /\ \A i \in 1 .. Len(parts) : i # 1 => parts[i] = <<>>
    BY <1>4
  <2> QED
    BY <1>4, <2>1, FlattenOne
<1>6. Value(keys, key) = Words(keys, p, p)
  BY ValueIs
<1> QED
  BY <1>4, <1>5, <1>6 DEF Words

\* What is set is what the SDKs read (section.rs, Section::set), of a key that has
\* at most one line, with no line below that continues its value: `set` leaves such
\* lines, and all but the first of several, as they are.  Nor may the section begin
\* with a line that continues nothing, which would continue a new first key.
THEOREM SetIsValue ==
  ASSUME NEW W, NEW keys \in Seq(Seq(W) \ {<<>>}), NEW key \in W,
         NEW value \in Seq(W), NEW after, key # Continued,
         \A i \in Positions(keys, key) :
           i = Position(keys, key) /\ ValueEnd(keys, i) = i,
         \A i \in DOMAIN keys : keys[i][1] = Continued => i # 1
  PROVE  Value(SetKey(keys, key, value, after), key) = value
<1> DEFINE S == Seq(W) \ {<<>>}
           line == Assigned(key, value)
           new == SetKey(keys, key, value, after)
<1>1. line \in S /\ line[1] = key /\ Tail(line) = value
  BY PutBefore DEF Assigned
<1>2. Len(keys) \in Nat /\ DOMAIN keys = 1 .. Len(keys)
  BY LenProperties
<1> keys \in Seq(S)
  OBVIOUS
<1>3. ASSUME NEW p, new \in Seq(S), LastValue(new, key, p, p), new[p] = line
      PROVE  Value(new, key) = value
  <2>1. new \in Seq(Seq(W) \ {<<>>})
    BY <1>3
  <2> HIDE DEF new, line, S
  <2>2. Value(new, key) = Tail(new[p])
    BY <1>3, <2>1, OneLine
  <2> QED
    BY <1>1, <1>3, <2>2
<1> HIDE DEF S
<1>4. CASE Has(keys, key)
  <2> DEFINE p == Position(keys, key)
  <2>1. /\ new \in Seq(S) /\ Len(new) = Len(keys) /\ p \in 1 .. Len(keys)
        /\ new[p] = line
        /\ \A i \in 1 .. Len(keys) : i # p => new[i] = keys[i]
    BY <1>1, <1>4, SetInPlace, SMTT(30)
  <2>2. keys[p][1] = key
    BY <1>4, FirstPosition, Zenon
  <2>3. \A j \in 1 .. Len(keys) : j # p => keys[j][1] # key
    BY <1>2 DEF Positions
  <2>4. p < Len(keys) => keys[p + 1][1] # Continued
    <3>1. p \in Positions(keys, key)
      BY <1>2, <2>1, <2>2, Zenon DEF Positions
    <3>2. ValueEnd(keys, p) = p
      BY <3>1
    <3> HIDE DEF p
    <3> QED
      BY <1>2, <2>1, <3>2, LastOfValue
  <2> HIDE DEF new, line, p
  <2>5. LastValue(new, key, p, p)
    <3>1. p \in Nat /\ p \in 1 .. Len(new) /\ p \in p .. Len(new)
      BY <1>2, <2>1
    <3>2. new[p][1] = key
      BY <1>1, <2>1
    <3>3. \A j \in p + 1 .. Len(new) : j \in 1 .. Len(keys) /\ j # p
      BY <1>2, <2>1, <3>1
    <3>4. \A j \in p + 1 .. Len(new) : new[j][1] # key
      BY <2>1, <2>3, <3>3
    <3>5. p < Len(new) => p + 1 \in 1 .. Len(keys) /\ p + 1 # p
      BY <1>2, <2>1, <3>1
    <3>6. p < Len(new) => new[p + 1][1] # Continued
      BY <2>1, <2>4, <3>5
    <3>7. \A x \in p + 1 .. p : FALSE
      BY <3>1
    <3> QED
      BY <3>1, <3>2, <3>4, <3>6, <3>7 DEF LastValue
  <2> QED
    BY <1>3, <2>1, <2>5 DEF new
<1>5. CASE ~Has(keys, key)
  <2> DEFINE a == Anchor(keys, after)
             p == a + 1
  <2>1. /\ a \in 0 .. Len(keys)
        /\ new \in Seq(S) /\ Len(new) = Len(keys) + 1
        /\ new[a + 1] = line
        /\ \A i \in a + 1 .. Len(keys) : new[i + 1] = keys[i]
    BY <1>1, <1>5, SetInserted, SMTT(30)
  <2>2. \A i \in 1 .. Len(keys) : keys[i][1] # key
    BY <1>5, NoPosition, Zenon
  <2>3. a \in 1 .. Len(keys) - 1 => keys[a + 1][1] # Continued
    BY AnchorEnds
  <2> HIDE DEF new, line, a
  <2>4. p \in Nat /\ p \in 1 .. Len(new) /\ p \in p .. Len(new)
    BY <1>2, <2>1
  <2>5. new[p][1] = key
    BY <1>1, <2>1
  <2>6. \A j \in p + 1 .. Len(new) :
          /\ j - 1 \in a + 1 .. Len(keys) /\ j - 1 \in 1 .. Len(keys)
          /\ (j - 1) + 1 = j
    BY <1>2, <2>1
  <2>7. \A j \in p + 1 .. Len(new) : new[j] = keys[j - 1] /\ keys[j - 1][1] # key
    <3> TAKE j \in p + 1 .. Len(new)
    <3> DEFINE i == j - 1
    <3>1. i \in a + 1 .. Len(keys) /\ i \in 1 .. Len(keys) /\ i + 1 = j
      BY <2>6
    <3> HIDE DEF i
    <3>2. new[j] = keys[i] /\ keys[i][1] # key
      BY <2>1, <2>2, <3>1
    <3> QED
      BY <3>2 DEF i
  <2>8. p < Len(new) => new[p + 1][1] # Continued
    <3> SUFFICES ASSUME p < Len(new) PROVE new[p + 1][1] # Continued
      OBVIOUS
    <3>1. a + 1 \in a + 1 .. Len(keys) /\ a + 1 \in DOMAIN keys
      BY <1>2, <2>1
    <3>2. new[p + 1] = keys[a + 1]
      BY <2>1, <3>1
    <3>3. keys[a + 1][1] # Continued
      <4>1. CASE a = 0
        BY <3>1, <4>1
      <4>2. CASE a # 0
        <5>1. a \in 1 .. Len(keys) - 1
          BY <1>2, <2>1, <3>1, <4>2
        <5> QED
          BY <2>3, <5>1
      <4> QED
        BY <4>1, <4>2
    <3> QED
      BY <3>2, <3>3
  <2>9. \A x \in p + 1 .. p : FALSE
    BY <2>4
  <2> HIDE DEF p
  <2>10. \A j \in p + 1 .. Len(new) : new[j][1] # key
    BY <2>7
  <2>11. LastValue(new, key, p, p)
    BY <2>4, <2>5, <2>8, <2>9, <2>10 DEF LastValue
  <2>12. new[p] = line
    BY <2>1 DEF p
  <2> QED
    BY <1>3, <2>1, <2>11, <2>12 DEF new
<1> QED
  BY <1>4, <1>5

-----------------------------------------------------------------------------
(***************************************************************************)
(* What is put together of parts, when some of them change.                *)
(***************************************************************************)
\* r has what the first n parts, sequences over S, come to, for each n up to L.
Collects(S, parts, L, r) ==
  /\ r[0] = <<>>
  /\ \A n \in 0 .. L : r[n] \in Seq(S)
  /\ \A n \in 1 .. L : r[n] = r[n - 1] \o parts[n]
  /\ FlattenSeq(parts) = r[L]

\* FlattenSeq goes over the parts from the first to the last.
LEMMA Collecting ==
  ASSUME NEW S, NEW parts \in Seq(Seq(S))
  PROVE  \E r : Collects(S, parts, Len(parts), r)
<1> DEFINE L == Len(parts)
<1>1. L \in Nat /\ \A n \in 1 .. L : parts[n] \in Seq(S)
  OBVIOUS
<1>2. \A s \in Seq(S) : <<>> \o s = s
  BY ConcatEmptySeq
<1>3. CASE L = 0
  <2> DEFINE r == [n \in {0} |-> <<>>]
  <2>1. FlattenSeq(parts) = <<>>
    BY <1>3 DEF FlattenSeq
  <2>2. r[0] = <<>> /\ <<>> \in Seq(S)
    OBVIOUS
  <2> HIDE DEF r, L
  <2>3. r[L] = <<>>
    BY <1>3, <2>2
  <2>4. 1 .. L = {} /\ \A n \in 0 .. L : n = 0
    BY <1>3
  <2>5. \A n \in 0 .. L : r[n] \in Seq(S)
    BY <2>2, <2>4
  <2>6. Collects(S, parts, L, r)
    BY <2>1, <2>2, <2>3, <2>4, <2>5 DEF Collects
  <2> QED
    BY <2>6 DEF L
<1>4. CASE L # 0
  <2>1. PICK g : /\ g[1] = parts[1]
                 /\ \A n \in 2 .. L : g[n] = g[n - 1] \o parts[n]
                 /\ FlattenSeq(parts) = g[L]
    BY <1>1, <1>4, FlattenReads
  <2> DEFINE r == [n \in 0 .. L |-> IF n = 0 THEN <<>> ELSE g[n]]
  <2> HIDE DEF L
  <2>2. r[0] = <<>> /\ \A n \in 1 .. L : r[n] = g[n]
    BY <1>1
  <2> HIDE DEF r
  <2>3. ASSUME NEW n \in 1 .. L
        PROVE  r[n] = r[n - 1] \o parts[n]
    <3>1. CASE n = 1
      <4>1. 1 \in 1 .. L /\ n - 1 = 0
        BY <1>1, <1>4, <3>1
      <4>2. parts[1] \in Seq(S)
        BY <1>1, <4>1
      <4>3. r[1] = parts[1] /\ r[0] \o parts[1] = parts[1]
        BY <1>2, <2>1, <2>2, <4>1, <4>2
      <4> QED
        BY <3>1, <4>1, <4>3
    <3>2. CASE n # 1
      <4>1. n \in 2 .. L /\ n - 1 \in 1 .. L
        BY <1>1, <3>2
      <4> QED
        BY <2>1, <2>2, <4>1
    <3> QED
      BY <3>1, <3>2
  <2>4. L \in 1 .. L
    BY <1>1, <1>4
  <2> DEFINE good == {m \in 0 .. L : r[m] \in Seq(S)}
  <2>5. 0 \in good
    <3>1. 0 \in 0 .. L /\ <<>> \in Seq(S)
      BY <1>1
    <3> QED
      BY <2>2, <3>1
  <2>6. ASSUME NEW m \in 1 .. L, m - 1 \in good
        PROVE  m \in good
    <3>1. r[m - 1] \in Seq(S) /\ parts[m] \in Seq(S) /\ r[m] = r[m - 1] \o parts[m]
      BY <1>1, <2>3, <2>6
    <3>2. r[m] \in Seq(S)
      BY <3>1, ConcatProperties
    <3> QED
      BY <1>1, <3>2
  <2> HIDE DEF good
  <2>7. \A m \in 0 .. L : m \in good
    BY <1>1, <2>5, <2>6, UpTo
  <2>8. Collects(S, parts, L, r)
    BY <2>1, <2>2, <2>3, <2>4, <2>7 DEF Collects, good
  <2> QED
    BY <2>8 DEF L
<1> QED
  BY <1>3, <1>4

\* The parts after x up to y are empty.
EmptyAfter(parts, x, y) == \A k \in x + 1 .. y : parts[k] = <<>>

\* Empty parts add nothing.
LEMMA EmptyRun ==
  ASSUME NEW S, NEW b, NEW B \in Nat, NEW g, Collects(S, b, B, g),
         NEW x \in 0 .. B, NEW y \in x .. B, EmptyAfter(b, x, y)
  PROVE  g[y] = g[x]
<1> DEFINE good == {m \in 0 .. B : m < x \/ y < m \/ g[m] = g[x]}
<1>1. 0 \in good
  OBVIOUS
<1>2. ASSUME NEW m \in 1 .. B, m - 1 \in good
      PROVE  m \in good
  <2>1. CASE m < x \/ y < m \/ m = x
    BY <2>1
  <2>2. CASE m \in x + 1 .. y
    <3>1. b[m] = <<>>
      BY <2>2 DEF EmptyAfter
    <3>2. g[m - 1] = g[x]
      BY <1>2, <2>2
    <3>3. g[m] = g[m - 1] \o b[m]
      BY DEF Collects
    <3>4. g[x] \o <<>> = g[x]
      BY ConcatEmptySeq DEF Collects
    <3>5. g[m] = g[x]
      BY <3>1, <3>2, <3>3, <3>4
    <3> QED
      BY <3>5
  <2> QED
    BY <2>1, <2>2
<1> HIDE DEF good
<1>3. \A m \in 0 .. B : m \in good
  BY <1>1, <1>2, UpTo
<1>4. y \in good
  BY <1>3
<1> QED
  BY <1>4 DEF good

\* h takes the places P of s to the places Q of t, in order, line by line.
Carries(h, s, P, t, Q) ==
  /\ \A i \in P : h[i] \in Q /\ t[h[i]] = s[i]
  /\ \A i \in P, j \in P : i < j => h[i] < h[j]
  /\ \A k \in Q : \E i \in P : h[i] = k

\* What is put together does not change when its parts are carried elsewhere.
LEMMA SameParts ==
  ASSUME NEW S, NEW a, NEW b, NEW A \in Nat, NEW B \in Nat, NEW f, NEW g,
         Collects(S, a, A, f), Collects(S, b, B, g),
         NEW P \in SUBSET (1 .. A), NEW Q \in SUBSET (1 .. B), NEW h,
         \A m \in (1 .. A) \ P : a[m] = <<>>,
         \A m \in (1 .. B) \ Q : b[m] = <<>>,
         Carries(h, a, P, b, Q)
  PROVE  f[A] = g[B]
<1> DEFINE Cut(n, m) == \A i \in P : IF i <= n THEN h[i] <= m ELSE m < h[i]
           good == {n \in 0 .. A : \A m \in 0 .. B : Cut(n, m) => f[n] = g[m]}
<1>1. \A i \in P : h[i] \in 1 .. B
  BY DEF Carries
<1>2. 0 \in good
  <2>1. ASSUME NEW m \in 0 .. B, Cut(0, m)
        PROVE  f[0] = g[m]
    <3>1. ASSUME NEW k \in 1 .. m
          PROVE  b[k] = <<>>
      <4>1. ASSUME k \in Q
            PROVE  FALSE
        <5>1. PICK i \in P : h[i] = k
          BY <4>1 DEF Carries
        <5>2. ~ (i <= 0)
          OBVIOUS
        <5>3. m < h[i]
          BY <2>1, <5>2
        <5> QED
          BY <5>1, <5>3
      <4> QED
        BY <4>1
    <3>2. 0 \in 0 .. B /\ m \in 0 .. B /\ m \in 0 .. m /\ 0 + 1 = 1
      OBVIOUS
    <3>3. EmptyAfter(b, 0, m)
      BY <3>1, <3>2 DEF EmptyAfter
    <3>4. g[m] = g[0]
      BY ONLY <3>2, <3>3, EmptyRun, B \in Nat, Collects(S, b, B, g)
    <3> QED
      BY <3>4 DEF Collects
  <2> QED
    BY <2>1
<1>3. ASSUME NEW n \in 1 .. A, n - 1 \in good
      PROVE  n \in good
  <2>1. n - 1 \in 0 .. A
    OBVIOUS
  <2>2. f[n] = f[n - 1] \o a[n] /\ f[n - 1] \in Seq(S)
    BY <2>1 DEF Collects
  <2>3. ASSUME NEW m \in 0 .. B, Cut(n, m)
        PROVE  f[n] = g[m]
    <3>1. CASE n \notin P
      <4>1. ASSUME NEW i \in P
            PROVE  IF i <= n - 1 THEN h[i] <= m ELSE m < h[i]
        <5>1. i # n /\ i \in Nat
          BY <3>1
        <5>2. i <= n - 1 <=> i <= n
          BY <5>1
        <5> QED
          BY <2>3, <5>2
      <4>2. f[n - 1] = g[m]
        BY <1>3, <4>1
      <4>3. a[n] = <<>> /\ f[n - 1] \in Seq(S)
        BY <2>2, <3>1
      <4>4. f[n - 1] \o <<>> = f[n - 1]
        BY <4>3, ConcatEmptySeq
      <4> QED
        BY <2>2, <4>2, <4>3, <4>4
    <3>2. CASE n \in P
      <4> DEFINE y == h[n]
      <4>1. y \in 1 .. B /\ y <= m /\ b[y] = a[n]
        <5>1. y \in 1 .. B /\ b[y] = a[n]
          BY <1>1, <3>2 DEF Carries
        <5>2. y <= m
          BY <2>3, <3>2
        <5> QED
          BY <5>1, <5>2
      <4>2. ASSUME NEW k \in y + 1 .. m
            PROVE  b[k] = <<>>
        <5>1. k \in 1 .. B
          BY <4>1
        <5>2. ASSUME k \in Q
              PROVE  FALSE
          <6>1. PICK i \in P : h[i] = k
            BY <5>2 DEF Carries
          <6>2. CASE i <= n
            <7>1. i = n \/ i < n
              BY <6>2
            <7>2. i < n => h[i] < h[n]
              BY <3>2 DEF Carries
            <7>3. h[i] <= y
              BY <1>1, <3>2, <7>1, <7>2
            <7> QED
              BY <4>1, <6>1, <7>3
          <6>3. CASE ~ (i <= n)
            <7>1. m < h[i]
              BY <2>3, <6>3
            <7> QED
              BY <4>1, <6>1, <7>1
          <6> QED
            BY <6>2, <6>3
        <5> QED
          BY <5>1, <5>2
      <4>3. ASSUME NEW i \in P
            PROVE  IF i <= n - 1 THEN h[i] <= y - 1 ELSE y - 1 < h[i]
        <5>1. i \in Nat /\ h[i] \in 1 .. B /\ y \in 1 .. B
          <6>1. h[i] \in 1 .. B /\ y \in 1 .. B
            BY <1>1, <4>1
          <6>2. i \in 1 .. A
            OBVIOUS
          <6>3. i \in Nat
            BY ONLY <6>2, A \in Nat
          <6> QED
            BY <6>1, <6>3
        <5>2. CASE i <= n - 1
          <6>1. h[i] < h[n]
            BY <3>2, <5>1, <5>2 DEF Carries
          <6>2. h[i] < y
            BY <6>1
          <6> HIDE DEF y
          <6> QED
            BY <5>1, <5>2, <6>2
        <5>3. CASE ~ (i <= n - 1)
          <6>1. i = n \/ n < i
            BY <5>1, <5>3
          <6>2. n < i => h[n] < h[i]
            BY <3>2 DEF Carries
          <6>3. y = h[i] \/ y < h[i]
            BY <6>1, <6>2
          <6> HIDE DEF y
          <6> QED
            BY <5>1, <5>3, <6>3
        <5> QED
          BY <5>2, <5>3
      <4> HIDE DEF y
      <4>4. y - 1 \in 0 .. B /\ y \in 0 .. B /\ m \in y .. B
        BY <4>1
      <4>5. f[n - 1] = g[y - 1]
        BY <1>3, <4>3, <4>4
      <4>6. g[y] = g[y - 1] \o b[y]
        BY <4>1 DEF Collects
      <4>7. EmptyAfter(b, y, m)
        BY <4>2 DEF EmptyAfter
      <4>8. g[m] = g[y]
        BY ONLY <4>4, <4>7, EmptyRun, B \in Nat, Collects(S, b, B, g)
      <4> QED
        BY <2>2, <4>1, <4>5, <4>6, <4>8
    <3> QED
      BY <3>1, <3>2
  <2> QED
    BY <2>3
<1>4. ASSUME NEW i \in P
      PROVE  IF i <= A THEN h[i] <= B ELSE B < h[i]
  BY <1>1
<1> HIDE DEF good
<1>5. \A n \in 0 .. A : n \in good
  BY <1>2, <1>3, UpTo
<1>6. A \in good /\ B \in 0 .. B
  BY <1>5
<1> QED
  BY <1>4, <1>6 DEF good

\* The same lines at the places of another sequence.
LEMMA SameLines ==
  ASSUME NEW S, NEW s \in Seq(S), NEW t \in Seq(S),
         NEW P \in SUBSET DOMAIN s, NEW Q \in SUBSET DOMAIN t, NEW h,
         Carries(h, s, P, t, Q)
  PROVE  LinesAt(t, Q) = LinesAt(s, P)
<1> DEFINE a == [i \in DOMAIN s |-> IF i \in P THEN <<s[i]>> ELSE <<>>]
           b == [i \in DOMAIN t |-> IF i \in Q THEN <<t[i]>> ELSE <<>>]
           A == Len(s)
           B == Len(t)
<1>1. /\ A \in Nat /\ B \in Nat /\ DOMAIN s = 1 .. A /\ DOMAIN t = 1 .. B
  OBVIOUS
<1>2. a \in Seq(Seq(S)) /\ Len(a) = A
  <2>1. \A i \in 1 .. A : a[i] \in Seq(S)
    OBVIOUS
  <2> QED
    BY <1>1, <2>1
<1>3. b \in Seq(Seq(S)) /\ Len(b) = B
  <2>1. \A i \in 1 .. B : b[i] \in Seq(S)
    OBVIOUS
  <2> QED
    BY <1>1, <2>1
<1>4. /\ \A m \in (1 .. A) \ P : a[m] = <<>>
      /\ \A m \in (1 .. B) \ Q : b[m] = <<>>
  OBVIOUS
<1>5. Carries(h, a, P, b, Q)
  <2>1. ASSUME NEW i \in P
        PROVE  h[i] \in Q /\ b[h[i]] = a[i]
    <3>1. h[i] \in Q /\ t[h[i]] = s[i]
      BY DEF Carries
    <3>2. b[h[i]] = <<t[h[i]]>> /\ a[i] = <<s[i]>>
      BY <3>1
    <3> QED
      BY <3>1, <3>2
  <2> QED
    BY <2>1 DEF Carries
<1>6. LinesAt(s, P) = FlattenSeq(a) /\ LinesAt(t, Q) = FlattenSeq(b)
  BY DEF LinesAt
<1> HIDE DEF a, b, A, B
<1>7. PICK f : Collects(S, a, A, f)
  BY <1>2, Collecting
<1>8. PICK g : Collects(S, b, B, g)
  BY <1>3, Collecting
<1>9. P \in SUBSET (1 .. A) /\ Q \in SUBSET (1 .. B)
  BY <1>1
<1>10. f[A] = g[B]
  BY <1>1, <1>4, <1>5, <1>7, <1>8, <1>9, SameParts
<1> QED
  BY <1>6, <1>7, <1>8, <1>10 DEF Collects

\* One more line after the last.
LEMMA OneMoreLine ==
  ASSUME NEW S, NEW t \in Seq(S), NEW Q \in SUBSET DOMAIN t, NEW k \in DOMAIN t,
         k \notin Q, \A i \in Q : i < k
  PROVE  LinesAt(t, Q \cup {k}) = LinesAt(t, Q) \o <<t[k]>>
<1> DEFINE R == Q \cup {k}
           a == [i \in DOMAIN t |-> IF i \in Q THEN <<t[i]>> ELSE <<>>]
           b == [i \in DOMAIN t |-> IF i \in R THEN <<t[i]>> ELSE <<>>]
           L == Len(t)
<1>1. L \in Nat /\ DOMAIN t = 1 .. L
  OBVIOUS
<1>2. a \in Seq(Seq(S)) /\ Len(a) = L
  <2>1. \A i \in 1 .. L : a[i] \in Seq(S)
    OBVIOUS
  <2> QED
    BY <1>1, <2>1
<1>3. b \in Seq(Seq(S)) /\ Len(b) = L
  <2>1. \A i \in 1 .. L : b[i] \in Seq(S)
    OBVIOUS
  <2> QED
    BY <1>1, <2>1
<1>4. /\ \A m \in k .. L : a[m] = <<>>
      /\ \A m \in k + 1 .. L : b[m] = <<>>
      /\ \A m \in 1 .. k - 1 : b[m] = a[m]
      /\ b[k] = <<t[k]>>
  <2>1. \A m \in k .. L : m \in 1 .. L /\ ~(m < k)
    OBVIOUS
  <2>2. \A m \in k .. L : m \notin Q
    BY <2>1
  <2>3. \A m \in k + 1 .. L : m \in k .. L /\ m # k
    OBVIOUS
  <2>4. \A m \in 1 .. k - 1 : m \in 1 .. L /\ m # k
    OBVIOUS
  <2>5. \A m \in k .. L : a[m] = <<>>
    BY <2>1, <2>2
  <2>6. \A m \in k + 1 .. L : b[m] = <<>>
    BY <2>1, <2>2, <2>3
  <2>7. \A m \in 1 .. k - 1 : b[m] = a[m]
    BY <2>4
  <2> QED
    BY <2>5, <2>6, <2>7
<1>5. LinesAt(t, Q) = FlattenSeq(a) /\ LinesAt(t, Q \cup {k}) = FlattenSeq(b)
  BY DEF LinesAt
<1> HIDE DEF a, b, L
<1>6. PICK f : Collects(S, a, L, f)
  BY <1>2, Collecting
<1>7. PICK g : Collects(S, b, L, g)
  BY <1>3, Collecting
<1>8. k - 1 \in 0 .. L /\ k \in 1 .. L /\ k \in 0 .. L /\ L \in k - 1 .. L /\ L \in k .. L
  BY <1>1
<1> DEFINE good == {m \in 0 .. L : k <= m \/ f[m] = g[m]}
<1>9. 0 \in good
  <2>1. f[0] = g[0]
    BY <1>6, <1>7 DEF Collects
  <2> QED
    BY <1>8, <2>1
<1>10. ASSUME NEW m \in 1 .. L, m - 1 \in good
       PROVE  m \in good
  <2>1. CASE k <= m
    BY <2>1
  <2>2. CASE ~ (k <= m)
    <3>1. m \in 1 .. k - 1 /\ ~ (k <= m - 1)
      BY <1>8, <2>2
    <3>2. f[m - 1] = g[m - 1]
      BY <1>10, <3>1
    <3>3. f[m] = f[m - 1] \o a[m] /\ g[m] = g[m - 1] \o b[m]
      BY <1>6, <1>7 DEF Collects
    <3>4. f[m] = g[m]
      BY <1>4, <3>1, <3>2, <3>3
    <3> QED
      BY <3>4
  <2> QED
    BY <2>1, <2>2
<1> HIDE DEF good
<1>11. \A m \in 0 .. L : m \in good
  BY <1>1, <1>9, <1>10, UpTo
<1>12. f[k - 1] = g[k - 1]
  <2>1. k - 1 \in good /\ ~ (k <= k - 1)
    BY <1>8, <1>11
  <2> QED
    BY <2>1 DEF good
<1>13. f[L] = f[k - 1]
  <2>1. EmptyAfter(a, k - 1, L)
    BY <1>1, <1>4, <1>8 DEF EmptyAfter
  <2> QED
    BY ONLY <1>1, <1>6, <1>8, <2>1, EmptyRun
<1>14. g[L] = g[k]
  <2>1. EmptyAfter(b, k, L)
    BY <1>4 DEF EmptyAfter
  <2> QED
    BY ONLY <1>1, <1>7, <1>8, <2>1, EmptyRun
<1>15. g[k] = g[k - 1] \o b[k]
  BY <1>7, <1>8 DEF Collects
<1> QED
  BY <1>4, <1>5, <1>6, <1>7, <1>12, <1>13, <1>14, <1>15 DEF Collects

\* The lines of the values of all keys but some.
OwnPlaces(keys, dropped) ==
  UNION {i .. ValueEnd(keys, i) :
           i \in {j \in DOMAIN keys : keys[j][1] \notin dropped \cup {Continued}}}

\* The lines after i up to x continue the value that line i begins.
Carry(keys, i, x) == \A y \in i + 1 .. x : keys[y][1] = Continued

\* A line is of a value when all lines from the first of the value on continue it.
LEMMA OwnPlace ==
  ASSUME NEW S, NEW keys \in Seq(S), NEW dropped, NEW x \in DOMAIN keys
  PROVE  x \in OwnPlaces(keys, dropped) <=>
           \E i \in 1 .. x : /\ keys[i][1] \notin dropped \cup {Continued}
                             /\ Carry(keys, i, x)
<1> DEFINE L == Len(keys)
           own == {j \in DOMAIN keys : keys[j][1] \notin dropped \cup {Continued}}
<1>1. L \in Nat /\ DOMAIN keys = 1 .. L /\ x \in 1 .. L
  OBVIOUS
<1> HIDE DEF L
<1>2. ASSUME NEW i \in own, x \in i .. ValueEnd(keys, i)
      PROVE  i \in 1 .. x /\ Carry(keys, i, x)
  <2>1. i \in 1 .. L
    BY <1>1
  <2>2. /\ ValueEnd(keys, i) \in i .. L
        /\ \A y \in i + 1 .. ValueEnd(keys, i) : keys[y][1] = Continued
    BY <1>1, <2>1, LastOfValue DEF L
  <2> DEFINE e == ValueEnd(keys, i)
  <2>3. e \in i .. L /\ x \in i .. e /\ \A y \in i + 1 .. e : keys[y][1] = Continued
    BY <1>2, <2>2
  <2> HIDE DEF e
  <2>4. i \in 1 .. x /\ \A y \in i + 1 .. x : y \in i + 1 .. e
    BY <1>1, <2>1, <2>3
  <2> QED
    BY <2>3, <2>4 DEF Carry
<1>3. ASSUME NEW i \in 1 .. x, Carry(keys, i, x)
      PROVE  x \in i .. ValueEnd(keys, i)
  <2>1. i \in 1 .. L
    BY <1>1
  <2>2. /\ ValueEnd(keys, i) \in i .. L
        /\ ValueEnd(keys, i) < L => keys[ValueEnd(keys, i) + 1][1] # Continued
    BY <1>1, <2>1, LastOfValue DEF L
  <2> DEFINE e == ValueEnd(keys, i)
  <2>3. e \in i .. L /\ (e < L => keys[e + 1][1] # Continued)
    BY <2>2
  <2> HIDE DEF e
  <2>4. ASSUME ~ (x <= e)
        PROVE  FALSE
    <3>1. e < L /\ e + 1 \in i + 1 .. x
      BY <1>1, <2>1, <2>3, <2>4
    <3>2. keys[e + 1][1] = Continued
      BY <1>3, <3>1 DEF Carry
    <3> QED
      BY <2>3, <3>1, <3>2
  <2>5. x \in i .. e
    BY <1>1, <2>1, <2>3, <2>4
  <2> QED
    BY <2>5 DEF e
<1>4. \A i \in 1 .. x : i \in DOMAIN keys
  BY <1>1
<1>5. x \in OwnPlaces(keys, dropped) <=> \E i \in own : x \in i .. ValueEnd(keys, i)
  BY DEF OwnPlaces
<1>6. ASSUME x \in OwnPlaces(keys, dropped)
      PROVE  \E i \in 1 .. x : /\ keys[i][1] \notin dropped \cup {Continued}
                               /\ Carry(keys, i, x)
  <2>1. PICK i \in own : x \in i .. ValueEnd(keys, i)
    BY <1>5, <1>6
  <2>2. i \in 1 .. x /\ Carry(keys, i, x) /\ keys[i][1] \notin dropped \cup {Continued}
    BY <1>2, <2>1
  <2> QED
    BY <2>2
<1>7. ASSUME NEW i \in 1 .. x, keys[i][1] \notin dropped \cup {Continued},
             Carry(keys, i, x)
      PROVE  x \in OwnPlaces(keys, dropped)
  <2>1. i \in own /\ x \in i .. ValueEnd(keys, i)
    BY <1>3, <1>4, <1>7
  <2> HIDE DEF own
  <2> QED
    BY <1>5, <2>1
<1> QED
  BY <1>6, <1>7

\* m lines from p on give way to n others, both of keys that are dropped, and no
\* value goes on from the lines before to the lines after.
Edited(keys, new, dropped, p, m, n) ==
  /\ p \in Nat \ {0} /\ m \in Nat /\ n \in Nat /\ p + m - 1 <= Len(keys)
  /\ Len(new) = Len(keys) + n - m
  /\ \A x \in 1 .. p - 1 : new[x] = keys[x]
  /\ \A x \in p + m .. Len(keys) : new[x + n - m] = keys[x]
  /\ \A x \in p .. p + m - 1 : keys[x][1] \in dropped \cup {Continued}
  /\ \A x \in p .. p + n - 1 : new[x][1] \in dropped \cup {Continued}
  /\ 0 < m => keys[p][1] # Continued
  /\ 0 < n => new[p][1] # Continued
  /\ (m = 0 \/ n = 0) /\ 1 < p /\ p + m <= Len(keys) =>
       keys[p + m][1] # Continued

\* Where the lines before and after go.
Renumbered(p, m, n, x) == IF x < p THEN x ELSE x + n - m

\* An edit undone is an edit.
LEMMA EditUndone ==
  ASSUME NEW S, NEW keys \in Seq(S), NEW new \in Seq(S), NEW dropped,
         NEW p, NEW m, NEW n, Edited(keys, new, dropped, p, m, n)
  PROVE  Edited(new, keys, dropped, p, n, m)
<1> DEFINE L == Len(keys)
           M == Len(new)
<1>1. /\ L \in Nat /\ M \in Nat /\ p \in Nat \ {0} /\ m \in Nat /\ n \in Nat
      /\ p + m - 1 <= L /\ M = L + n - m
      /\ \A x \in p + m .. L : new[x + n - m] = keys[x]
      /\ (m = 0 \/ n = 0) /\ 1 < p /\ p + m <= L => keys[p + m][1] # Continued
  BY DEF Edited
<1> HIDE DEF L, M
<1>2. p + n - 1 <= M /\ L = M + m - n
  BY <1>1
<1>3. ASSUME NEW x \in p + n .. M
      PROVE  keys[x + m - n] = new[x]
  <2> DEFINE y == x + m - n
  <2>1. y \in p + m .. L /\ y + n - m = x
    BY <1>1
  <2> HIDE DEF y
  <2>2. new[y + n - m] = keys[y]
    BY <1>1, <2>1
  <2> QED
    BY <2>1, <2>2 DEF y
<1>4. ASSUME m = 0 \/ n = 0, 1 < p, p + n <= M
      PROVE  new[p + n][1] # Continued
  <2> DEFINE y == p + m
  <2>1. y \in p + m .. L /\ y + n - m = p + n /\ p + m <= L
    BY <1>1, <1>4
  <2>2. keys[y][1] # Continued
    BY <1>1, <1>4, <2>1
  <2> HIDE DEF y
  <2>3. new[y + n - m] = keys[y]
    BY <1>1, <2>1
  <2> QED
    BY <2>1, <2>2, <2>3
<1>5. \A x \in 1 .. p - 1 : keys[x] = new[x]
  BY DEF Edited
<1> QED
  BY <1>1, <1>2, <1>3, <1>4, <1>5 DEF Edited, L, M

\* The lines of other values stay such lines.
LEMMA OwnStay ==
  ASSUME NEW S, NEW keys \in Seq(S), NEW new \in Seq(S), NEW dropped,
         NEW p, NEW m, NEW n, Edited(keys, new, dropped, p, m, n),
         NEW x \in OwnPlaces(keys, dropped), x \in DOMAIN keys
  PROVE  /\ x \notin p .. p + m - 1
         /\ Renumbered(p, m, n, x) \in OwnPlaces(new, dropped)
         /\ Renumbered(p, m, n, x) \in DOMAIN new
         /\ new[Renumbered(p, m, n, x)] = keys[x]
<1> DEFINE L == Len(keys)
           M == Len(new)
<1>1. /\ L \in Nat /\ M \in Nat /\ p \in Nat \ {0} /\ m \in Nat /\ n \in Nat
      /\ p + m - 1 <= L /\ M = L + n - m
      /\ DOMAIN keys = 1 .. L /\ DOMAIN new = 1 .. M
  BY DEF Edited
<1>2. \A y \in 1 .. p - 1 : new[y] = keys[y]
  BY DEF Edited
<1>3. \A y \in p + m .. L : new[y + n - m] = keys[y]
  BY DEF Edited
<1>4. PICK i \in 1 .. x : /\ keys[i][1] \notin dropped \cup {Continued}
                          /\ Carry(keys, i, x)
  BY OwnPlace
<1> HIDE DEF L, M
<1>5. x \in 1 .. L /\ i \in 1 .. L
  BY <1>1
<1>6. i \notin p .. p + m - 1
  BY <1>4 DEF Edited
<1>7. ~ (i < p /\ p <= x)
  <2>1. ASSUME i < p, p <= x
        PROVE  FALSE
    <3>1. CASE 0 < m
      <4>1. p \in i + 1 .. x
        BY <1>1, <1>5, <2>1
      <4>2. keys[p][1] = Continued
        BY <1>4, <4>1 DEF Carry
      <4> QED
        BY <3>1, <4>2 DEF Edited
    <3>2. CASE m = 0
      <4>1. p + m \in i + 1 .. x /\ 1 < p /\ p + m <= L
        BY <1>1, <1>5, <2>1, <3>2
      <4>2. keys[p + m][1] = Continued
        BY <1>4, <4>1 DEF Carry
      <4> QED
        BY <3>2, <4>1, <4>2 DEF Edited, L
    <3> QED
      BY <1>1, <3>1, <3>2
  <2> QED
    BY <2>1
<1>8. CASE x < p
  <2>1. i \in 1 .. p - 1 /\ x \in 1 .. p - 1 /\ x \in 1 .. M /\ x \notin p .. p + m - 1
    BY <1>1, <1>5, <1>8
  <2>2. new[i] = keys[i] /\ new[x] = keys[x]
    BY <1>2, <2>1
  <2>3. \A y \in i + 1 .. x : y \in 1 .. p - 1
    BY <1>1, <1>5, <2>1
  <2>4. Carry(new, i, x)
    BY <1>2, <1>4, <2>3 DEF Carry
  <2>5. x \in DOMAIN new
    BY <1>1, <2>1
  <2>6. x \in OwnPlaces(new, dropped)
    BY <1>4, <2>2, <2>4, <2>5, OwnPlace
  <2> QED
    BY <1>8, <2>1, <2>2, <2>5, <2>6 DEF Renumbered
<1>9. CASE p <= x
  <2>1. p + m <= i
    BY <1>1, <1>5, <1>6, <1>7, <1>9
  <2> DEFINE j == i + n - m
             z == x + n - m
  <2>2. /\ i \in p + m .. L /\ x \in p + m .. L
        /\ j \in 1 .. z /\ z \in 1 .. M /\ x \notin p .. p + m - 1 /\ ~ (x < p)
    BY <1>1, <1>5, <2>1
  <2>3. new[j] = keys[i] /\ new[z] = keys[x]
    BY <1>3, <2>2
  <2>4. ASSUME NEW y \in j + 1 .. z
        PROVE  new[y][1] = Continued
    <3> DEFINE v == y + m - n
    <3>1. v \in i + 1 .. x /\ v \in p + m .. L /\ v + n - m = y
      BY <1>1, <1>5, <2>1
    <3> HIDE DEF v
    <3>2. new[v + n - m] = keys[v] /\ keys[v][1] = Continued
      BY <1>3, <1>4, <3>1 DEF Carry
    <3> QED
      BY <3>1, <3>2
  <2> HIDE DEF j
  <2>5. Renumbered(p, m, n, x) = z
    BY <2>2 DEF Renumbered
  <2> HIDE DEF z
  <2>6. Carry(new, j, z) /\ z \in DOMAIN new
    BY <1>1, <2>2, <2>4 DEF Carry
  <2>7. z \in OwnPlaces(new, dropped)
    BY <1>4, <2>2, <2>3, <2>6, OwnPlace
  <2> QED
    BY <2>2, <2>3, <2>5, <2>6, <2>7
<1> QED
  BY <1>1, <1>5, <1>8, <1>9

\* What an edit leaves of the other keys.
LEMMA EditKeeps ==
  ASSUME NEW S, NEW keys \in Seq(S), NEW new \in Seq(S), NEW dropped,
         NEW p, NEW m, NEW n, Edited(keys, new, dropped, p, m, n)
  PROVE  KeysBut(new, dropped) = KeysBut(keys, dropped)
<1> DEFINE P == OwnPlaces(keys, dropped)
           Q == OwnPlaces(new, dropped)
           h == [x \in P |-> Renumbered(p, m, n, x)]
<1>1. P \in SUBSET DOMAIN keys /\ Q \in SUBSET DOMAIN new
  <2>1. ASSUME NEW s \in Seq(S)
        PROVE  OwnPlaces(s, dropped) \subseteq DOMAIN s
    <3>1. ASSUME NEW i \in DOMAIN s
          PROVE  i .. ValueEnd(s, i) \subseteq DOMAIN s
      <4>1. ValueEnd(s, i) \in i .. Len(s)
        BY LastOfValue
      <4>2. DOMAIN s = 1 .. Len(s) /\ Len(s) \in Nat
        OBVIOUS
      <4> QED
        BY <4>1, <4>2
    <3> QED
      BY <3>1 DEF OwnPlaces
  <2> QED
    BY <2>1
<1>2. KeysBut(keys, dropped) = LinesAt(keys, P) /\ KeysBut(new, dropped) = LinesAt(new, Q)
  BY DEF KeysBut, OwnPlaces
<1>3. ASSUME NEW x \in P
      PROVE  x \notin p .. p + m - 1 /\ h[x] \in Q /\ new[h[x]] = keys[x]
  BY <1>1, OwnStay
<1>4. p \in Nat /\ m \in Nat /\ n \in Nat
  BY DEF Edited
<1>5. ASSUME NEW x \in P, NEW y \in P, x < y
      PROVE  h[x] < h[y]
  <2>1. x \in Nat /\ y \in Nat
    BY <1>1
  <2>2. x \notin p .. p + m - 1 /\ y \notin p .. p + m - 1
    BY <1>3
  <2>3. Renumbered(p, m, n, x) < Renumbered(p, m, n, y)
    BY <1>4, <1>5, <2>1, <2>2 DEF Renumbered
  <2> QED
    BY <2>3
<1>6. ASSUME NEW k \in Q
      PROVE  \E x \in P : h[x] = k
  <2> DEFINE x == Renumbered(p, n, m, k)
  <2>1. Edited(new, keys, dropped, p, n, m)
    BY EditUndone
  <2>2. k \notin p .. p + n - 1 /\ x \in P /\ k \in Nat
    BY <1>1, <2>1, OwnStay
  <2>3. Renumbered(p, m, n, x) = k
    BY ONLY <1>4, <2>2 DEF Renumbered
  <2> HIDE DEF x
  <2> QED
    BY <2>2, <2>3
<1>7. Carries(h, keys, P, new, Q)
  BY <1>3, <1>5, <1>6 DEF Carries
<1> HIDE DEF P, Q, h
<1> QED
  BY <1>1, <1>2, <1>7, SameLines

\* Setting a key leaves the lines of all other values as they are and in their
\* order (section.rs, Section::set).
THEOREM SetKeepsLines ==
  ASSUME NEW S, NEW keys \in Seq(S), NEW dropped, NEW key \in dropped,
         key # Continued, NEW value, NEW after,
         Assigned(key, value) \in S, Assigned(key, value)[1] = key
  PROVE  /\ SetKey(keys, key, value, after) \in Seq(S)
         /\ KeysBut(SetKey(keys, key, value, after), dropped) = KeysBut(keys, dropped)
<1> DEFINE new == SetKey(keys, key, value, after)
           L == Len(keys)
<1>1. L \in Nat /\ DOMAIN keys = 1 .. L
  OBVIOUS
<1>2. CASE Has(keys, key)
  <2> DEFINE p == Position(keys, key)
  <2>1. /\ new \in Seq(S)
        /\ Len(new) = L
        /\ p \in 1 .. L
        /\ new[p] = Assigned(key, value)
        /\ \A i \in 1 .. L : i # p => new[i] = keys[i]
    BY <1>2, SetInPlace
  <2>2. keys[p][1] = key
    BY <1>2, FirstPosition
  <2>3. new[p][1] = key
    BY <2>1
  <2> HIDE DEF p, new
  <2>4. /\ p \in Nat \ {0} /\ 1 \in Nat /\ p + 1 - 1 <= L /\ Len(new) = L + 1 - 1
        /\ \A x \in 1 .. p - 1 : x \in 1 .. L /\ x # p
        /\ \A x \in p + 1 .. L : x \in 1 .. L /\ x # p /\ x + 1 - 1 = x
        /\ \A x \in p .. p + 1 - 1 : x = p
        /\ ~ (1 = 0)
    BY <1>1, <2>1
  <2> HIDE DEF L
  <2>5. /\ \A x \in 1 .. p - 1 : new[x] = keys[x]
        /\ \A x \in p + 1 .. L : new[x + 1 - 1] = keys[x]
    BY <2>1, <2>4
  <2>6. Edited(keys, new, dropped, p, 1, 1)
    BY <2>2, <2>3, <2>4, <2>5 DEF Edited, L
  <2>7. KeysBut(new, dropped) = KeysBut(keys, dropped)
    BY <2>1, <2>6, EditKeeps
  <2> QED
    BY <2>1, <2>7 DEF new
<1>3. CASE ~Has(keys, key)
  <2> DEFINE a == Anchor(keys, after)
             p == a + 1
  <2>1. /\ a \in 0 .. L
        /\ new \in Seq(S)
        /\ Len(new) = L + 1
        /\ \A i \in 1 .. a : new[i] = keys[i]
        /\ new[a + 1] = Assigned(key, value)
        /\ \A i \in a + 1 .. L : new[i + 1] = keys[i]
    BY <1>3, SetInserted
  <2>2. a \in 1 .. L - 1 => keys[a + 1][1] # Continued
    BY AnchorEnds
  <2> HIDE DEF a, new, L
  <2>3. /\ p \in Nat \ {0} /\ 0 \in Nat /\ 1 \in Nat /\ p + 0 - 1 <= L
        /\ Len(new) = L + 1 - 0 /\ p - 1 = a /\ p + 0 = a + 1 /\ ~ (0 < 0)
        /\ \A x \in p + 0 .. L : x \in a + 1 .. L /\ x + 1 - 0 = x + 1
        /\ p .. p + 0 - 1 = {} /\ \A x \in p .. p + 1 - 1 : x = p
        /\ 1 < p /\ p + 0 <= L => a \in 1 .. L - 1
    BY <1>1, <2>1
  <2>4. new[p][1] = key
    BY <2>1
  <2> HIDE DEF p
  <2>5. /\ \A x \in 1 .. p - 1 : new[x] = keys[x]
        /\ \A x \in p + 0 .. L : new[x + 1 - 0] = keys[x]
        /\ 1 < p /\ p + 0 <= L => keys[p + 0][1] # Continued
    BY <2>1, <2>2, <2>3
  <2>6. Edited(keys, new, dropped, p, 0, 1)
    BY <2>3, <2>4, <2>5 DEF Edited, L
  <2>7. KeysBut(new, dropped) = KeysBut(keys, dropped)
    BY <2>1, <2>6, EditKeeps
  <2> QED
    BY <2>1, <2>7 DEF new
<1> QED
  BY <1>2, <1>3

\* Removing a key leaves the lines of all other values as they are and in their
\* order (section.rs, Section::remove).
THEOREM RemoveKeepsLines ==
  ASSUME NEW S, NEW keys \in Seq(S), NEW dropped, NEW key \in dropped, key # Continued
  PROVE  /\ RemoveKey(keys, key) \in Seq(S)
         /\ KeysBut(RemoveKey(keys, key), dropped) = KeysBut(keys, dropped)
<1> DEFINE new == RemoveKey(keys, key)
           L == Len(keys)
           p == Position(keys, key)
           e == ValueEnd(keys, p)
           m == e - p + 1
<1>1. L \in Nat /\ DOMAIN keys = 1 .. L
  OBVIOUS
<1>2. CASE ~Has(keys, key)
  BY <1>2 DEF RemoveKey
<1>3. CASE Has(keys, key)
  <2>1. /\ p \in 1 .. L /\ e \in p .. L
        /\ new \in Seq(S)
        /\ Len(new) = L - m
        /\ \A i \in 1 .. p - 1 : new[i] = keys[i]
        /\ \A i \in p .. Len(new) : new[i] = keys[i + m]
    BY <1>3, RemovedLines
  <2>2. keys[p][1] = key
    BY <1>3, FirstPosition
  <2>3. /\ \A x \in p + 1 .. e : keys[x][1] = Continued
        /\ e < L => keys[e + 1][1] # Continued
    BY <1>1, <2>1, LastOfValue
  <2> HIDE DEF new, p, e, L
  <2>4. /\ p \in Nat \ {0} /\ m \in Nat /\ 0 \in Nat /\ p + m - 1 <= L
        /\ Len(new) = L + 0 - m /\ p + m - 1 = e /\ p + m = e + 1 /\ ~ (0 < 0)
        /\ \A x \in p .. e : x = p \/ x \in p + 1 .. e
        /\ p .. p + 0 - 1 = {} /\ (p + m <= L => e < L)
    BY <1>1, <2>1
  <2> HIDE DEF m
  <2>5. ASSUME NEW x \in p + m .. L
        PROVE  new[x + 0 - m] = keys[x]
    <3> DEFINE y == x + 0 - m
    <3>1. y \in p .. Len(new) /\ y + m = x
      BY <1>1, <2>4
    <3> HIDE DEF y
    <3>2. new[y] = keys[y + m]
      BY <2>1, <3>1
    <3> QED
      BY <3>1, <3>2 DEF y
  <2>6. \A x \in p .. p + m - 1 : keys[x][1] \in dropped \cup {Continued}
    BY <2>2, <2>3, <2>4
  <2>7. p + m <= L => keys[p + m][1] # Continued
    BY <2>3, <2>4
  <2>8. Edited(keys, new, dropped, p, m, 0)
    BY <2>1, <2>2, <2>4, <2>5, <2>6, <2>7 DEF Edited, L
  <2>9. KeysBut(new, dropped) = KeysBut(keys, dropped)
    BY <2>1, <2>8, EditKeeps
  <2> QED
    BY <2>1, <2>9 DEF new
<1> QED
  BY <1>2, <1>3

-----------------------------------------------------------------------------
(***************************************************************************)
(* Sequences of any elements.                                              *)
(***************************************************************************)
IsSeq(s) == s \in Seq(Range(s))

\* A sequence is one of its own elements.
LEMMA SeqOfAnything ==
  ASSUME NEW S, NEW s \in Seq(S)
  PROVE  IsSeq(s)
BY SeqOfRange DEF IsSeq

\* Length and elements of a sequence of whatever elements.
LEMMA SeqFacts ==
  ASSUME NEW s, IsSeq(s)
  PROVE  /\ Len(s) \in Nat /\ DOMAIN s = 1 .. Len(s)
         /\ \A i \in 1 .. Len(s) : s[i] \in Range(s)
         /\ s = <<>> <=> Len(s) = 0
BY DEF IsSeq

\* Length and elements of two sequences put together.
LEMMA ConcatFacts ==
  ASSUME NEW a, NEW b, IsSeq(a), IsSeq(b)
  PROVE  /\ IsSeq(a \o b)
         /\ Len(a \o b) = Len(a) + Len(b)
         /\ \A i \in 1 .. Len(a) + Len(b) :
              (a \o b)[i] = IF i <= Len(a) THEN a[i] ELSE b[i - Len(a)]
<1> DEFINE S == Range(a) \cup Range(b)
<1>1. a \in Seq(S) /\ b \in Seq(S)
  BY SeqMonotonic DEF IsSeq
<1> HIDE DEF S
<1>2. /\ a \o b \in Seq(S)
      /\ Len(a \o b) = Len(a) + Len(b)
      /\ \A i \in 1 .. Len(a) + Len(b) :
           (a \o b)[i] = IF i <= Len(a) THEN a[i] ELSE b[i - Len(a)]
  BY <1>1, ConcatProperties
<1> QED
  BY <1>2, SeqOfAnything

\* Nothing put before or after a sequence changes it.
LEMMA ConcatNothing ==
  ASSUME NEW s, IsSeq(s)
  PROVE  s \o <<>> = s /\ <<>> \o s = s
BY ConcatEmptySeq DEF IsSeq

\* Length and elements of a part of a sequence.
LEMMA PartFacts ==
  ASSUME NEW s, IsSeq(s), NEW p \in Nat \ {0}, NEW q \in 0 .. Len(s), p <= q + 1
  PROVE  /\ IsSeq(SubSeq(s, p, q))
         /\ Len(SubSeq(s, p, q)) = q - p + 1
         /\ \A i \in 1 .. q - p + 1 : SubSeq(s, p, q)[i] = s[p + i - 1]
<1>1. Len(s) \in Nat /\ \A i \in 1 .. Len(s) : s[i] \in Range(s)
  BY SeqFacts
<1>2. \A i \in p .. q : s[i] \in Range(s)
  BY <1>1
<1>3. p \in Int /\ q \in Int
  BY <1>1
<1>4. /\ SubSeq(s, p, q) \in Seq(Range(s))
      /\ Len(SubSeq(s, p, q)) = IF p <= q THEN q - p + 1 ELSE 0
      /\ \A i \in 1 .. q - p + 1 : SubSeq(s, p, q)[i] = s[p + i - 1]
  BY <1>2, <1>3, SubSeqProperties
<1>5. IsSeq(SubSeq(s, p, q))
  BY <1>4, SeqOfAnything
<1>6. (IF p <= q THEN q - p + 1 ELSE 0) = q - p + 1
  BY <1>1
<1> QED
  BY <1>4, <1>5, <1>6

\* The empty sequence and the sequences of one element.
LEMMA SmallSeqs ==
  /\ IsSeq(<<>>) /\ Len(<<>>) = 0
  /\ \A x : IsSeq(<<x>>) /\ Len(<<x>>) = 1 /\ <<x>>[1] = x
<1>1. IsSeq(<<>>)
  BY DEF IsSeq
<1>2. ASSUME NEW x PROVE IsSeq(<<x>>)
  <2>1. <<x>> \in Seq({x})
    OBVIOUS
  <2> QED
    BY <2>1, SeqOfAnything
<1> QED
  BY <1>1, <1>2

\* The elements of a finite set, in some order.
LEMMA SetSeqFacts ==
  ASSUME NEW S, IsFiniteSet(S)
  PROVE  /\ IsSeq(SetToSeq(S)) /\ SetToSeq(S) \in Seq(S)
         /\ Range(SetToSeq(S)) = S
         /\ \A i, j \in DOMAIN SetToSeq(S) :
              SetToSeq(S)[i] = SetToSeq(S)[j] => i = j
<1> DEFINE n == Cardinality(S)
<1>1. n \in Nat
  BY FS_CardinalityType
<1>2. PICK f : f \in Bijection(1 .. n, S)
  BY FS_CardinalityType, Zenon DEF ExistsBijection
<1>3. f \in [1 .. n -> S] /\ IsInjective(f)
  BY <1>2 DEF Bijection, Injection, IsInjective
<1> DEFINE s == SetToSeq(S)
<1>4. s \in [1 .. n -> S] /\ IsInjective(s)
  BY <1>3 DEF SetToSeq
<1> HIDE DEF s, n
<1>5. s \in Seq(S) /\ Len(s) = n /\ DOMAIN s = 1 .. n
  BY <1>1, <1>4
<1>6. \A i, j \in DOMAIN s : s[i] = s[j] => i = j
  BY <1>4 DEF IsInjective
<1>7. Range(s) = S
  <2>1. Range(s) \subseteq S
    BY <1>4 DEF Range
  <2>2. s \in Bijection(1 .. n, Range(s))
    BY <1>4, <1>6, <1>5 DEF Bijection, Injection, Surjection, Range, IsInjective
  <2>3. IsFiniteSet(1 .. n) /\ Cardinality(1 .. n) = n
    BY <1>1, FS_Interval
  <2>4. Cardinality(Range(s)) = n
    <3>1. ExistsBijection(1 .. n, Range(s))
      BY <2>2 DEF ExistsBijection
    <3> QED
      BY <2>3, <3>1, FS_Bijection, FS_CardinalityType
  <2> QED
    BY <2>1, <2>4, FS_Subset DEF n
<1> QED
  BY <1>5, <1>6, <1>7, SeqOfAnything DEF s

\* The elements of two sequences that are put together, by their place in each.
LEMMA ConcatAt ==
  ASSUME NEW a, NEW b, IsSeq(a), IsSeq(b)
  PROVE  /\ IsSeq(a \o b) /\ Len(a \o b) = Len(a) + Len(b)
         /\ \A i \in 1 .. Len(a) : (a \o b)[i] = a[i]
         /\ \A i \in 1 .. Len(b) : (a \o b)[Len(a) + i] = b[i]
<1> DEFINE m == Len(a)
           n == Len(b)
           c == a \o b
<1>1. m \in Nat /\ n \in Nat
  BY SeqFacts
<1>2. /\ IsSeq(c) /\ Len(c) = m + n
      /\ \A i \in 1 .. m + n : c[i] = IF i <= m THEN a[i] ELSE b[i - m]
  BY ConcatFacts
<1> HIDE DEF m, n, c
<1>3. \A i \in 1 .. m : c[i] = a[i]
  BY <1>1, <1>2
<1>4. \A i \in 1 .. n : c[m + i] = b[i]
  <2> TAKE i \in 1 .. n
  <2> DEFINE v == m + i
  <2>1. v \in 1 .. m + n /\ ~(v <= m) /\ v - m = i
    BY <1>1
  <2> HIDE DEF v
  <2>2. c[v] = b[i]
    BY <1>2, <2>1
  <2> QED
    BY <2>2 DEF v
<1> QED
  BY <1>2, <1>3, <1>4 DEF m, n, c

\* What a function gives for finitely many arguments.
LEMMA FiniteImage ==
  ASSUME NEW f, IsFiniteSet(DOMAIN f)
  PROVE  IsFiniteSet({f[x] : x \in DOMAIN f})
<1> DEFINE T == {f[x] : x \in DOMAIN f}
           g == [x \in DOMAIN f |-> f[x]]
<1>1. g \in Surjection(DOMAIN f, T)
  BY DEF Surjection
<1> QED
  BY <1>1, FS_Surjection

\* A function on 1 .. n is a sequence.
LEMMA FunctionSeq ==
  ASSUME NEW n \in Nat, NEW f, DOMAIN f = 1 .. n, f = [i \in 1 .. n |-> f[i]]
  PROVE  IsSeq(f) /\ Len(f) = n
<1>1. \A i \in 1 .. n : f[i] \in Range(f)
  BY DEF Range
<1>2. f \in [1 .. n -> Range(f)]
  BY <1>1
<1>3. f \in Seq(Range(f))
  BY <1>2
<1> QED
  BY <1>2, <1>3 DEF IsSeq

\* The elements of three sequences that are put together.
Together(a, b, c) == (a \o b) \o c

\* Each of them comes from one of the three.
LEMMA ThreeParts ==
  ASSUME NEW a, NEW b, NEW c, IsSeq(a), IsSeq(b), IsSeq(c)
  PROVE  LET ls == Together(a, b, c)
         IN /\ IsSeq(ls) /\ Len(ls) \in Nat
            /\ \A i \in 1 .. Len(ls) :
                 \/ \E j \in 1 .. Len(a) : ls[i] = a[j]
                 \/ \E j \in 1 .. Len(b) : ls[i] = b[j]
                 \/ \E j \in 1 .. Len(c) : ls[i] = c[j] /\ i = Len(a) + Len(b) + j
<1> DEFINE ab == a \o b
           ls == ab \o c
           m == Len(a)
           n == Len(b)
           k == Len(c)
<1>1. m \in Nat /\ n \in Nat /\ k \in Nat
  BY SeqFacts
<1>2. /\ IsSeq(ab) /\ Len(ab) = m + n
      /\ \A i \in 1 .. m + n : ab[i] = IF i <= m THEN a[i] ELSE b[i - m]
  BY ConcatFacts
<1> HIDE DEF ab
<1>3. /\ IsSeq(ls) /\ Len(ls) = Len(ab) + k
      /\ \A i \in 1 .. Len(ab) + k : ls[i] = IF i <= Len(ab) THEN ab[i] ELSE c[i - Len(ab)]
  BY <1>2, ConcatFacts
<1> HIDE DEF ls, m, n, k
<1>4. /\ Len(ls) = m + n + k
      /\ \A i \in 1 .. m + n + k : ls[i] = IF i <= m + n THEN ab[i] ELSE c[i - (m + n)]
  BY <1>2, <1>3
<1>5. \A i \in 1 .. m + n + k :
        \/ \E j \in 1 .. m : ls[i] = a[j]
        \/ \E j \in 1 .. n : ls[i] = b[j]
        \/ \E j \in 1 .. k : ls[i] = c[j] /\ i = m + n + j
  <2> TAKE i \in 1 .. m + n + k
  <2>1. CASE i <= m
    <3>1. i \in 1 .. m /\ i \in 1 .. m + n /\ i <= m + n
      BY <1>1, <2>1
    <3>2. ls[i] = a[i]
      BY <1>2, <1>4, <2>1, <3>1
    <3> QED
      BY <3>1, <3>2
  <2>2. CASE ~(i <= m) /\ i <= m + n
    <3>1. i - m \in 1 .. n /\ i \in 1 .. m + n
      BY <1>1, <2>2
    <3>2. ls[i] = b[i - m]
      BY <1>2, <1>4, <2>2, <3>1
    <3> QED
      BY <3>1, <3>2
  <2>3. CASE ~(i <= m + n)
    <3>1. i - (m + n) \in 1 .. k /\ i = m + n + (i - (m + n))
      BY <1>1, <2>3
    <3>2. ls[i] = c[i - (m + n)]
      BY <1>4, <2>3
    <3> QED
      BY <3>1, <3>2
  <2> QED
    BY <1>1, <2>1, <2>2, <2>3
<1>6. IsSeq(ls) /\ Len(ls) \in Nat
  BY <1>1, <1>3, <1>4
<1> QED
  BY <1>4, <1>5, <1>6 DEF ls, ab, m, n, k, Together

\* If all parts are empty, nothing is put together.
LEMMA FlattenNone ==
  ASSUME NEW n \in Nat, NEW parts, parts = [i \in 1 .. n |-> parts[i]],
         \A i \in 1 .. n : parts[i] = <<>>
  PROVE  FlattenSeq(parts) = <<>>
<1>1. parts \in Seq(Seq({}))
  <2>1. <<>> \in Seq({})
    OBVIOUS
  <2>2. \A i \in 1 .. n : parts[i] \in Seq({})
    BY <2>1
  <2> DEFINE T == Seq({})
  <2> HIDE DEF T
  <2>3. \A i \in 1 .. n : parts[i] \in T
    BY <2>2 DEF T
  <2>4. parts \in [1 .. n -> T]
    BY <2>3
  <2>5. parts \in Seq(T)
    BY <2>4
  <2> QED
    BY <2>5 DEF T
<1>2. FlattenSeq(parts) \in Seq({})
  BY <1>1, FlattenTyped
<1>3. \A s \in Seq({}) : s = <<>>
  <2> TAKE s \in Seq({})
  <2>1. Len(s) \in Nat /\ \A i \in 1 .. Len(s) : s[i] \in {}
    OBVIOUS
  <2>2. Len(s) = 0
    <3>1. ~(1 \in 1 .. Len(s))
      BY <2>1
    <3> QED
      BY <2>1, <3>1
  <2> QED
    BY <2>2
<1> QED
  BY <1>2, <1>3

-----------------------------------------------------------------------------
(***************************************************************************)
(* Lines of keys.                                                          *)
(***************************************************************************)
\* The lines of a section below its header.
IsKeyLine(l) == IsSeq(l) /\ l # <<>>

AreKeys(keys) == IsSeq(keys) /\ \A i \in 1 .. Len(keys) : IsKeyLine(keys[i])

\* Lines of keys: none, one, and two parts put together.
LEMMA SomeKeys ==
  /\ AreKeys(<<>>)
  /\ \A l : IsKeyLine(l) => AreKeys(<<l>>)
  /\ \A key, value : IsSeq(value) => IsKeyLine(Assigned(key, value))
  /\ \A a, b : AreKeys(a) /\ AreKeys(b) => AreKeys(a \o b)
<1>1. AreKeys(<<>>) /\ \A l : IsKeyLine(l) => AreKeys(<<l>>)
  BY SmallSeqs DEF AreKeys
<1>2. ASSUME NEW key, NEW value, IsSeq(value)
      PROVE  IsKeyLine(Assigned(key, value))
  <2>1. IsSeq(<<key>>) /\ Len(<<key>>) = 1 /\ Len(value) \in Nat
    BY <1>2, SmallSeqs, SeqFacts
  <2>2. IsSeq(<<key>> \o value) /\ Len(<<key>> \o value) = Len(<<key>>) + Len(value)
    BY <1>2, <2>1, ConcatFacts
  <2>3. Len(<<key>> \o value) # 0
    BY <2>1, <2>2
  <2>4. <<key>> \o value # <<>>
    BY <2>2, <2>3, SeqFacts
  <2> QED
    BY <2>2, <2>4 DEF Assigned, IsKeyLine
<1>3. ASSUME NEW a, NEW b, AreKeys(a), AreKeys(b)
      PROVE  AreKeys(a \o b)
  <2>1. /\ IsSeq(a \o b) /\ Len(a \o b) = Len(a) + Len(b)
        /\ \A i \in 1 .. Len(a) + Len(b) :
             (a \o b)[i] = IF i <= Len(a) THEN a[i] ELSE b[i - Len(a)]
    BY <1>3, ConcatFacts DEF AreKeys
  <2>2. Len(a) \in Nat /\ Len(b) \in Nat
    BY <1>3, SeqFacts DEF AreKeys
  <2>3. ASSUME NEW i \in 1 .. Len(a) + Len(b) PROVE IsKeyLine((a \o b)[i])
    BY <1>3, <2>1, <2>2, <2>3 DEF AreKeys
  <2> QED
    BY <2>1, <2>3 DEF AreKeys
<1> QED
  BY <1>1, <1>2, <1>3

\* Setting a key, or removing one, leaves lines of keys.
LEMMA EditedKeys ==
  ASSUME NEW keys, AreKeys(keys), NEW key
  PROVE  /\ AreKeys(RemoveKey(keys, key))
         /\ \A value, after : IsSeq(value) => AreKeys(SetKey(keys, key, value, after))
<1>1. \A S, new : new \in Seq(S) /\ (\A l \in S : IsKeyLine(l)) => AreKeys(new)
  <2> TAKE S, new
  <2> HAVE new \in Seq(S) /\ \A l \in S : IsKeyLine(l)
  <2>1. IsSeq(new)
    BY SeqOfAnything
  <2>2. \A i \in 1 .. Len(new) : new[i] \in S
    OBVIOUS
  <2> QED
    BY <2>1, <2>2 DEF AreKeys
<1>2. /\ keys \in Seq(Range(keys)) /\ \A l \in Range(keys) : IsKeyLine(l)
  <2>1. IsSeq(keys) /\ \A i \in 1 .. Len(keys) : IsKeyLine(keys[i])
    BY DEF AreKeys
  <2>2. DOMAIN keys = 1 .. Len(keys)
    BY <2>1, SeqFacts
  <2> QED
    BY <2>1, <2>2 DEF IsSeq, Range
<1>3. AreKeys(RemoveKey(keys, key))
  <2>1. CASE Has(keys, key)
    <3>1. RemoveKey(keys, key) \in Seq(Range(keys))
      BY <1>2, <2>1, RemovedLines
    <3> QED
      BY <1>1, <1>2, <3>1
  <2>2. CASE ~Has(keys, key)
    BY <2>2 DEF RemoveKey
  <2> QED
    BY <2>1, <2>2
<1>4. ASSUME NEW value, NEW after, IsSeq(value)
      PROVE  AreKeys(SetKey(keys, key, value, after))
  <2> DEFINE S == Range(keys) \cup {Assigned(key, value)}
  <2>1. IsKeyLine(Assigned(key, value))
    BY <1>4, SomeKeys
  <2>2. Assigned(key, value) \in S /\ \A l \in S : IsKeyLine(l)
    BY <1>2, <2>1
  <2>3. keys \in Seq(S)
    <3>1. Range(keys) \subseteq S
      OBVIOUS
    <3> HIDE DEF S
    <3> QED
      BY <1>2, <3>1
  <2> HIDE DEF S
  <2>4. SetKey(keys, key, value, after) \in Seq(S)
    BY <2>2, <2>3, SetFirst
  <2> QED
    BY <1>1, <2>2, <2>4
<1> QED
  BY <1>3, <1>4

\* The words of the lines, as a set.
LEMMA WordsOf ==
  ASSUME NEW keys, AreKeys(keys)
  PROVE  \E W : keys \in Seq(Seq(W) \ {<<>>})
<1> DEFINE n == Len(keys)
           W == UNION {Range(keys[i]) : i \in 1 .. n}
<1>1. n \in Nat /\ keys = [i \in 1 .. n |-> keys[i]]
  BY SeqFacts DEF AreKeys, IsSeq
<1>2. \A i \in 1 .. n : keys[i] \in Seq(W) \ {<<>>}
  <2> TAKE i \in 1 .. n
  <2>1. keys[i] \in Seq(Range(keys[i])) /\ keys[i] # <<>>
    BY DEF AreKeys, IsKeyLine, IsSeq
  <2>2. Range(keys[i]) \subseteq W
    OBVIOUS
  <2> HIDE DEF W
  <2> QED
    BY <2>1, <2>2
<1> HIDE DEF n, W
<1> DEFINE V == Seq(W) \ {<<>>}
<1>3. \A i \in 1 .. n : keys[i] \in V
  BY <1>2
<1> HIDE DEF V
<1>4. keys \in Seq(V)
  BY <1>1, <1>3
<1> QED
  BY <1>4 DEF V

\* Lines of a few words, and a few lines.
LEMMA FewWords ==
  /\ \A a, b : IsKeyLine(<<a, b>>)
  /\ \A a, b, c, d : IsKeyLine(<<a, b, c, d>>)
  /\ \A a, b, c, d, e : IsKeyLine(<<a, b, c, d, e>>)
  /\ \A l : IsKeyLine(l) => AreKeys(<<l>>)
  /\ \A l, m : IsKeyLine(l) /\ IsKeyLine(m) => AreKeys(<<l, m>>)
  /\ \A l, m, n : IsKeyLine(l) /\ IsKeyLine(m) /\ IsKeyLine(n) => AreKeys(<<l, m, n>>)
<1>1. \A S, a, b, c, d, e : a \in S /\ b \in S /\ c \in S /\ d \in S /\ e \in S =>
        /\ <<a, b>> \in Seq(S) \ {<<>>}
        /\ <<a, b, c>> \in Seq(S)
        /\ <<a, b, c, d>> \in Seq(S) \ {<<>>}
        /\ <<a, b, c, d, e>> \in Seq(S) \ {<<>>}
  OBVIOUS
<1>2. \A a, b, c, d, e :
        /\ IsSeq(<<a, b>>) /\ <<a, b>> # <<>>
        /\ IsSeq(<<a, b, c>>)
        /\ IsSeq(<<a, b, c, d>>) /\ <<a, b, c, d>> # <<>>
        /\ IsSeq(<<a, b, c, d, e>>) /\ <<a, b, c, d, e>> # <<>>
  <2> TAKE a, b, c, d, e
  <2> DEFINE S == {a, b, c, d, e}
  <2>1. a \in S /\ b \in S /\ c \in S /\ d \in S /\ e \in S
    OBVIOUS
  <2> HIDE DEF S
  <2> QED
    BY <1>1, <2>1, SeqOfAnything
<1>3. \A l, m, n : IsKeyLine(l) /\ IsKeyLine(m) /\ IsKeyLine(n) =>
        /\ \A i \in 1 .. Len(<<l, m>>) : IsKeyLine(<<l, m>>[i])
        /\ \A i \in 1 .. Len(<<l, m, n>>) : IsKeyLine(<<l, m, n>>[i])
  OBVIOUS
<1> QED
  BY <1>2, <1>3, SomeKeys DEF IsKeyLine, AreKeys

\* The words that are read.
LEMMA ReadWords ==
  ASSUME NEW keys, AreKeys(keys), NEW key
  PROVE  IsSeq(Value(keys, key))
<1>1. PICK W : keys \in Seq(Seq(W) \ {<<>>})
  BY WordsOf
<1>2. Value(keys, key) \in Seq(W)
  BY <1>1, ValueTyped
<1> QED
  BY <1>2, SeqOfAnything

\* A line of keys has a key and the words of its value.
LEMMA KeysTyped ==
  ASSUME NEW keys \in Seq(KeyLine)
  PROVE  AreKeys(keys)
<1>1. IsSeq(keys) /\ \A i \in 1 .. Len(keys) : keys[i] \in KeyLine
  BY SeqOfAnything
<1>2. \A l \in KeyLine : IsKeyLine(l)
  BY SeqOfAnything DEF KeyLine, IsKeyLine
<1> QED
  BY <1>1, <1>2 DEF AreKeys

\* What is read of a line below its key.
LEMMA FirstWords ==
  ASSUME NEW keys, AreKeys(keys), keys # <<>>
  PROVE  IsSeq(Tail(keys[1]))
<1>1. 1 \in 1 .. Len(keys)
  BY SeqFacts DEF AreKeys
<1>2. keys[1] \in Seq(Range(keys[1])) /\ keys[1] # <<>>
  BY <1>1 DEF AreKeys, IsKeyLine, IsSeq
<1>3. Tail(keys[1]) \in Seq(Range(keys[1]))
  BY <1>2, Rest
<1> QED
  BY <1>3, SeqOfAnything

\* Lines of keys put together from parts.
LEMMA KeyParts ==
  ASSUME NEW n \in Nat, NEW parts, parts = [i \in 1 .. n |-> parts[i]],
         \A i \in 1 .. n : AreKeys(parts[i])
  PROVE  \E S : parts \in Seq(Seq(S)) /\ \A l \in S : IsKeyLine(l)
<1> DEFINE S == UNION {Range(parts[i]) : i \in 1 .. n}
<1>1. \A i \in 1 .. n : parts[i] \in Seq(S)
  <2> TAKE i \in 1 .. n
  <2>1. parts[i] \in Seq(Range(parts[i]))
    BY DEF AreKeys, IsSeq
  <2>2. Range(parts[i]) \subseteq S
    OBVIOUS
  <2> HIDE DEF S
  <2> QED
    BY <2>1, <2>2
<1>2. \A l \in S : IsKeyLine(l)
  <2> TAKE l \in S
  <2>1. PICK i \in 1 .. n : l \in Range(parts[i])
    OBVIOUS
  <2>2. DOMAIN parts[i] = 1 .. Len(parts[i])
    BY SeqFacts DEF AreKeys
  <2> QED
    BY <2>1, <2>2 DEF AreKeys, Range
<1> HIDE DEF S
<1>3. parts \in Seq(Seq(S))
  BY <1>1
<1> QED
  BY <1>2, <1>3

\* So are the parts put together.
LEMMA FlatKeys ==
  ASSUME NEW n \in Nat, NEW parts, parts = [i \in 1 .. n |-> parts[i]],
         \A i \in 1 .. n : AreKeys(parts[i])
  PROVE  AreKeys(FlattenSeq(parts))
<1>1. PICK S : parts \in Seq(Seq(S)) /\ \A l \in S : IsKeyLine(l)
  BY KeyParts
<1>2. FlattenSeq(parts) \in Seq(S)
  BY <1>1, FlattenTyped
<1> DEFINE flat == FlattenSeq(parts)
<1> HIDE DEF flat
<1>3. flat \in Seq(S)
  BY <1>2 DEF flat
<1>4. IsSeq(flat) /\ \A i \in 1 .. Len(flat) : flat[i] \in S
  BY <1>3, SeqOfAnything
<1>5. AreKeys(flat)
  BY <1>1, <1>4 DEF AreKeys
<1> QED
  BY <1>5 DEF flat

\* The lines of some values are lines of keys.
LEMMA KeysButTyped ==
  ASSUME NEW keys, AreKeys(keys), NEW d
  PROVE  AreKeys(KeysBut(keys, d))
<1> DEFINE P == UNION {i .. ValueEnd(keys, i) :
                         i \in {j \in DOMAIN keys : keys[j][1] \notin d \cup {Continued}}}
           n == Len(keys)
           part(i) == IF i \in P THEN <<keys[i]>> ELSE <<>>
           parts == [i \in 1 .. n |-> part(i)]
<1>1. n \in Nat /\ DOMAIN keys = 1 .. n /\ \A i \in 1 .. n : IsKeyLine(keys[i])
  BY SeqFacts DEF AreKeys
<1>2. KeysBut(keys, d) = LinesAt(keys, P)
  BY DEF KeysBut
<1> HIDE DEF P, n
<1>3. \A i \in 1 .. n : AreKeys(part(i))
  BY <1>1, SomeKeys
<1>4. LinesAt(keys, P) = FlattenSeq(parts)
  BY <1>1 DEF LinesAt
<1> HIDE DEF part
<1>5. parts = [i \in 1 .. n |-> parts[i]] /\ \A i \in 1 .. n : AreKeys(parts[i])
  BY <1>3
<1> HIDE DEF parts
<1>6. AreKeys(FlattenSeq(parts))
  BY <1>1, <1>5, FlatKeys
<1> QED
  BY <1>2, <1>4, <1>6

\* A section without keys has none to keep.
LEMMA NoKeysBut ==
  ASSUME NEW d
  PROVE  KeysBut(<<>>, d) = <<>>
<1> DEFINE parts(P) == [i \in DOMAIN <<>> |-> IF i \in P THEN <<<<>>[i]>> ELSE <<>>]
<1>1. ASSUME NEW P
      PROVE  LinesAt(<<>>, P) = <<>>
  <2>1. DOMAIN <<>> = 1 .. 0 /\ \A i \in 1 .. 0 : FALSE
    OBVIOUS
  <2>2. parts(P) = [i \in 1 .. 0 |-> parts(P)[i]] /\ \A i \in 1 .. 0 : parts(P)[i] = <<>>
    BY <2>1
  <2>3. LinesAt(<<>>, P) = FlattenSeq(parts(P))
    BY DEF LinesAt
  <2> HIDE DEF parts
  <2>4. 0 \in Nat
    OBVIOUS
  <2>5. FlattenSeq(parts(P)) = <<>>
    BY <2>2, <2>4, FlattenNone
  <2> QED
    BY <2>3, <2>5
<1> QED
  BY <1>1 DEF KeysBut

\* Setting a key leaves the lines of the others.
LEMMA SetSame ==
  ASSUME NEW keys, AreKeys(keys), NEW d, NEW key \in d, key # Continued,
         NEW value, IsSeq(value), NEW after
  PROVE  KeysBut(SetKey(keys, key, value, after), d) = KeysBut(keys, d)
<1> DEFINE S == Range(keys) \cup {Assigned(key, value)}
<1>1. keys \in Seq(Range(keys))
  BY DEF AreKeys, IsSeq
<1>2. keys \in Seq(S)
  BY <1>1
<1>3. Assigned(key, value) \in S
  OBVIOUS
<1>4. Assigned(key, value)[1] = key
  <2>1. (<<key>> \o value)[1] = <<key>>[1] /\ <<key>>[1] = key
    <3>1. IsSeq(<<key>>) /\ Len(<<key>>) = 1 /\ <<key>>[1] = key
      BY SmallSeqs
    <3>2. \A i \in 1 .. Len(<<key>>) : (<<key>> \o value)[i] = <<key>>[i]
      BY <3>1, ConcatAt
    <3> QED
      BY <3>1, <3>2
  <2> QED
    BY <2>1 DEF Assigned
<1> HIDE DEF S
<1> QED
  BY <1>2, <1>3, <1>4, SetKeepsLines

\* So does removing one.
LEMMA RemoveSame ==
  ASSUME NEW keys, AreKeys(keys), NEW d, NEW key \in d, key # Continued
  PROVE  KeysBut(RemoveKey(keys, key), d) = KeysBut(keys, d)
<1>1. keys \in Seq(Range(keys))
  BY DEF AreKeys, IsSeq
<1> QED
  BY <1>1, RemoveKeepsLines

-----------------------------------------------------------------------------
(***************************************************************************)
(* Lines, texts, and how texts are put together.                           *)
(***************************************************************************)
IsLines(t) == DOMAIN t.lines = 1 .. Len(t.lines) /\ Len(t.lines) \in Nat

IsLine(l) == l = [k |-> l.k, of |-> l.of, keys |-> l.keys] /\ AreKeys(l.keys)

AreLines(ls) == IsSeq(ls) /\ \A i \in 1 .. Len(ls) : IsLine(ls[i])

IsText(t) ==
  /\ t = [lines |-> t.lines, ended |-> t.ended]
  /\ AreLines(t.lines)

\* Lines put after lines are lines.
LEMMA ConcatLines ==
  ASSUME NEW a, NEW b, AreLines(a), AreLines(b)
  PROVE  AreLines(a \o b)
<1>1. /\ IsSeq(a \o b) /\ Len(a \o b) = Len(a) + Len(b)
      /\ \A i \in 1 .. Len(a) + Len(b) :
           (a \o b)[i] = IF i <= Len(a) THEN a[i] ELSE b[i - Len(a)]
  BY ConcatFacts DEF AreLines
<1>2. Len(a) \in Nat /\ Len(b) \in Nat
  BY SeqFacts DEF AreLines
<1>3. ASSUME NEW i \in 1 .. Len(a) + Len(b) PROVE IsLine((a \o b)[i])
  BY <1>1, <1>2, <1>3 DEF AreLines
<1> QED
  BY <1>1, <1>3 DEF AreLines

\* A part of a sequence of lines is one.
LEMMA PartLines ==
  ASSUME NEW s, AreLines(s), NEW p \in Nat \ {0}, NEW q \in 0 .. Len(s), p <= q + 1
  PROVE  AreLines(SubSeq(s, p, q))
<1>1. /\ IsSeq(SubSeq(s, p, q)) /\ Len(SubSeq(s, p, q)) = q - p + 1
      /\ \A i \in 1 .. q - p + 1 : SubSeq(s, p, q)[i] = s[p + i - 1]
  BY PartFacts DEF AreLines
<1>2. Len(s) \in Nat
  BY SeqFacts DEF AreLines
<1>3. \A i \in 1 .. q - p + 1 : p + i - 1 \in 1 .. Len(s)
  BY <1>2
<1> QED
  BY <1>1, <1>3 DEF AreLines

\* Lines that are ended go before others as they are.
LEMMA JoinLines ==
  ASSUME NEW a, NEW b, IsText(a), IsText(b), a.ended = TRUE
  PROVE  IsText(Join(a, b)) /\ Join(a, b).lines = a.lines \o b.lines
<1>1. IsSeq(a.lines) /\ IsSeq(b.lines) /\ AreLines(a.lines \o b.lines)
  BY ConcatLines DEF IsText, AreLines
<1>2. CASE a.lines = <<>>
  BY <1>1, <1>2, ConcatNothing DEF Join, IsText
<1>3. CASE a.lines # <<>> /\ b.lines = <<>>
  BY <1>1, <1>3, ConcatNothing DEF Join, IsText
<1>4. CASE a.lines # <<>> /\ b.lines # <<>>
  BY <1>1, <1>4 DEF Join, IsText
<1> QED
  BY <1>2, <1>3, <1>4

\* A text of whole lines.
LEMMA WholeText ==
  ASSUME NEW ls, AreLines(ls)
  PROVE  IsText(Whole(ls)) /\ Whole(ls).lines = ls /\ Whole(ls).ended = TRUE
BY DEF IsText, Whole

\* A range of lines of a text.
IsRange(t, range) ==
  /\ range.first \in 1 .. Len(t.lines) /\ range.last \in 1 .. Len(t.lines)
  /\ range.first <= range.last

\* What is before and after a range of a text.
LEMMA AroundLines ==
  ASSUME NEW t, IsText(t), NEW range, IsRange(t, range)
  PROVE  /\ IsText(Before(t, range)) /\ Before(t, range).ended = TRUE
         /\ Before(t, range).lines = SubSeq(t.lines, 1, range.first - 1)
         /\ IsText(After(t, range))
         /\ After(t, range).lines = SubSeq(t.lines, range.last + 1, Len(t.lines))
<1>1. Len(t.lines) \in Nat /\ AreLines(t.lines)
  BY SeqFacts DEF IsText, AreLines
<1>2. /\ range.first - 1 \in 0 .. Len(t.lines) /\ 1 <= range.first - 1 + 1
      /\ range.last + 1 \in Nat \ {0} /\ Len(t.lines) \in 0 .. Len(t.lines)
      /\ range.last + 1 <= Len(t.lines) + 1 /\ range.first - 1 < Len(t.lines)
  BY <1>1 DEF IsRange
<1>3. /\ AreLines(SubSeq(t.lines, 1, range.first - 1))
      /\ AreLines(SubSeq(t.lines, range.last + 1, Len(t.lines)))
  BY <1>1, <1>2, PartLines
<1> QED
  BY <1>2, <1>3 DEF Before, After, Slice, IsText

\* A range of a text with other lines in its place.
LEMMA SpliceLines ==
  ASSUME NEW t, IsText(t), NEW range, IsRange(t, range), NEW ls, AreLines(ls)
  PROVE  LET u == Splice(t, range, Whole(ls))
         IN /\ IsText(u)
            /\ u.lines = (SubSeq(t.lines, 1, range.first - 1) \o ls)
                           \o SubSeq(t.lines, range.last + 1, Len(t.lines))
<1> DEFINE a == Before(t, range)
           b == Whole(ls)
           c == After(t, range)
<1>1. /\ IsText(a) /\ a.ended = TRUE
      /\ a.lines = SubSeq(t.lines, 1, range.first - 1)
      /\ IsText(c) /\ c.lines = SubSeq(t.lines, range.last + 1, Len(t.lines))
  BY AroundLines
<1>2. IsText(b) /\ b.lines = ls /\ b.ended = TRUE
  BY WholeText
<1>3. Splice(t, range, b) = Join(Join(a, b), c)
  BY DEF Splice
<1> HIDE DEF a, b, c
<1>4. IsText(Join(a, b)) /\ Join(a, b).lines = a.lines \o b.lines
  BY <1>1, <1>2, JoinLines
<1>5. Join(a, b).ended = TRUE
  BY <1>1, <1>2 DEF Join
<1>6. /\ IsText(Join(Join(a, b), c))
      /\ Join(Join(a, b), c).lines = Join(a, b).lines \o c.lines
  BY <1>1, <1>4, <1>5, JoinLines
<1>7. /\ IsText(Splice(t, range, b))
      /\ Splice(t, range, b).lines = (SubSeq(t.lines, 1, range.first - 1) \o ls)
                                       \o SubSeq(t.lines, range.last + 1, Len(t.lines))
  BY <1>1, <1>2, <1>3, <1>4, <1>6
<1> QED
  BY <1>7 DEF b

\* A text with a range taken out.
LEMMA WithoutLines ==
  ASSUME NEW t, IsText(t), NEW range, IsRange(t, range)
  PROVE  /\ IsText(Without(t, range))
         /\ Without(t, range).lines =
              SubSeq(t.lines, 1, range.first - 1)
                \o SubSeq(t.lines, range.last + 1, Len(t.lines))
<1> DEFINE a == Before(t, range)
           c == After(t, range)
<1>1. /\ IsText(a) /\ a.ended = TRUE
      /\ a.lines = SubSeq(t.lines, 1, range.first - 1)
      /\ IsText(c) /\ c.lines = SubSeq(t.lines, range.last + 1, Len(t.lines))
  BY AroundLines
<1>2. Without(t, range) = Join(a, c)
  BY DEF Without
<1> HIDE DEF a, c
<1>3. IsText(Join(a, c)) /\ Join(a, c).lines = a.lines \o c.lines
  BY <1>1, JoinLines
<1> QED
  BY <1>1, <1>2, <1>3

\* A text with lines put after it, and a blank line where one is needed.
LEMMA AppendLines ==
  ASSUME NEW t, IsText(t), NEW ls, AreLines(ls)
  PROVE  /\ IsText(Separated(t)) /\ IsText(AppendText(t, Whole(ls)))
         /\ Separated(t).lines \in {t.lines, t.lines \o <<Blank>>}
         /\ AppendText(t, Whole(ls)).lines = Separated(t).lines \o ls
<1> DEFINE ended == Whole(t.lines)
           blank == Whole(<<Blank>>)
           new == Whole(ls)
<1>1. IsText(ended) /\ ended.ended = TRUE /\ ended.lines = t.lines
  BY WholeText DEF IsText
<1>2. Separated(t) = IF t.lines = <<>> \/ Last(t.lines).k = "blank" THEN ended
                     ELSE Join(ended, blank)
  BY Zenon DEF Separated
<1>3. IsText(blank) /\ blank.lines = <<Blank>> /\ blank.ended = TRUE
  <2>1. IsLine(Blank)
    BY SomeKeys DEF IsLine, Blank, Marked, Section
  <2>2. AreLines(<<Blank>>)
    BY <2>1, SmallSeqs DEF AreLines
  <2> QED
    BY <2>2, WholeText
<1>4. IsText(new) /\ new.lines = ls
  BY WholeText
<1>5. AppendText(t, new) = Join(Separated(t), new)
  BY DEF AppendText
<1> HIDE DEF ended, blank, new
<1>6. IsText(Join(ended, blank)) /\ Join(ended, blank).lines = t.lines \o <<Blank>>
  <2>1. /\ IsText(Join(ended, blank))
        /\ Join(ended, blank).lines = ended.lines \o blank.lines
    BY <1>1, <1>3, JoinLines
  <2> QED
    BY <1>1, <1>3, <2>1, Zenon
<1>7. Join(ended, blank).ended = TRUE
  BY <1>1, <1>3 DEF Join
<1>8. /\ IsText(Separated(t)) /\ Separated(t).ended = TRUE
      /\ Separated(t).lines \in {t.lines, t.lines \o <<Blank>>}
  BY <1>1, <1>2, <1>6, <1>7
<1>9. /\ IsText(Join(Separated(t), new))
       /\ Join(Separated(t), new).lines = Separated(t).lines \o new.lines
  BY <1>4, <1>8, JoinLines
<1>10. IsText(AppendText(t, new)) /\ AppendText(t, new).lines = Separated(t).lines \o ls
  BY <1>4, <1>5, <1>9
<1> QED
  BY <1>8, <1>10 DEF new

\* A text is a sequence of lines.
LEMMA TextFacts ==
  ASSUME NEW t, IsText(t)
  PROVE  IsLines(t) /\ Len(t.lines) \in Nat /\ IsSeq(t.lines)
BY SeqFacts DEF IsText, AreLines, IsLines

\* The lines of a part of a text.
LEMMA SliceLine ==
  ASSUME NEW t, IsText(t), NEW i \in 1 .. Len(t.lines), NEW j \in 1 .. Len(t.lines),
         NEW l \in Range(Slice(t, i, j).lines)
  PROVE  \E y \in i .. j : l = t.lines[y]
<1> DEFINE ls == SubSeq(t.lines, i, j)
<1>1. /\ t.lines \in Seq(Range(t.lines)) /\ Len(t.lines) \in Nat
  BY TextFacts DEF IsSeq
<1>2. /\ ls \in Seq(Range(t.lines))
      /\ Len(ls) = IF i <= j THEN j - i + 1 ELSE 0
      /\ \A k \in 1 .. j - i + 1 : ls[k] = t.lines[i + k - 1]
  BY <1>1, SubSeqProperties
<1>3. PICK k \in DOMAIN ls : l = ls[k]
  BY DEF Slice, Range
<1> HIDE DEF ls
<1>4. k \in 1 .. j - i + 1
  BY <1>2, <1>3
<1>5. i + k - 1 \in i .. j
  BY <1>4
<1> QED
  BY <1>2, <1>3, <1>4, <1>5

\* The keys of a section are lines of keys.
LEMMA SectionTyped ==
  ASSUME NEW t, IsText(t), NEW kind, NEW name
  PROVE  AreKeys(SectionKeys(t, kind, name))
<1> DEFINE n == Len(t.lines)
           part(i) == IF Defines(t.lines[i], {kind}, name) THEN t.lines[i].keys ELSE <<>>
           parts == [i \in 1 .. n |-> part(i)]
<1>1. n \in Nat /\ DOMAIN t.lines = 1 .. n /\ \A i \in 1 .. n : IsLine(t.lines[i])
  BY SeqFacts DEF IsText, AreLines
<1>2. \A i \in 1 .. n : AreKeys(part(i))
  BY <1>1, SomeKeys DEF IsLine
<1>3. SectionKeys(t, kind, name) = FlattenSeq(parts)
  BY <1>1 DEF SectionKeys
<1> HIDE DEF n, part
<1>4. parts = [i \in 1 .. n |-> parts[i]] /\ \A i \in 1 .. n : AreKeys(parts[i])
  BY <1>2
<1> HIDE DEF parts
<1>5. AreKeys(FlattenSeq(parts))
  BY <1>1, <1>4, FlatKeys
<1> QED
  BY <1>3, <1>5

\* The lines of two sections have the same keys but some.
KeysSame(a, b, d) ==
  \A i \in 1 .. Len(a) : KeysBut(b[i].keys, d) = KeysBut(a[i].keys, d)

\* A line with other keys.
LEMMA SameOfOne ==
  ASSUME NEW a, AreLines(a), NEW at, NEW keys, NEW d,
         at \in 1 .. Len(a) => KeysBut(keys, d) = KeysBut(a[at].keys, d)
  PROVE  KeysSame(a, [a EXCEPT ![at] = WithKeys(a[at], keys)], d)
<1> DEFINE b == [a EXCEPT ![at] = WithKeys(a[at], keys)]
<1>1. DOMAIN a = 1 .. Len(a)
  BY SeqFacts DEF AreLines
<1>2. ASSUME NEW i \in 1 .. Len(a)
      PROVE  KeysBut(b[i].keys, d) = KeysBut(a[i].keys, d)
  <2>1. CASE i = at
    <3>1. b[i] = WithKeys(a[at], keys)
      BY <1>1, <2>1
    <3>2. b[i].keys = keys
      BY <3>1 DEF WithKeys, Section
    <3> QED
      BY <2>1, <3>2
  <2>2. CASE i # at
    BY <1>1, <2>2
  <2> QED
    BY <2>1, <2>2
<1> QED
  BY <1>2 DEF KeysSame

\* Two edits that keep the same keys.
LEMMA SameTwice ==
  ASSUME NEW a, NEW b, NEW c, NEW d, Len(b) = Len(a), KeysSame(a, b, d), KeysSame(b, c, d)
  PROVE  KeysSame(a, c, d)
BY DEF KeysSame

-----------------------------------------------------------------------------
(***************************************************************************)
(* The keys of [default] in a text.                                        *)
(***************************************************************************)
OwnLine(line, d) == IF line.k = "default" THEN KeysBut(line.keys, d) ELSE <<>>

\* The keys of [default], but some.
DefaultKeys(t, d) == FlattenSeq([i \in DOMAIN t.lines |-> OwnLine(t.lines[i], d)])

\* The keys of each line, as parts of a sequence.
LEMMA OwnParts ==
  ASSUME NEW t, IsText(t), NEW d
  PROVE  LET parts == [i \in DOMAIN t.lines |-> OwnLine(t.lines[i], d)]
         IN /\ \E S : parts \in Seq(Seq(S))
            /\ Len(parts) = Len(t.lines)
            /\ parts = [i \in 1 .. Len(t.lines) |-> parts[i]]
            /\ \A i \in 1 .. Len(t.lines) : parts[i] = OwnLine(t.lines[i], d)
<1> DEFINE n == Len(t.lines)
           parts == [i \in DOMAIN t.lines |-> OwnLine(t.lines[i], d)]
<1>1. n \in Nat /\ DOMAIN t.lines = 1 .. n /\ \A i \in 1 .. n : IsLine(t.lines[i])
  BY SeqFacts DEF IsText, AreLines
<1>2. \A i \in 1 .. n : AreKeys(OwnLine(t.lines[i], d))
  BY <1>1, SomeKeys, KeysButTyped DEF IsLine, OwnLine
<1>3. parts = [i \in 1 .. n |-> parts[i]] /\ \A i \in 1 .. n : parts[i] = OwnLine(t.lines[i], d)
  BY <1>1
<1> HIDE DEF parts, n
<1>4. PICK S : parts \in Seq(Seq(S)) /\ \A l \in S : IsKeyLine(l)
  BY <1>1, <1>2, <1>3, KeyParts
<1>5. Len(parts) = n
  <2>1. DOMAIN parts = 1 .. n
    BY <1>3
  <2>2. Len(parts) \in Nat /\ DOMAIN parts = 1 .. Len(parts)
    BY <1>4
  <2> QED
    BY <1>1, <2>1, <2>2
<1> QED
  BY <1>3, <1>4, <1>5 DEF parts, n

\* [default] is one line, or there is none.
LEMMA OwnOfOne ==
  ASSUME NEW t, IsText(t), NEW d, NEW j \in 1 .. Len(t.lines), t.lines[j].k = "default",
         \A i \in 1 .. Len(t.lines) : i # j => t.lines[i].k # "default"
  PROVE  DefaultKeys(t, d) = KeysBut(t.lines[j].keys, d)
<1> DEFINE parts == [i \in DOMAIN t.lines |-> OwnLine(t.lines[i], d)]
<1>1. /\ \E S : parts \in Seq(Seq(S))
      /\ Len(parts) = Len(t.lines)
      /\ \A i \in 1 .. Len(t.lines) : parts[i] = OwnLine(t.lines[i], d)
  BY OwnParts
<1>2. DefaultKeys(t, d) = FlattenSeq(parts)
  BY DEF DefaultKeys
<1> HIDE DEF parts
<1>3. /\ \A i \in 1 .. Len(parts) : i # j => parts[i] = <<>>
      /\ parts[j] = KeysBut(t.lines[j].keys, d) /\ j \in 1 .. Len(parts)
  BY <1>1 DEF OwnLine
<1>4. PICK S : parts \in Seq(Seq(S))
  BY <1>1
<1>5. FlattenSeq(parts) = parts[j]
  BY <1>3, <1>4, FlattenOne
<1> QED
  BY <1>2, <1>3, <1>5

\* A text without [default] has none.
LEMMA OwnOfNone ==
  ASSUME NEW t, IsText(t), NEW d, \A i \in 1 .. Len(t.lines) : t.lines[i].k # "default"
  PROVE  DefaultKeys(t, d) = <<>>
<1> DEFINE parts == [i \in DOMAIN t.lines |-> OwnLine(t.lines[i], d)]
           n == Len(t.lines)
<1>1. /\ parts = [i \in 1 .. n |-> parts[i]]
      /\ \A i \in 1 .. n : parts[i] = OwnLine(t.lines[i], d)
  BY OwnParts
<1>2. DefaultKeys(t, d) = FlattenSeq(parts)
  BY DEF DefaultKeys
<1>3. n \in Nat
  BY TextFacts
<1> HIDE DEF parts
<1>4. \A i \in 1 .. n : parts[i] = <<>>
  BY <1>1 DEF OwnLine
<1> HIDE DEF n
<1>5. FlattenSeq(parts) = <<>>
  BY <1>1, <1>3, <1>4, FlattenNone
<1> QED
  BY <1>2, <1>5

\* Lines alike with the same keys but some.
LEMMA OwnAlike ==
  ASSUME NEW t, NEW u, IsText(t), IsText(u), NEW d, Len(u.lines) = Len(t.lines),
         \A i \in 1 .. Len(t.lines) : OwnLine(u.lines[i], d) = OwnLine(t.lines[i], d)
  PROVE  DefaultKeys(u, d) = DefaultKeys(t, d)
<1>1. DOMAIN t.lines = 1 .. Len(t.lines) /\ DOMAIN u.lines = 1 .. Len(t.lines)
  BY TextFacts DEF IsLines
<1>2. [i \in DOMAIN t.lines |-> OwnLine(t.lines[i], d)]
        = [i \in DOMAIN u.lines |-> OwnLine(u.lines[i], d)]
  BY <1>1
<1> QED
  BY <1>2 DEF DefaultKeys

=============================================================================
