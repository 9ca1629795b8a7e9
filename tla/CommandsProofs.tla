--------------------------- MODULE CommandsProofs ---------------------------
(***************************************************************************)
(* Proofs about Commands: what alias_resolve makes of a command line, what *)
(* the commands may do to the configuration, and what a restart restores   *)
(* of it.                                                                  *)
(*                                                                         *)
(* The lines of the file are taken one by one: each, read by any           *)
(* configuration between the one that was saved and the one without a      *)
(* file, sets the entry it was written for and nothing else.               *)
(***************************************************************************)
EXTENDS Commands, ListLemmas, FiniteSetTheorems

-----------------------------------------------------------------------------
(***************************************************************************)
(* Configurations                                                          *)
(***************************************************************************)

\* The keys that a binding can be for.
Keys == NamedKeys \cup {Codes[w] : w \in DOMAIN Codes} \cup {"RETURN", "0x7f", "BACKSPACE"}

\* Tables of lines, by names in K.
Tables(K) == {f \in UNION {[D -> CommandLines] : D \in SUBSET K} : IsFiniteSet(DOMAIN f)}

\* A blank is kept as a blank and not as its code; numbers have one digit.
Opts == [AUTO_RECONNECT : BOOLEAN, CMDCHARS : Characters, PROMPT : Seq(Words),
         SCROLLBUF_LEN : 0 .. 9]

Configs == [opts : Opts, alias : Tables(Words), main : Tables(Keys), blist : Tables(Keys)]

-----------------------------------------------------------------------------
(***************************************************************************)
(* Lines and tables                                                        *)
(***************************************************************************)

\* The first word of a line, and the others.
LEMMA LineParts ==
    ASSUME NEW words \in CommandLines
    PROVE  /\ words \in Seq(Words) /\ words # << >> /\ Len(words) \in Nat /\ Len(words) > 0
           /\ Head(words) \in Words /\ Head(words) = words[1]
           /\ Tail(words) \in Seq(Words) /\ Len(Tail(words)) = Len(words) - 1
<1>1. words \in Seq(Words) /\ words # << >>
  BY DEF CommandLines
<1>2. Len(words) \in Nat /\ Len(words) > 0
  BY <1>1, EmptySeq
<1>3. Head(words) \in Words /\ Tail(words) \in Seq(Words) /\ Len(Tail(words)) = Len(words) - 1
  BY <1>1, HeadTailProperties
<1>4. Head(words) = words[1]
  BY <1>1
<1>. QED  BY <1>1, <1>2, <1>3, <1>4

\* A line put together from them.
LEMMA LineOf ==
    ASSUME NEW w \in Words, NEW t \in Seq(Words)
    PROVE  /\ <<w>> \o t \in CommandLines /\ Head(<<w>> \o t) = w /\ Tail(<<w>> \o t) = t
           /\ Len(<<w>> \o t) = Len(t) + 1
<1>1. <<w>> \in Seq(Words) /\ Len(<<w>>) = 1
  OBVIOUS
<1>2. /\ <<w>> \o t \in Seq(Words) /\ Len(<<w>> \o t) = Len(t) + 1
      /\ \A i \in 1 .. 1 + Len(t) : (<<w>> \o t)[i] = IF i <= 1 THEN <<w>>[i] ELSE t[i - 1]
  BY <1>1, ConcatProperties
<1> DEFINE s == <<w>> \o t
<1>3. s \in Seq(Words) /\ Len(s) = Len(t) + 1 /\ Len(t) \in Nat
      /\ s[1] = w /\ \A i \in 1 .. Len(t) : s[i + 1] = t[i]
  <2>1. Len(t) \in Nat /\ 1 \in 1 .. 1 + Len(t)
    OBVIOUS
  <2>2. s[1] = w
    BY <1>2, <2>1
  <2>3. ASSUME NEW i \in 1 .. Len(t) PROVE s[i + 1] = t[i]
    <3>1. i + 1 \in 1 .. 1 + Len(t) /\ ~(i + 1 <= 1) /\ i + 1 - 1 = i
      BY <2>1
    <3>2. s[i + 1] = IF i + 1 <= 1 THEN <<w>>[i + 1] ELSE t[i + 1 - 1]
      BY <1>2, <3>1
    <3>. QED  BY <3>1, <3>2
  <2>. QED  BY <1>2, <2>1, <2>2, <2>3
<1>. HIDE DEF s
<1>4. s # << >>
  BY <1>3
<1>5. Head(s) = w
  <2>1. s \in Seq(Words) /\ s # << >> /\ s[1] = w
    BY <1>3, <1>4
  <2>2. Head(s) = s[1]
    BY <2>1
  <2>. QED  BY <2>1, <2>2
<1>6. Tail(s) = t
  <2>1. Tail(s) \in Seq(Words) /\ Len(Tail(s)) = Len(t)
    BY <1>3, <1>4, HeadTailProperties
  <2>2. \A i \in 1 .. Len(t) : Tail(s)[i] = t[i]
    BY <1>3
  <2>. QED  BY <2>1, <2>2, SeqEqual
<1>. QED  BY <1>3, <1>4, <1>5, <1>6 DEF s, CommandLines

\* A line is its first word and the others.
LEMMA LineWhole ==
    ASSUME NEW words \in CommandLines
    PROVE  words = <<Head(words)>> \o Tail(words)
<1> DEFINE s == <<Head(words)>> \o Tail(words)
<1>1. s \in Seq(Words) /\ Len(s) = Len(words) /\ Head(s) = Head(words) /\ Tail(s) = Tail(words)
  BY LineParts, LineOf DEF CommandLines
<1>2. words \in Seq(Words) /\ words # << >> /\ Len(words) > 0
  BY LineParts
<1>. HIDE DEF s
<1>3. \A i \in 1 .. Len(words) : s[i] = words[i]
  <2>1. s[1] = words[1]
    BY <1>1, <1>2
  <2>2. ASSUME NEW i \in 1 .. Len(words), i # 1 PROVE s[i] = words[i]
    <3>1. i - 1 \in 1 .. Len(words) - 1
      BY <1>2, <2>2
    <3>2. Tail(s)[i - 1] = s[i] /\ Tail(words)[i - 1] = words[i]
      BY <1>1, <1>2, <3>1
    <3>. QED  BY <1>1, <3>2
  <2>. QED  BY <2>1, <2>2
<1>4. s = words
  BY <1>1, <1>2, <1>3, SeqEqual
<1>. QED  BY <1>4 DEF s

\* The characters of an option are words that stand for themselves.
LEMMA CharactersAre ==
    /\ Characters \subseteq Words \ {"", "0x20"} /\ " " \in Characters /\ "/" \in Characters
    /\ \A c \in Characters : Char(c) = c
    /\ \A w \in Words \ {""} : FirstLetter(w) \in Characters /\ Char(w) \in Characters
<1>1. \A w \in Words \ {""} : /\ Char(w) \in Words \ {"", "0x20"} /\ Char(Char(w)) = Char(w)
                             /\ FirstLetter(w) \in Words \ {""} /\ Char(FirstLetter(w)) = FirstLetter(w)
  BY LettersAssumption
<1>2. " " \in Words \ {""} /\ "/" \in Words \ {""} /\ Char("/") = "/" /\ Char(" ") = " "
  BY WordsAssumption, LettersAssumption DEF OwnWords
<1>3. \A w \in Words \ {""} : Char(w) \in Characters
  BY DEF Characters
<1>4. \A w \in Words \ {""} : FirstLetter(w) \in Characters
  BY <1>1, <1>3
<1>5. \A c \in Characters : \E w \in Words \ {""} : c = Char(w)
  BY DEF Characters
<1>6. Characters \subseteq Words \ {"", "0x20"} /\ \A c \in Characters : Char(c) = c
  BY <1>1, <1>5
<1>. QED  BY <1>2, <1>3, <1>4, <1>6

\* What is left of a line that loses a leading command character is a line.
LEMMA WithoutLine ==
    ASSUME NEW words \in CommandLines, NEW ch \in Characters
    PROVE  WithoutCmdchar(words, ch) \in CommandLines /\ Bound(words, ch) \in CommandLines
<1>1. words \in Seq(Words) /\ Head(words) \in Words /\ Tail(words) \in Seq(Words)
  BY LineParts
<1>2. Rest(Head(words)) \in Words /\ ch # ""
  BY <1>1, LettersAssumption, CharactersAre
<1>3. <<Rest(Head(words))>> \o Tail(words) \in CommandLines
  BY <1>1, <1>2, LineOf
<1>4. Tail(words) # << >> => Tail(words) \in CommandLines
  BY <1>1 DEF CommandLines
<1>5. WithoutCmdchar(words, ch) \in CommandLines
  BY <1>2, <1>3, <1>4 DEF WithoutCmdchar, WithoutFirst, First
<1>. QED  BY <1>5 DEF Bound

\* What is run for a key is a line.
LEMMA BaredLine ==
    ASSUME NEW words \in CommandLines, NEW ch \in Characters
    PROVE  Bared(words, ch) \in CommandLines
<1> DEFINE line == IF Head(words) = "" /\ Tail(words) # << >> THEN Tail(words) ELSE words
<1>1. line \in CommandLines
  BY LineParts DEF CommandLines
<1>. HIDE DEF line
<1>2. Bare(Head(line), ch) \in Words /\ Tail(line) \in Seq(Words)
  BY <1>1, LineParts, LettersAssumption
<1>. QED  BY <1>2, LineOf DEF Bared, line

\* What a table is.
LEMMA TableParts ==
    ASSUME NEW K, NEW f \in Tables(K)
    PROVE  /\ f \in [DOMAIN f -> CommandLines] /\ DOMAIN f \subseteq K /\ IsFiniteSet(DOMAIN f)
           /\ \A x \in DOMAIN f : f[x] \in CommandLines
  BY DEF Tables

\* What makes a table.
LEMMA TableOf ==
    ASSUME NEW K, NEW D, D \subseteq K, NEW f \in [D -> CommandLines], IsFiniteSet(D)
    PROVE  f \in Tables(K)
  BY DEF Tables

\* An entry is set.
LEMMA WithTable ==
    ASSUME NEW K, NEW f \in Tables(K), NEW x \in K, NEW v \in CommandLines
    PROVE  /\ With(f, x, v) \in Tables(K) /\ DOMAIN With(f, x, v) = DOMAIN f \cup {x}
           /\ With(f, x, v)[x] = v /\ \A y \in DOMAIN f : y # x => With(f, x, v)[y] = f[y]
<1>1. /\ \A y \in DOMAIN f : f[y] \in CommandLines
      /\ DOMAIN f \cup {x} \subseteq K /\ IsFiniteSet(DOMAIN f \cup {x})
  BY TableParts, FS_AddElement
<1>2. With(f, x, v) \in [DOMAIN f \cup {x} -> CommandLines]
  BY <1>1 DEF With
<1>3. With(f, x, v) \in Tables(K)
  BY <1>1, <1>2, TableOf
<1>. QED  BY <1>3 DEF With

\* An entry is taken out.
LEMMA WithoutTable ==
    ASSUME NEW K, NEW f \in Tables(K), NEW x
    PROVE  Without(f, x) \in Tables(K)
<1>1. /\ \A y \in DOMAIN f : f[y] \in CommandLines
      /\ DOMAIN f \ {x} \subseteq K /\ IsFiniteSet(DOMAIN f \ {x})
  BY TableParts, FS_RemoveElement
<1>2. Without(f, x) \in [DOMAIN f \ {x} -> CommandLines]
  BY <1>1 DEF Without
<1>. QED  BY <1>1, <1>2, TableOf

-----------------------------------------------------------------------------
(***************************************************************************)
(* Aliases                                                                 *)
(***************************************************************************)

\* A turn of alias_resolve makes a line of a line.
LEMMA ReplacedLine ==
    ASSUME NEW alias \in Tables(Words), NEW words \in CommandLines
    PROVE  /\ Replaced(alias, words) \in CommandLines
           /\ Head(words) \in DOMAIN alias =>
                 /\ Replaced(alias, words) = alias[Head(words)] \o Tail(words)
                 /\ Head(Replaced(alias, words)) = Head(alias[Head(words)])
<1>1. CASE Head(words) \notin DOMAIN alias
  BY <1>1 DEF Replaced
<1>2. CASE Head(words) \in DOMAIN alias
  <2> DEFINE a == alias[Head(words)]
  <2>1. a \in CommandLines
    BY <1>2, TableParts
  <2>. HIDE DEF a
  <2>2. Head(a) \in Words /\ Tail(a) \in Seq(Words) /\ Tail(words) \in Seq(Words) /\ <<Head(a)>> \in Seq(Words)
    BY <2>1, LineParts
  <2>3. Tail(a) \o Tail(words) \in Seq(Words)
    BY <2>2, ConcatProperties
  <2>4. Replaced(alias, words) = <<Head(a)>> \o (Tail(a) \o Tail(words))
    BY <1>2 DEF Replaced, a
  <2>5. Replaced(alias, words) \in CommandLines /\ Head(Replaced(alias, words)) = Head(a)
    BY <2>2, <2>3, <2>4, LineOf
  <2>6. (<<Head(a)>> \o Tail(a)) \o Tail(words) = <<Head(a)>> \o (Tail(a) \o Tail(words))
    BY <2>2, ConcatAssociative
  <2>7. a = <<Head(a)>> \o Tail(a)
    BY <2>1, LineWhole
  <2>8. Replaced(alias, words) = a \o Tail(words)
    BY <2>4, <2>6, <2>7
  <2>. QED  BY <2>5, <2>8 DEF a
<1>. QED  BY <1>1, <1>2

\* The turns, one after the other.
LEMMA ReplacingTurns ==
    ASSUME NEW alias \in Tables(Words), NEW words \in CommandLines, NEW n \in Nat
    PROVE  LET g == Replacing(alias, words, n) IN
           /\ g[0] = words
           /\ \A k \in 1 .. n : g[k] = Replaced(alias, g[k - 1])
           /\ \A k \in 0 .. n : g[k] \in CommandLines
<1> DEFINE X == CommandLines
           G(x) == Replaced(alias, x)
           Turns(f) == f = [k \in 0 .. n |-> IF k = 0 THEN words ELSE G(f[k - 1])]
           g == [k \in 1 .. n |-> [x \in X |-> G(x)]]
           h == Replacing(alias, words, n)
<1>1. h = CHOOSE f : Turns(f)
  BY DEF Replacing
<1>. HIDE DEF h
<1>2. \A x \in X : G(x) \in X
  BY ReplacedLine
<1>. HIDE DEF G, X
<1>3. PICK s : s \in [0 .. n -> X] /\ IsLoop(s, words, g, n)
  <2>1. TurnsIn(X, g, n)
    BY <1>2 DEF TurnsIn
  <2>2. words \in X
    BY DEF X
  <2>. HIDE DEF g
  <2>. QED  BY <2>1, <2>2, LoopExists
<1>4. s[0] = words /\ \A k \in 1 .. n : s[k] = G(s[k - 1]) /\ s[k] \in X
  <2>1. ASSUME NEW k \in 1 .. n PROVE s[k] = G(s[k - 1]) /\ s[k] \in X
    <3>1. s[k] = g[k][s[k - 1]] /\ s[k - 1] \in X /\ s[k] \in X
      <4>. HIDE DEF g
      <4>. QED  BY <1>3 DEF IsLoop
    <3>. QED  BY <3>1
  <2>. QED  BY <1>3, <2>1 DEF IsLoop
<1>5. Turns(s)
  <2>1. s = [k \in 0 .. n |-> s[k]]
    BY <1>3
  <2>2. \A k \in 0 .. n : s[k] = IF k = 0 THEN words ELSE G(s[k - 1])
    BY <1>4
  <2>. QED  BY <2>1, <2>2
<1>6. Turns(h)
  <2>. HIDE DEF Turns
  <2>. QED  BY <1>1, <1>5
<1>7. \A k \in 0 .. n : h[k] = IF k = 0 THEN words ELSE G(h[k - 1])
  <2> DEFINE ff == [k \in 0 .. n |-> IF k = 0 THEN words ELSE G(h[k - 1])]
  <2>1. h = ff
    BY <1>6
  <2>2. \A k \in 0 .. n : ff[k] = IF k = 0 THEN words ELSE G(h[k - 1])
    OBVIOUS
  <2>. HIDE DEF ff
  <2>. QED  BY <2>1, <2>2
<1>8. h[0] = words /\ \A k \in 1 .. n : h[k] = G(h[k - 1])
  BY <1>7
<1>9. \A k \in 0 .. n : h[k] \in X
  <2> DEFINE T == {k \in 0 .. n : h[k] \in X}
  <2>1. 0 \in T
    BY <1>8 DEF X
  <2>2. ASSUME NEW k \in 1 .. n, k - 1 \in T PROVE k \in T
    BY <1>2, <1>8, <2>2
  <2>. HIDE DEF T
  <2>3. \A k \in 0 .. n : k \in T
    BY <2>1, <2>2, UpToInduction
  <2>. QED  BY <2>3 DEF T
<1>. QED  BY <1>8, <1>9, Zenon DEF h, G, X

\* What alias_resolve returns is a line; it is the one that was given if its
\* first word is no alias.
LEMMA ResolveLine ==
    ASSUME NEW alias \in Tables(Words), NEW words \in CommandLines
    PROVE  /\ Resolve(alias, words).words \in CommandLines
           /\ Resolve(alias, words).fits \in BOOLEAN
           /\ Head(words) \notin DOMAIN alias =>
                 Resolve(alias, words) = [fits |-> TRUE, words |-> words]
<1> DEFINE n == MaxResolve - 1
           end == Replacing(alias, words, n)[n]
<1>1. n \in Nat /\ n \in 0 .. n
  BY CommandsAssumption
<1>. HIDE DEF n
<1>2. end \in CommandLines
  BY <1>1, ReplacingTurns
<1>3. Resolve(alias, words) = IF Head(words) \notin DOMAIN alias THEN [fits |-> TRUE, words |-> words]
        ELSE [fits |-> Head(end) \notin DOMAIN alias /\ Len(end) <= Room, words |-> end]
  BY DEF Resolve, n
<1> DEFINE fits == Head(end) \notin DOMAIN alias /\ Len(end) <= Room
<1>4. fits \in BOOLEAN
  OBVIOUS
<1>. HIDE DEF end, fits
<1>5. CASE Head(words) \notin DOMAIN alias
  <2>1. Resolve(alias, words) = [fits |-> TRUE, words |-> words]
    BY <1>3, <1>5
  <2>. QED  BY <1>5, <2>1
<1>6. CASE Head(words) \in DOMAIN alias
  <2>1. Resolve(alias, words) = [fits |-> fits, words |-> end]
    BY <1>3, <1>6 DEF fits
  <2>. QED  BY <1>2, <1>4, <1>6, <2>1
<1>. QED  BY <1>5, <1>6

\* Once the first word is no alias the line stays.
LEMMA ReplacingEnds ==
    ASSUME NEW alias \in Tables(Words), NEW words \in CommandLines, NEW n \in Nat,
           NEW j \in 0 .. n, Head(Replacing(alias, words, n)[j]) \notin DOMAIN alias,
           NEW m \in j .. n
    PROVE  Replacing(alias, words, n)[m] = Replacing(alias, words, n)[j]
<1> DEFINE g == Replacing(alias, words, n)
           T == {i \in 0 .. n - j : g[j + i] = g[j]}
<1>1. \A k \in 1 .. n : g[k] = Replaced(alias, g[k - 1])
  BY ReplacingTurns
<1>. HIDE DEF g
<1>2. 0 \in T
  OBVIOUS
<1>3. ASSUME NEW i \in 1 .. n - j, i - 1 \in T PROVE i \in T
  <2>1. j + i \in 1 .. n /\ j + i - 1 = j + (i - 1) /\ i \in 0 .. n - j
    OBVIOUS
  <2>2. g[j + i] = Replaced(alias, g[j + i - 1])
    BY <1>1, <2>1
  <2>3. g[j + i] = Replaced(alias, g[j])
    BY <1>3, <2>1, <2>2
  <2>4. Replaced(alias, g[j]) = g[j]
    BY DEF Replaced, g
  <2>. QED  BY <2>1, <2>3, <2>4
<1>4. \A i \in 0 .. n - j : i \in T
  <2>1. n - j \in Nat
    OBVIOUS
  <2>. HIDE DEF T
  <2>. QED  BY <1>2, <1>3, <2>1, UpToInduction
<1>5. m - j \in 0 .. n - j /\ j + (m - j) = m
  OBVIOUS
<1>6. g[j + (m - j)] = g[j]
  BY <1>4, <1>5
<1>. QED  BY <1>5, <1>6 DEF g

\* A chain that is still one after as many turns as there are aliases never
\* ends: an alias has come back, and with it all that follow.
LEMMA ChainOrLoop ==
    ASSUME NEW alias \in Tables(Words), NEW words \in CommandLines, NEW n \in Nat,
           Cardinality(DOMAIN alias) <= n,
           \A k \in 0 .. Cardinality(DOMAIN alias) :
              Head(Replacing(alias, words, n)[k]) \in DOMAIN alias,
           NEW m \in 0 .. n
    PROVE  Head(Replacing(alias, words, n)[m]) \in DOMAIN alias
<1> DEFINE c == Cardinality(DOMAIN alias)
           D == DOMAIN alias
           g == Replacing(alias, words, n)
           f == [k \in 0 .. c |-> Head(g[k])]
<1>1. IsFiniteSet(D) /\ c \in Nat
  BY TableParts, FS_CardinalityType
<1>2. /\ \A k \in 1 .. n : g[k] = Replaced(alias, g[k - 1])
      /\ \A k \in 0 .. n : g[k] \in CommandLines
  BY ReplacingTurns
<1>3. \A k \in 0 .. c : Head(g[k]) \in D
  OBVIOUS
<1>. HIDE DEF g, c, D
<1>4. PICK x, y \in 0 .. c : x # y /\ f[x] = f[y]
  <2>1. IsFiniteSet(0 .. c) /\ Cardinality(0 .. c) = c + 1
    BY <1>1, FS_Interval
  <2>2. f \in [0 .. c -> D]
    BY <1>3
  <2>3. Cardinality(D) < Cardinality(0 .. c)
    BY <1>1, <2>1 DEF c, D
  <2>. HIDE DEF f
  <2>. QED  BY <1>1, <2>1, <2>2, <2>3, FS_PigeonHole
<1>5. PICK i, j \in 0 .. c : i < j /\ Head(g[i]) = Head(g[j])
  <2>1. Head(g[x]) = Head(g[y])
    BY <1>4
  <2>2. CASE x < y
    BY <2>1, <2>2
  <2>3. CASE y < x
    BY <2>1, <2>3
  <2>. QED  BY <1>1, <1>4, <2>2, <2>3
<1> DEFINE T == {k \in 0 .. n : \E l \in 0 .. j - 1 : Head(g[k]) = Head(g[l])}
<1>6. c <= n /\ j \in 1 .. c
  BY <1>1, <1>5 DEF c
<1>7. 0 \in T
  <2>1. 0 \in 0 .. n /\ 0 \in 0 .. j - 1
    BY <1>1, <1>6
  <2>. QED  BY <2>1
<1>8. ASSUME NEW k \in 1 .. n, k - 1 \in T PROVE k \in T
  <2>1. PICK l \in 0 .. j - 1 : Head(g[k - 1]) = Head(g[l])
    BY <1>8
  <2>2. l \in 0 .. c /\ l + 1 \in 1 .. n /\ l + 1 - 1 = l /\ l \in 0 .. n /\ k - 1 \in 0 .. n /\ k \in 0 .. n
    BY <1>1, <1>6
  <2>3. Head(g[l]) \in D /\ Head(g[k - 1]) \in D
    BY <1>3, <2>1, <2>2
  <2>4. Head(g[k]) = Head(alias[Head(g[k - 1])])
    <3>1. g[k] = Replaced(alias, g[k - 1]) /\ g[k - 1] \in CommandLines
      BY <1>2, <2>2
    <3> DEFINE z == g[k - 1]
    <3>2. z \in CommandLines /\ Head(z) \in DOMAIN alias
      BY <2>3, <3>1 DEF D
    <3>. HIDE DEF z
    <3>3. Head(Replaced(alias, z)) = Head(alias[Head(z)])
      BY <3>2, ReplacedLine
    <3>. QED  BY <3>1, <3>3 DEF z
  <2>5. Head(g[l + 1]) = Head(alias[Head(g[l])])
    <3>1. g[l + 1] = Replaced(alias, g[l + 1 - 1]) /\ g[l] \in CommandLines
      BY <1>2, <2>2
    <3>2. g[l + 1] = Replaced(alias, g[l])
      BY <2>2, <3>1
    <3> DEFINE z == g[l]
    <3>3. z \in CommandLines /\ Head(z) \in DOMAIN alias
      BY <2>3, <3>1 DEF D
    <3>. HIDE DEF z
    <3>4. Head(Replaced(alias, z)) = Head(alias[Head(z)])
      BY <3>3, ReplacedLine
    <3>. QED  BY <3>2, <3>4 DEF z
  <2>6. Head(g[k]) = Head(g[l + 1])
    BY <2>1, <2>4, <2>5
  <2>7. CASE l + 1 <= j - 1
    <3>1. l + 1 \in 0 .. j - 1
      BY <2>7
    <3>. QED  BY <2>2, <2>6, <3>1
  <2>8. CASE l + 1 = j
    <3>1. i \in 0 .. j - 1 /\ Head(g[k]) = Head(g[i])
      BY <1>5, <2>6, <2>8
    <3>. QED  BY <2>2, <3>1
  <2>. QED  BY <1>6, <2>7, <2>8
<1>9. m \in T
  <2>. HIDE DEF T
  <2>. QED  BY <1>7, <1>8, UpToInduction
<1>10. PICK l \in 0 .. j - 1 : Head(g[m]) = Head(g[l])
  BY <1>9
<1>11. l \in 0 .. c
  BY <1>1, <1>6
<1>. QED  BY <1>3, <1>10, <1>11 DEF g, D

\* What an alias stands for, as it is said in AliasesResolve, is what the turns
\* of alias_resolve make of it.
LEMMA RewritingTurns ==
    ASSUME config.alias \in Tables(Words), NEW words \in CommandLines, NEW n \in Nat,
           Cardinality(DOMAIN config.alias) <= n
    PROVE  Rewritten(words) = Replacing(config.alias, words, n)[Cardinality(DOMAIN config.alias)]
<1> DEFINE A == config.alias
           c == Cardinality(DOMAIN A)
           g == Replacing(A, words, n)
           G(x) == IF Head(x) \in DOMAIN A THEN A[Head(x)] \o Tail(x) ELSE x
           Turns(f) == f = [k \in 0 .. c |-> IF k = 0 THEN words ELSE G(f[k - 1])]
           h == Rewriting(words)
           s == [k \in 0 .. c |-> g[k]]
<1>1. c \in Nat /\ c <= n
  BY TableParts, FS_CardinalityType
<1>2. h = CHOOSE f : Turns(f)
  BY DEF Rewriting
<1>3. Rewritten(words) = h[c]
  BY DEF Rewritten
<1>. HIDE DEF h
<1>4. /\ g[0] = words
      /\ \A k \in 1 .. n : g[k] = Replaced(A, g[k - 1])
      /\ \A k \in 0 .. n : g[k] \in CommandLines
  BY ReplacingTurns
<1>5. \A x \in CommandLines : G(x) = Replaced(A, x)
  <2>1. ASSUME NEW x \in CommandLines PROVE G(x) = Replaced(A, x)
    <3>1. CASE Head(x) \in DOMAIN A
      BY <3>1, ReplacedLine
    <3>2. CASE Head(x) \notin DOMAIN A
      BY <3>2 DEF Replaced
    <3>. QED  BY <3>1, <3>2
  <2>. QED  BY <2>1
<1>. HIDE DEF G, c, g
<1>6. \A k \in 1 .. c : k \in 0 .. c /\ k - 1 \in 0 .. c /\ k \in 1 .. n /\ k - 1 \in 0 .. n
  BY <1>1
<1>7. Turns(s)
  <2>1. \A k \in 1 .. c : s[k] = G(s[k - 1])
    <3>1. ASSUME NEW k \in 1 .. c PROVE s[k] = G(s[k - 1])
      <4>1. s[k] = g[k] /\ s[k - 1] = g[k - 1]
        BY <1>6
      <4>2. g[k] = Replaced(A, g[k - 1]) /\ g[k - 1] \in CommandLines
        BY <1>4, <1>6
      <4>. QED  BY <1>5, <4>1, <4>2
    <3>. QED  BY <3>1
  <2>2. s[0] = words
    BY <1>1, <1>4
  <2>3. s = [k \in 0 .. c |-> s[k]]
    OBVIOUS
  <2>. HIDE DEF s
  <2>4. \A k \in 0 .. c : s[k] = IF k = 0 THEN words ELSE G(s[k - 1])
    BY <1>1, <2>1, <2>2
  <2>. QED  BY <2>3, <2>4
<1>8. Turns(h)
  <2>. HIDE DEF Turns, s
  <2>. QED  BY <1>2, <1>7
<1>9. h[0] = words /\ \A k \in 1 .. c : h[k] = G(h[k - 1])
  <2> DEFINE ff == [k \in 0 .. c |-> IF k = 0 THEN words ELSE G(h[k - 1])]
  <2>1. h = ff
    BY <1>8
  <2>2. ff[0] = words /\ \A k \in 1 .. c : ff[k] = G(h[k - 1])
    BY <1>1
  <2>. HIDE DEF ff
  <2>. QED  BY <2>1, <2>2
<1>10. \A k \in 0 .. c : h[k] = g[k]
  <2> DEFINE T == {k \in 0 .. c : h[k] = g[k]}
  <2>1. 0 \in T
    BY <1>1, <1>4, <1>9
  <2>2. ASSUME NEW k \in 1 .. c, k - 1 \in T PROVE k \in T
    <3>1. h[k] = G(g[k - 1]) /\ g[k] = Replaced(A, g[k - 1]) /\ g[k - 1] \in CommandLines
      BY <1>4, <1>6, <1>9, <2>2
    <3>. QED  BY <1>5, <1>6, <3>1
  <2>. HIDE DEF T
  <2>3. \A k \in 0 .. c : k \in T
    BY <1>1, <2>1, <2>2, UpToInduction
  <2>. QED  BY <2>3 DEF T
<1>11. h[c] = g[c]
  BY <1>1, <1>10
<1>. QED  BY <1>3, <1>11 DEF g, c

\* Aliases resolve, if there are no more of them than alias_resolve takes turns.
LEMMA ResolvesAsSaid ==
    ASSUME config.alias \in Tables(Words), NEW words \in CommandLines,
           Cardinality(DOMAIN config.alias) < MaxResolve
    PROVE  LET line == Resolve(config.alias, words)
               end  == Rewritten(words)
           IN  /\ line.fits => line.words = end
               /\ line.fits <=> \/ Head(words) \notin DOMAIN config.alias
                                \/ Head(end) \notin DOMAIN config.alias /\ Len(end) <= Room
<1> DEFINE A == config.alias
           c == Cardinality(DOMAIN A)
           n == MaxResolve - 1
           g == Replacing(A, words, n)
           end == Rewritten(words)
           line == Resolve(A, words)
<1>1. c \in Nat /\ n \in Nat /\ c \in 0 .. n /\ n \in c .. n /\ n \in 0 .. n
  BY TableParts, FS_CardinalityType, CommandsAssumption
<1>2. end = g[c]
  BY <1>1, RewritingTurns
<1>3. g[0] = words
  BY <1>1, ReplacingTurns
<1>4. line = IF Head(words) \notin DOMAIN A THEN [fits |-> TRUE, words |-> words]
        ELSE [fits |-> Head(g[n]) \notin DOMAIN A /\ Len(g[n]) <= Room, words |-> g[n]]
  BY DEF Resolve
<1>. HIDE DEF g, n, c, end, line
<1>5. CASE Head(words) \notin DOMAIN A
  <2>1. c \in 0 .. n /\ Head(g[0]) \notin DOMAIN A /\ 0 \in 0 .. n
    BY <1>1, <1>3, <1>5
  <2>2. g[c] = g[0]
    BY <1>1, <2>1, ReplacingEnds DEF g
  <2>3. end = words /\ line.fits = TRUE /\ line.words = words
    BY <1>2, <1>3, <1>4, <1>5, <2>2
  <2>. QED  BY <1>5, <2>3 DEF end, line
<1>6. CASE Head(words) \in DOMAIN A /\ Head(end) \notin DOMAIN A
  <2>1. g[n] = g[c]
    BY <1>1, <1>2, <1>6, ReplacingEnds DEF g
  <2>2. line.words = end /\ line.fits = (Head(end) \notin DOMAIN A /\ Len(end) <= Room)
    BY <1>2, <1>4, <1>6, <2>1
  <2>. QED  BY <1>6, <2>2 DEF end, line
<1>7. CASE Head(words) \in DOMAIN A /\ Head(end) \in DOMAIN A
  <2>1. ASSUME NEW k \in 0 .. c PROVE Head(g[k]) \in DOMAIN A
    <3>1. SUFFICES ASSUME Head(g[k]) \notin DOMAIN A PROVE FALSE
      OBVIOUS
    <3>2. ~(Head(g[c]) \notin DOMAIN A) /\ k \in 0 .. n /\ c \in k .. n
      BY <1>1, <1>2, <1>7
    <3>3. g[c] = g[k]
      BY <1>1, <3>1, <3>2, ReplacingEnds DEF g
    <3>. QED  BY <3>1, <3>2, <3>3
  <2>2. Head(g[n]) \in DOMAIN A
    <3>1. c <= n
      BY <1>1
    <3>. QED  BY <1>1, <2>1, <3>1, ChainOrLoop DEF g, c
  <2>3. ~line.fits
    BY <1>4, <1>7, <2>2
  <2>. QED  BY <1>7, <2>3 DEF end, line
<1>. QED  BY <1>5, <1>6, <1>7

-----------------------------------------------------------------------------
(***************************************************************************)
(* Commands                                                                *)
(***************************************************************************)

\* The words of the program.
LEMMA OwnWordsAre ==
    /\ {"", "win", "set", "alias", "bind", "-buddy", "input", "send", "backspace", "TRUE", "FALSE",
        " ", "/", "%N"} \subseteq Words
    /\ \A i \in 1 .. 29 : keyval[i] \in Words
    /\ \A w \in {"q", "0x7f", "0x112"} : w \in Words
    /\ \A w \in OptNames : w \in Words
    /\ \A n \in 0 .. 9 : Digits[n + 1] \in Words
<1>1. OwnWords \subseteq Words
  BY WordsAssumption
<1>2. ToSet(keyval) \subseteq Words /\ DOMAIN Codes \subseteq Words /\ OptNames \subseteq Words
      /\ ToSet(Digits) \subseteq Words
  BY <1>1 DEF OwnWords
<1>3. {"", "win", "set", "alias", "bind", "-buddy", "input", "send", "backspace", "TRUE", "FALSE",
       " ", "/", "%N"} \subseteq Words
  BY <1>1 DEF OwnWords
<1>4. \A i \in 1 .. 29 : keyval[i] \in Words
  <2>1. \A i \in 1 .. 29 : keyval[i] \in ToSet(keyval)
    BY DEF keyval, ToSet
  <2>. QED  BY <1>2, <2>1
<1>5. \A n \in 0 .. 9 : Digits[n + 1] \in Words
  <2>1. \A n \in 0 .. 9 : Digits[n + 1] \in ToSet(Digits)
    BY DEF Digits, ToSet
  <2>. QED  BY <1>2, <2>1
<1>. QED  BY <1>2, <1>3, <1>4, <1>5 DEF Codes

\* The options by name, and their types.
LEMMA OptionTypes ==
    /\ OptNames = {"AUTO_RECONNECT", "CMDCHARS", "PROMPT", "SCROLLBUF_LEN"}
    /\ TypeOf("AUTO_RECONNECT") = "bool" /\ TypeOf("CMDCHARS") = "char"
    /\ TypeOf("PROMPT") = "str" /\ TypeOf("SCROLLBUF_LEN") = "int"
<1>1. OptNames = {"AUTO_RECONNECT", "CMDCHARS", "PROMPT", "SCROLLBUF_LEN"}
  BY DEF OptNames, global_pref
<1>2. TypeOf("AUTO_RECONNECT") = "bool" /\ TypeOf("CMDCHARS") = "char"
  BY DEF TypeOf, ToSet, global_pref
<1>3. TypeOf("PROMPT") = "str" /\ TypeOf("SCROLLBUF_LEN") = "int"
  BY DEF TypeOf, ToSet, global_pref
<1>. QED  BY <1>1, <1>2, <1>3

\* The larger of two numbers.
LEMMA MaxOfTwo ==
    ASSUME NEW a \in 0 .. 9, NEW b \in 0 .. 9
    PROVE  Max({a, b}) = IF a < b THEN b ELSE a
<1> DEFINE T == {a, b}
<1>1. T \in SUBSET (0 .. 9) /\ T # {} /\ 9 \in Nat
  OBVIOUS
<1>2. Max(T) \in T /\ \A y \in T : y <= Max(T)
  <2>. HIDE DEF T
  <2>. QED  BY <1>1, MaxOf
<1>. QED  BY <1>2

\* A digit is read as the number it was written for.
LEMMA NumberOf ==
    /\ \A n \in 0 .. 9 : Digits[n + 1] \in ToSet(Digits) /\ Number(Digits[n + 1]) = n
    /\ \A w \in ToSet(Digits) : Number(w) \in 0 .. 9
<1>1. \A w \in ToSet(Digits) : \E n \in 0 .. 9 : Digits[n + 1] = w
  <2>1. ASSUME NEW w \in ToSet(Digits) PROVE \E n \in 0 .. 9 : Digits[n + 1] = w
    <3>1. PICK i \in 1 .. 10 : Digits[i] = w
      BY DEF ToSet, Digits
    <3>2. i - 1 \in 0 .. 9 /\ i - 1 + 1 = i
      OBVIOUS
    <3>. QED  BY <3>1, <3>2
  <2>. QED  BY <2>1
<1>2. \A w \in ToSet(Digits) : Number(w) \in 0 .. 9
  BY <1>1 DEF Number
<1>3. \A n \in 0 .. 9 : Digits[n + 1] \in ToSet(Digits)
  BY DEF ToSet, Digits
<1>4. \A m, n \in 0 .. 9 : Digits[m + 1] = Digits[n + 1] => m = n
  BY DEF Digits
<1>5. ASSUME NEW n \in 0 .. 9 PROVE Number(Digits[n + 1]) = n
  <2>1. Number(Digits[n + 1]) \in 0 .. 9 /\ Digits[Number(Digits[n + 1]) + 1] = Digits[n + 1]
    BY DEF Number
  <2>. HIDE DEF Digits
  <2>. QED  BY <1>4, <2>1
<1>. QED  BY <1>2, <1>3, <1>5

\* What /set stores is a value of the option's type.
LEMMA CmdSetType ==
    ASSUME NEW c \in Configs, NEW args \in Seq(Words), NEW r \in 1 .. 9
    PROVE  CmdSet(c, args, r) \in Configs
<1> DEFINE name == args[1]
           value == Tail(args)
           v == NewValue(name, value, c.opts[name], r)
<1>. SUFFICES ASSUME Len(args) >= 2, name \in OptNames, Accepts(name, value)
              PROVE  [c EXCEPT !.opts[name] = v] \in Configs
  BY DEF CmdSet
<1>1. args # << >> /\ Len(args) \in Nat
  OBVIOUS
<1>2. value \in Seq(Words) /\ Len(value) > 0
  BY <1>1, HeadTailProperties
<1>3. value[1] \in Words
  BY <1>2, ElementOfSeq
<1>4. c.opts \in Opts
  BY DEF Configs
<1>. HIDE DEF value
<1>5. [c.opts EXCEPT ![name] = v] \in Opts
  <2>1. CASE name = "AUTO_RECONNECT"
    <3>1. v \in BOOLEAN
      <4>1. v = IF value[1] = "TOGGLE" THEN ~c.opts[name] ELSE value[1] \in Yes
        BY <2>1, OptionTypes DEF NewValue
      <4>2. c.opts[name] \in BOOLEAN
        BY <1>4, <2>1 DEF Opts
      <4>3. CASE value[1] = "TOGGLE"
        <5>1. v = ~c.opts[name]
          BY <4>1, <4>3
        <5>. HIDE DEF v
        <5>. QED  BY <5>1
      <4>4. CASE value[1] # "TOGGLE"
        <5>1. v = (value[1] \in Yes)
          BY <4>1, <4>4
        <5>. HIDE DEF v
        <5>. QED  BY <5>1
      <4>. QED  BY <4>3, <4>4
    <3>. HIDE DEF v
    <3>. QED  BY <1>4, <2>1, <3>1 DEF Opts
  <2>2. CASE name = "CMDCHARS"
    <3>1. v \in Characters
      <4>1. v = (IF Len(value) = 1 THEN Char(value[1]) ELSE First(value)) /\ First(value) # ""
        BY <2>2, OptionTypes DEF NewValue, Accepts
      <4>2. Head(value) = value[1] /\ value # << >>
        BY <1>2
      <4>3. CASE value[1] # ""
        <5>1. First(value) = FirstLetter(value[1])
          BY <4>2, <4>3 DEF First
        <5>2. Char(value[1]) \in Characters /\ FirstLetter(value[1]) \in Characters
          BY <1>3, <4>3, CharactersAre
        <5>. HIDE DEF v
        <5>. QED  BY <4>1, <5>1, <5>2
      <4>4. CASE value[1] = ""
        <5>1. First(value) = " " /\ Tail(value) # << >>
          BY <4>1, <4>2, <4>4 DEF First
        <5>2. Len(value) # 1
          <6>1. Len(Tail(value)) = Len(value) - 1 /\ Tail(value) \in Seq(Words) /\ Len(value) \in Nat
            BY <1>2, <4>2, HeadTailProperties
          <6>2. Len(Tail(value)) # 0
            BY <5>1, <6>1, EmptySeq
          <6>. QED  BY <6>1, <6>2
        <5>. HIDE DEF v
        <5>. QED  BY <4>1, <5>1, <5>2, CharactersAre
      <4>. QED  BY <4>3, <4>4
    <3>. HIDE DEF v
    <3>. QED  BY <1>4, <2>2, <3>1 DEF Opts
  <2>3. CASE name = "PROMPT"
    <3>1. v \in Seq(Words)
      BY <1>2, <2>3, OptionTypes DEF NewValue
    <3>. HIDE DEF v
    <3>. QED  BY <1>4, <2>3, <3>1 DEF Opts
  <2>4. CASE name = "SCROLLBUF_LEN"
    <3>1. v \in 0 .. 9
      <4>1. v = Max({Number(value[1]), r}) /\ value[1] \in ToSet(Digits)
        BY <2>4, OptionTypes DEF NewValue, Accepts
      <4>2. Number(value[1]) \in 0 .. 9 /\ r \in 0 .. 9
        BY <4>1, NumberOf
      <4>. HIDE DEF v
      <4>. QED  BY <4>1, <4>2, MaxOfTwo
    <3>. HIDE DEF v
    <3>. QED  BY <1>4, <2>4, <3>1 DEF Opts
  <2>. QED  BY <2>1, <2>2, <2>3, <2>4, OptionTypes
<1> DEFINE o == [c.opts EXCEPT ![name] = v]
<1>6. [c EXCEPT !.opts[name] = v] = [c EXCEPT !.opts = o]
  OBVIOUS
<1>. HIDE DEF o, v
<1>7. o \in Opts
  BY <1>5 DEF o, v
<1>. QED  BY <1>6, <1>7 DEF Configs

\* What comes behind the first of two words or more.
LEMMA TailLine ==
    ASSUME NEW s \in Seq(Words), Len(s) >= 2
    PROVE  s # << >> /\ s[1] \in Words /\ Tail(s) \in CommandLines
<1>1. s # << >> /\ 1 \in 1 .. Len(s)
  OBVIOUS
<1> DEFINE t == Tail(s)
<1>2. t \in Seq(Words) /\ Len(t) > 0
  BY <1>1, HeadTailProperties
<1>. HIDE DEF t
<1>3. t # << >>
  BY <1>2
<1>4. t \in CommandLines
  BY <1>2, <1>3 DEF CommandLines
<1>. QED  BY <1>1, <1>4, ElementOfSeq DEF t

\* /alias and /unalias.
LEMMA CmdAliasType ==
    ASSUME NEW c \in Configs, NEW args \in Seq(Words)
    PROVE  CmdAlias(c, args) \in Configs /\ CmdUnalias(c, args) \in Configs
<1>1. c.alias \in Tables(Words)
  BY DEF Configs
<1>2. CASE Len(args) >= 2
  <2>1. args[1] \in Words /\ Tail(args) \in CommandLines
    BY <1>2, TailLine
  <2>2. AliasAdd(c.alias, args[1], Tail(args)) \in Tables(Words)
    BY <1>1, <2>1, WithTable DEF AliasAdd
  <2>3. CmdAlias(c, args) \in Configs
    BY <1>2, <2>2 DEF CmdAlias, Configs
  <2>4. Len(args) # 1
    <3>1. Len(args) \in Nat
      BY EmptySeq, LenProperties
    <3>2. \A n \in Nat : n >= 2 => n # 1
      OBVIOUS
    <3>. QED  BY <1>2, <3>1, <3>2, Zenon
  <2>5. CmdUnalias(c, args) = c
    BY <2>4 DEF CmdUnalias
  <2>. QED  BY <2>3, <2>5
<1>3. CASE ~(Len(args) >= 2)
  <2>1. CmdAlias(c, args) = c
    BY <1>3 DEF CmdAlias
  <2>2. Without(c.alias, args[1]) \in Tables(Words)
    BY <1>1, WithoutTable
  <2>3. CmdUnalias(c, args) \in Configs
    BY <2>2 DEF CmdUnalias, Configs
  <2>. QED  BY <2>1, <2>3
<1>. QED  BY <1>2, <1>3

\* A key that bind_get_keycode finds.
LEMMA KeyOfKeys ==
    ASSUME NEW word, KeyOf(word) # NoKey
    PROVE  KeyOf(word) \in Keys
  BY DEF KeyOf, Keys

\* The flags of /bind and /unbind.
LEMMA BindArgsType ==
    ASSUME NEW args \in Seq(Words)
    PROVE  BindArgs(args) \in Seq(Words) /\ BindSet(args) \in {"main", "blist"}
  BY HeadTailProperties DEF BindArgs, BindSet

\* /bind and /unbind.
LEMMA CmdBindType ==
    ASSUME NEW c \in Configs, NEW args \in Seq(Words)
    PROVE  CmdBind(c, args) \in Configs /\ CmdUnbind(c, args) \in Configs
<1> DEFINE rest == BindArgs(args)
           p == BindSet(args)
<1>1. rest \in Seq(Words) /\ p \in {"main", "blist"}
  BY BindArgsType
<1>. HIDE DEF rest, p
<1>2. c[p] \in Tables(Keys)
  BY <1>1 DEF Configs
<1>3. \A t \in Tables(Keys) : [c EXCEPT ![p] = t] \in Configs
  BY <1>1 DEF Configs
<1>4. CmdBind(c, args) \in Configs
  <2>1. SUFFICES ASSUME Len(rest) >= 2, KeyOf(rest[1]) # NoKey
                 PROVE  [c EXCEPT ![p] = BindAdd(@, KeyOf(rest[1]), Bound(Tail(rest), c.opts.CMDCHARS))]
                          \in Configs
    BY DEF CmdBind, rest, p
  <2>2. Tail(rest) \in CommandLines
    BY <1>1, <2>1, TailLine
  <2> DEFINE line == Bound(Tail(rest), c.opts.CMDCHARS)
             key == KeyOf(rest[1])
  <2>3. line \in CommandLines /\ key \in Keys
    <3>1. c.opts.CMDCHARS \in Characters
      BY DEF Configs, Opts
    <3>. QED  BY <2>1, <2>2, <3>1, WithoutLine, KeyOfKeys
  <2>. HIDE DEF line, key
  <2>4. BindAdd(c[p], key, line) \in Tables(Keys)
    BY <1>2, <2>3, WithTable DEF BindAdd
  <2>5. [c EXCEPT ![p] = BindAdd(@, key, line)] = [c EXCEPT ![p] = BindAdd(c[p], key, line)]
    OBVIOUS
  <2>. QED  BY <1>3, <2>4, <2>5 DEF line, key
<1>5. CmdUnbind(c, args) \in Configs
  <2>1. \A k : Without(c[p], k) \in Tables(Keys)
    BY <1>2, WithoutTable
  <2>2. \A k : [c EXCEPT ![p] = BindRemove(@, k)] = [c EXCEPT ![p] = Without(c[p], k)]
    BY DEF BindRemove
  <2>. QED  BY <1>3, <2>1, <2>2 DEF CmdUnbind, rest, p
<1>. QED  BY <1>4, <1>5

\* A command leaves a configuration.
LEMMA RunCommandType ==
    ASSUME NEW c \in Configs, NEW words \in CommandLines, NEW r \in 1 .. 9
    PROVE  RunCommand(c, words, r) \in Configs
<1> DEFINE line == Resolve(c.alias, words)
           args == Tail(line.words)
<1>1. c.alias \in Tables(Words)
  BY DEF Configs
<1>2. line.words \in CommandLines
  BY <1>1, ResolveLine
<1>3. args \in Seq(Words)
  BY <1>2, LineParts
<1>. HIDE DEF args, line
<1>4. /\ CmdSet(c, args, r) \in Configs /\ CmdAlias(c, args) \in Configs /\ CmdUnalias(c, args) \in Configs
      /\ CmdBind(c, args) \in Configs /\ CmdUnbind(c, args) \in Configs
  BY <1>3, CmdSetType, CmdAliasType, CmdBindType
<1>. QED  BY <1>4 DEF RunCommand, args, line

-----------------------------------------------------------------------------
(***************************************************************************)
(* The file                                                                *)
(***************************************************************************)

\* A line of the file is run.
LEMMA ReadLineType ==
    ASSUME NEW c \in Configs, NEW line \in CommandLines, NEW r \in 1 .. 9
    PROVE  ReadLine(c, line, r) \in Configs
<1>1. c.opts.CMDCHARS \in Characters
  BY DEF Configs, Opts
<1>2. WithoutCmdchar(line, c.opts.CMDCHARS) \in CommandLines
  BY <1>1, WithoutLine
<1>. QED  BY <1>2, RunCommandType DEF ReadLine

\* The file is read line by line.
LEMMA ReadingTurns ==
    ASSUME NEW c \in Configs, NEW lines \in Seq(CommandLines), NEW r \in 1 .. 9
    PROVE  LET h == Reading(c, lines, r) IN
           /\ h[0] = c
           /\ \A k \in 1 .. Len(lines) : h[k] = ReadLine(h[k - 1], lines[k], r)
           /\ \A k \in 0 .. Len(lines) : h[k] \in Configs
<1> DEFINE X == Configs
           n == Len(lines)
           G(x, k) == ReadLine(x, lines[k], r)
           Turns(f) == f = [k \in 0 .. n |-> IF k = 0 THEN c ELSE G(f[k - 1], k)]
           g == [k \in 1 .. n |-> [x \in X |-> G(x, k)]]
           h == Reading(c, lines, r)
<1>1. h = CHOOSE f : Turns(f)
  BY DEF Reading
<1>. HIDE DEF h
<1>2. n \in Nat /\ \A k \in 1 .. n : \A x \in X : G(x, k) \in X
  <2>1. n \in Nat
    BY LenProperties
  <2>2. ASSUME NEW k \in 1 .. n, NEW x \in X PROVE G(x, k) \in X
    <3>1. lines[k] \in CommandLines
      BY ElementOfSeq
    <3>2. ReadLine(x, lines[k], r) \in Configs
      BY <3>1, ReadLineType
    <3>. QED  BY <3>2
  <2>. QED  BY <2>1, <2>2
<1>. HIDE DEF G, X, n
<1>3. PICK s : s \in [0 .. n -> X] /\ IsLoop(s, c, g, n)
  <2>1. TurnsIn(X, g, n)
    BY <1>2 DEF TurnsIn
  <2>2. c \in X
    BY DEF X
  <2>. HIDE DEF g
  <2>. QED  BY <1>2, <2>1, <2>2, LoopExists
<1>4. s[0] = c /\ \A k \in 1 .. n : s[k] = G(s[k - 1], k)
  <2>1. ASSUME NEW k \in 1 .. n PROVE s[k] = G(s[k - 1], k)
    <3>1. s[k] = g[k][s[k - 1]] /\ s[k - 1] \in X
      <4>. HIDE DEF g
      <4>. QED  BY <1>2, <1>3 DEF IsLoop
    <3>. QED  BY <3>1
  <2>. QED  BY <1>3, <2>1 DEF IsLoop
<1>5. Turns(s)
  <2>1. s = [k \in 0 .. n |-> s[k]]
    BY <1>3
  <2>2. \A k \in 0 .. n : s[k] = IF k = 0 THEN c ELSE G(s[k - 1], k)
    BY <1>2, <1>4
  <2>. QED  BY <2>1, <2>2
<1>6. Turns(h)
  <2>. HIDE DEF Turns
  <2>. QED  BY <1>1, <1>5
<1>7. \A k \in 0 .. n : h[k] = IF k = 0 THEN c ELSE G(h[k - 1], k)
  <2> DEFINE ff == [k \in 0 .. n |-> IF k = 0 THEN c ELSE G(h[k - 1], k)]
  <2>1. h = ff
    BY <1>6
  <2>2. \A k \in 0 .. n : ff[k] = IF k = 0 THEN c ELSE G(h[k - 1], k)
    OBVIOUS
  <2>. HIDE DEF ff
  <2>. QED  BY <2>1, <2>2
<1>8. h[0] = c /\ \A k \in 1 .. n : h[k] = G(h[k - 1], k)
  BY <1>2, <1>7
<1>9. \A k \in 0 .. n : h[k] \in X
  <2> DEFINE T == {k \in 0 .. n : h[k] \in X}
  <2>1. 0 \in T
    BY <1>2, <1>8 DEF X
  <2>2. ASSUME NEW k \in 1 .. n, k - 1 \in T PROVE k \in T
    BY <1>2, <1>8, <2>2
  <2>. HIDE DEF T
  <2>3. \A k \in 0 .. n : k \in T
    BY <1>2, <2>1, <2>2, UpToInduction
  <2>. QED  BY <2>3 DEF T
<1>. QED  BY <1>8, <1>9, Zenon DEF h, G, X, n

\* What is read from a file leaves a configuration.
LEMMA ReadConfType ==
    ASSUME NEW c \in Configs, NEW lines \in Seq(CommandLines), NEW r \in 1 .. 9
    PROVE  ReadConf(c, lines, r) \in Configs
<1>1. Len(lines) \in 0 .. Len(lines)
  BY LenProperties
<1>. QED  BY <1>1, ReadingTurns DEF ReadConf

\* The empty table.
LEMMA NoTable ==
    ASSUME NEW K
    PROVE  << >> \in Tables(K) /\ DOMAIN << >> = {}
<1>1. << >> \in [{} -> CommandLines] /\ DOMAIN << >> = {}
  OBVIOUS
<1>. QED  BY <1>1, TableOf, FS_EmptySet

\* What is compiled in is one.
LEMMA DefaultsType == Defaults \in Configs
<1>1. Defaults.opts \in Opts
  <2>1. "%N" \in Words
    BY OwnWordsAre
  <2>2. \A x \in Words : <<x>> \in Seq(Words)
    OBVIOUS
  <2>3. <<"%N">> \in Seq(Words)
    BY <2>1, <2>2
  <2>4. 9 \in 0 .. 9 /\ FALSE \in BOOLEAN
    OBVIOUS
  <2>5. Defaults.opts = [AUTO_RECONNECT |-> FALSE, CMDCHARS |-> "/", PROMPT |-> <<"%N">>,
                         SCROLLBUF_LEN |-> 9]
    BY DEF Defaults
  <2>6. \A a \in BOOLEAN, c \in Characters, p \in Seq(Words), n \in 0 .. 9 :
           [AUTO_RECONNECT |-> a, CMDCHARS |-> c, PROMPT |-> p, SCROLLBUF_LEN |-> n] \in Opts
    BY DEF Opts
  <2>7. "/" \in Characters
    BY CharactersAre
  <2>. QED  BY <2>3, <2>4, <2>5, <2>6, <2>7, Zenon
<1> DEFINE D == {"RETURN", "0x7f", "BACKSPACE"}
           m == [k \in D |-> <<"input", IF k = "RETURN" THEN "send" ELSE "backspace">>]
<1>2. m \in Tables(Keys)
  <2>1. \A k \in D : <<"input", IF k = "RETURN" THEN "send" ELSE "backspace">> \in CommandLines
    <3>1. \A x, y \in Words : <<x, y>> \in Seq(Words) /\ <<x, y>> # << >>
      OBVIOUS
    <3>2. "input" \in Words /\ "send" \in Words /\ "backspace" \in Words
      BY OwnWordsAre
    <3>. QED  BY <3>1, <3>2 DEF CommandLines
  <2>2. m \in [D -> CommandLines]
    BY <2>1
  <2>3. IsFiniteSet(D)
    <3>1. IsFiniteSet({"RETURN"}) /\ IsFiniteSet({"RETURN"} \cup {"0x7f"})
          /\ IsFiniteSet(({"RETURN"} \cup {"0x7f"}) \cup {"BACKSPACE"})
      BY FS_Singleton, FS_AddElement
    <3>2. D = ({"RETURN"} \cup {"0x7f"}) \cup {"BACKSPACE"}
      OBVIOUS
    <3>. QED  BY <3>1, <3>2
  <2>4. D \subseteq Keys
    BY DEF Keys
  <2>. HIDE DEF m, D
  <2>. QED  BY <2>2, <2>3, <2>4, TableOf
<1>3. Defaults = [opts |-> Defaults.opts, alias |-> << >>, main |-> m, blist |-> << >>]
  BY DEF Defaults
<1>4. \A o \in Opts, t \in Tables(Keys) :
         [opts |-> o, alias |-> << >>, main |-> t, blist |-> << >>] \in Configs
  BY NoTable DEF Configs
<1>. HIDE DEF m
<1>. QED  BY <1>1, <1>2, <1>3, <1>4

\* A start leaves a configuration.
LEMMA StartedType ==
    ASSUME NEW lines \in Seq(CommandLines), NEW r \in Heights
    PROVE  Started(lines, r) \in Configs
<1>1. r \in 1 .. 9 /\ SystemRc \in Seq(CommandLines)
  BY CommandsAssumption
<1>2. ReadConf(Defaults, SystemRc, r) \in Configs
  BY <1>1, DefaultsType, ReadConfType
<1>. QED  BY <1>1, <1>2, ReadConfType DEF Started

\* A function on 1 .. n is a sequence.
LEMMA FunctionIsSeq ==
    ASSUME NEW n \in Nat, NEW S, NEW f \in [1 .. n -> S]
    PROVE  f \in Seq(S)
  OBVIOUS

\* What is in one sequence behind the other.
LEMMA ToSetConcat ==
    ASSUME NEW S, NEW s \in Seq(S), NEW t \in Seq(S)
    PROVE  s \o t \in Seq(S) /\ ToSet(s \o t) = ToSet(s) \cup ToSet(t)
<1> DEFINE u == s \o t
<1>1. /\ u \in Seq(S) /\ Len(u) = Len(s) + Len(t) /\ Len(s) \in Nat /\ Len(t) \in Nat
      /\ \A i \in 1 .. Len(s) + Len(t) : u[i] = IF i <= Len(s) THEN s[i] ELSE t[i - Len(s)]
  BY ConcatProperties, LenProperties
<1>2. DOMAIN u = 1 .. Len(s) + Len(t) /\ DOMAIN s = 1 .. Len(s) /\ DOMAIN t = 1 .. Len(t)
  BY <1>1
<1>. HIDE DEF u
<1>3. ASSUME NEW x \in ToSet(u) PROVE x \in ToSet(s) \cup ToSet(t)
  <2>1. PICK i \in 1 .. Len(s) + Len(t) : u[i] = x
    BY <1>2 DEF ToSet
  <2>2. CASE i <= Len(s)
    <3>1. i \in DOMAIN s /\ s[i] = x
      BY <1>1, <1>2, <2>1, <2>2
    <3>. QED  BY <3>1 DEF ToSet
  <2>3. CASE ~(i <= Len(s))
    <3>1. i - Len(s) \in DOMAIN t /\ t[i - Len(s)] = x
      BY <1>1, <1>2, <2>1, <2>3
    <3>. QED  BY <3>1 DEF ToSet
  <2>. QED  BY <2>2, <2>3
<1>4. ASSUME NEW x \in ToSet(s) PROVE x \in ToSet(u)
  <2>1. PICK i \in 1 .. Len(s) : s[i] = x
    BY <1>2 DEF ToSet
  <2>2. i \in DOMAIN u /\ u[i] = x
    BY <1>1, <1>2, <2>1
  <2>. QED  BY <2>2 DEF ToSet
<1>5. ASSUME NEW x \in ToSet(t) PROVE x \in ToSet(u)
  <2>1. PICK i \in 1 .. Len(t) : t[i] = x
    BY <1>2 DEF ToSet
  <2>2. Len(s) + i \in 1 .. Len(s) + Len(t) /\ ~(Len(s) + i <= Len(s)) /\ Len(s) + i - Len(s) = i
    BY <1>1
  <2>3. Len(s) + i \in DOMAIN u /\ u[Len(s) + i] = x
    BY <1>1, <1>2, <2>1, <2>2
  <2>. QED  BY <2>3 DEF ToSet
<1>. QED  BY <1>1, <1>3, <1>4, <1>5 DEF u

\* CHOOSE finds an order of a finite set.
LEMMA InSomeOrder ==
    ASSUME NEW S, IsFiniteSet(S)
    PROVE  SetToSeq(S) \in SetToSeqs(S)
<1> DEFINE n == Cardinality(S)
<1>1. ExistsBijection(1 .. n, S)
  BY FS_CardinalityType
<1>2. PICK f \in [1 .. n -> S] : IsInjective(f)
  BY <1>1, Zenon DEF ExistsBijection, Bijection, Injection
<1>3. SetToSeq(S) \in [1 .. n -> S] /\ IsInjective(SetToSeq(S))
  BY <1>2, Zenon DEF SetToSeq
<1>. HIDE DEF n
<1>4. \A i, j \in 1 .. n : i # j => SetToSeq(S)[i] # SetToSeq(S)[j]
  BY <1>3 DEF IsInjective
<1>. QED  BY <1>3, <1>4 DEF SetToSeqs, n

\* What is in a finite set that was put in order.
LEMMA OrderOf ==
    ASSUME NEW S, IsFiniteSet(S), NEW s \in SetToSeqs(S)
    PROVE  s \in Seq(S) /\ DOMAIN s = 1 .. Cardinality(S) /\ ToSet(s) = S
<1> DEFINE n == Cardinality(S)
<1>1. n \in Nat
  BY FS_CardinalityType
<1>2. s \in [1 .. n -> S] /\ \A i, j \in 1 .. n : i # j => s[i] # s[j]
  BY DEF SetToSeqs
<1>3. IsFiniteSet(1 .. n) /\ Cardinality(1 .. n) = n
  BY <1>1, FS_Interval
<1>4. s \in Injection(1 .. n, S)
  BY <1>2 DEF Injection, IsInjective
<1>5. s \in Surjection(1 .. n, S)
  <2>. HIDE DEF n
  <2>1. Cardinality(1 .. n) = Cardinality(S)
    BY <1>3 DEF n
  <2>. QED  BY <1>4, <2>1, FS_Injection
<1>6. \A x \in S : \E i \in 1 .. n : s[i] = x
  BY <1>5 DEF Surjection
<1>. HIDE DEF n
<1>7. s \in Seq(S)
  BY <1>1, <1>2
<1>8. ToSet(s) = S
  BY <1>2, <1>6 DEF ToSet
<1>. QED  BY <1>2, <1>7, <1>8 DEF n

\* What is in sequences put together.
LEMMA ToSetFlatten ==
    ASSUME NEW S, NEW ss \in Seq(Seq(S))
    PROVE  ToSet(FlattenSeq(ss)) = UNION {ToSet(ss[i]) : i \in DOMAIN ss}
<1> DEFINE U(s) == UNION {ToSet(s[i]) : i \in DOMAIN s}
           T == {s \in Seq(Seq(S)) : ToSet(FlattenSeq(s)) = U(s)}
<1>1. << >> \in T
  <2>1. U(<< >>) = {} /\ ToSet(<< >>) = {}
    BY DEF ToSet
  <2>2. << >> \in Seq(Seq(S))
    OBVIOUS
  <2>. HIDE DEF U
  <2>. QED  BY <2>1, <2>2, FlattenEmpty
<1>2. ASSUME NEW s \in Seq(Seq(S)), NEW e \in Seq(S), s \in T PROVE Append(s, e) \in T
  <2>1. FlattenSeq(Append(s, e)) = FlattenSeq(s) \o e /\ FlattenSeq(s) \in Seq(S)
    BY FlattenAppend, FlattenType
  <2>2. ToSet(FlattenSeq(Append(s, e))) = U(s) \cup ToSet(e)
    BY <1>2, <2>1, ToSetConcat
  <2>3. /\ Append(s, e) \in Seq(Seq(S)) /\ Len(s) \in Nat
        /\ DOMAIN s = 1 .. Len(s) /\ DOMAIN Append(s, e) = 1 .. Len(s) + 1
        /\ \A i \in 1 .. Len(s) : Append(s, e)[i] = s[i]
        /\ Append(s, e)[Len(s) + 1] = e
    BY AppendProperties, LenProperties
  <2>4. U(Append(s, e)) = U(s) \cup ToSet(e)
    <3> DEFINE t == Append(s, e)
    <3>1. \A i \in 1 .. Len(s) + 1 : i \in 1 .. Len(s) \/ i = Len(s) + 1
      BY <2>3
    <3>2. \A i \in 1 .. Len(s) : i \in 1 .. Len(s) + 1
      BY <2>3
    <3>3. Len(s) + 1 \in 1 .. Len(s) + 1
      BY <2>3
    <3>. HIDE DEF t
    <3>4. DOMAIN t = 1 .. Len(s) + 1 /\ (\A i \in 1 .. Len(s) : t[i] = s[i]) /\ t[Len(s) + 1] = e
      BY <2>3 DEF t
    <3>5. U(t) = U(s) \cup ToSet(e)
      BY <2>3, <3>1, <3>2, <3>3, <3>4, Zenon
    <3>. QED  BY <3>5 DEF t
  <2>. HIDE DEF U
  <2>. QED  BY <2>2, <2>3, <2>4
<1>. HIDE DEF T
<1>3. ss \in T
  BY <1>1, <1>2, AppendInduction
<1>. QED  BY <1>3 DEF T

\* The parts of a configuration, and the entries that are written.
Parts == {"opts", "alias", "main", "blist"}
Unwritten(c, p, x) == p = "opts" /\ x = "PROMPT" /\ c.opts.PROMPT = << >>

\* The line of an entry.
PrefOf(x) == CHOOSE p \in ToSet(global_pref) : p.name = x
LineFor(c, p, x) ==
    CASE p = "opts"  -> OptionLine(PrefOf(x), c.opts[x])
      [] p = "alias" -> <<"alias", x>> \o c.alias[x]
      [] p = "main"  -> <<"bind">> \o << >> \o <<x>> \o c.main[x]
      [] p = "blist" -> <<"bind">> \o <<"-buddy">> \o <<x>> \o c.blist[x]

\* The names and types of the options, one after the other.
LEMMA Preferences ==
    /\ Len(global_pref) = 4
    /\ \A i \in 1 .. 4 : global_pref[i].name \in OptNames /\ PrefOf(global_pref[i].name) = global_pref[i]
    /\ \A x \in OptNames : \E i \in 1 .. 4 : global_pref[i].name = x
    /\ global_pref[1].type = "bool" /\ global_pref[2].type = "char"
    /\ global_pref[3].type = "str" /\ global_pref[4].type = "int"
    /\ global_pref[1].name = "AUTO_RECONNECT" /\ global_pref[2].name = "CMDCHARS"
    /\ global_pref[3].name = "PROMPT" /\ global_pref[4].name = "SCROLLBUF_LEN"
<1>1. /\ Len(global_pref) = 4
      /\ global_pref[1] = [name |-> "AUTO_RECONNECT", type |-> "bool"]
      /\ global_pref[2] = [name |-> "CMDCHARS", type |-> "char"]
      /\ global_pref[3] = [name |-> "PROMPT", type |-> "str"]
      /\ global_pref[4] = [name |-> "SCROLLBUF_LEN", type |-> "int"]
      /\ DOMAIN global_pref = 1 .. 4
  BY DEF global_pref
<1>. HIDE DEF global_pref
<1>2. \A i \in 1 .. 4 : i = 1 \/ i = 2 \/ i = 3 \/ i = 4
  OBVIOUS
<1>3. ToSet(global_pref) = {global_pref[1], global_pref[2], global_pref[3], global_pref[4]}
  BY <1>1, <1>2 DEF ToSet
<1>4. \A i \in 1 .. 4 : global_pref[i].name \in OptNames
  BY <1>1 DEF OptNames
<1>5. \A x \in OptNames : \E i \in 1 .. 4 : global_pref[i].name = x
  BY <1>1 DEF OptNames
<1>6. ASSUME NEW i \in 1 .. 4 PROVE PrefOf(global_pref[i].name) = global_pref[i]
  <2>1. \A p \in ToSet(global_pref) : p.name = global_pref[i].name => p = global_pref[i]
    BY <1>1, <1>2, <1>3
  <2>2. global_pref[i] \in ToSet(global_pref)
    BY <1>1, <1>2, <1>3
  <2>. QED  BY <2>1, <2>2, Zenon DEF PrefOf
<1>. QED  BY <1>1, <1>4, <1>5, <1>6

\* The line of an option is a line.
LEMMA OptionLineType ==
    ASSUME NEW opts \in Opts, NEW i \in 1 .. 4
    PROVE  OptionLine(global_pref[i], opts[global_pref[i].name]) \in CommandLines
<1> DEFINE name == global_pref[i].name
           v == opts[global_pref[i].name]
<1>1. "set" \in Words /\ name \in Words /\ "TRUE" \in Words /\ "FALSE" \in Words
  BY OwnWordsAre, Preferences
<1>2. \A x, y \in Words : <<x, y>> \in Seq(Words) /\ <<x, y>> # << >> /\ Len(<<x, y>>) = 2
  OBVIOUS
<1>3. \A x, y, z \in Words : <<x, y, z>> \in Seq(Words) /\ <<x, y, z>> # << >>
  OBVIOUS
<1>4. CASE i = 1
  <2>1. OptionLine(global_pref[i], v) = <<"set", name, IF v THEN "TRUE" ELSE "FALSE">>
    BY <1>4, Preferences DEF OptionLine
  <2>2. (IF v THEN "TRUE" ELSE "FALSE") \in Words
    BY <1>1
  <2>. HIDE DEF name, v
  <2>. QED  BY <1>1, <1>3, <2>1, <2>2 DEF CommandLines, name, v
<1>5. CASE i = 2
  <2>1. OptionLine(global_pref[i], v) = IF v = " " THEN <<"set", name>> ELSE <<"set", name, v>>
    BY <1>5, Preferences DEF OptionLine
  <2>2. v \in Words
    <3>1. v \in Characters
      BY <1>5, Preferences DEF Opts
    <3>. HIDE DEF v
    <3>. QED  BY <3>1, CharactersAre
  <2>. HIDE DEF name, v
  <2>. QED  BY <1>1, <1>2, <1>3, <2>1, <2>2 DEF CommandLines, name, v
<1>6. CASE i = 3
  <2>1. OptionLine(global_pref[i], v) = <<"set", name>> \o v
    BY <1>6, Preferences DEF OptionLine
  <2>2. v \in Seq(Words)
    BY <1>6, Preferences DEF Opts
  <2>. HIDE DEF name, v
  <2>3. <<"set", name>> \in Seq(Words) /\ Len(<<"set", name>>) = 2
    BY <1>1, <1>2
  <2>4. <<"set", name>> \o v \in Seq(Words) /\ Len(<<"set", name>> \o v) = 2 + Len(v) /\ Len(v) \in Nat
    BY <2>2, <2>3, ConcatSeq
  <2>5. \A s \in Seq(Words) : Len(s) > 0 => s # << >>
    OBVIOUS
  <2>6. Len(<<"set", name>> \o v) > 0
    BY <2>4
  <2>7. <<"set", name>> \o v \in CommandLines
    BY <2>4, <2>5, <2>6, Zenon DEF CommandLines
  <2>. QED  BY <2>1, <2>7 DEF name, v
<1>7. CASE i = 4
  <2>1. OptionLine(global_pref[i], v) = <<"set", name, Digits[v + 1]>>
    BY <1>7, Preferences DEF OptionLine
  <2>2. v \in 0 .. 9
    BY <1>7, Preferences DEF Opts
  <2>. HIDE DEF name, v
  <2>3. Digits[v + 1] \in Words
    BY <2>2, OwnWordsAre
  <2>. QED  BY <1>1, <1>3, <2>1, <2>3 DEF CommandLines, name, v
<1>. QED  BY <1>4, <1>5, <1>6, <1>7

\* The lines of the options.
LEMMA OptionLinesAre ==
    ASSUME NEW c \in Configs
    PROVE  /\ OptionLines(c.opts) \in Seq(CommandLines)
           /\ \A line \in ToSet(OptionLines(c.opts)) :
                 \E x \in OptNames : ~Unwritten(c, "opts", x) /\ line = LineFor(c, "opts", x)
           /\ \A x \in OptNames : ~Unwritten(c, "opts", x) =>
                 LineFor(c, "opts", x) \in ToSet(OptionLines(c.opts))
<1> DEFINE opts == c.opts
           None(i) == global_pref[i].type = "str" /\ opts[global_pref[i].name] = << >>
           Line(i) == OptionLine(global_pref[i], opts[global_pref[i].name])
           ss == [i \in 1 .. 4 |-> IF None(i) THEN << >> ELSE <<Line(i)>>]
<1>1. opts \in Opts
  BY DEF Configs
<1>2. OptionLines(opts) = FlattenSeq(ss)
  BY Preferences DEF OptionLines
<1>3. \A i \in 1 .. 4 : Line(i) \in CommandLines
  BY <1>1, OptionLineType
<1>4. \A i \in 1 .. 4 : None(i) <=> Unwritten(c, "opts", global_pref[i].name)
  <2>1. \A i \in 1 .. 4 : i = 1 \/ i = 2 \/ i = 3 \/ i = 4
    OBVIOUS
  <2>. QED  BY <2>1, Preferences DEF Unwritten
<1>5. \A i \in 1 .. 4 : Line(i) = LineFor(c, "opts", global_pref[i].name)
  BY Preferences DEF LineFor
<1>. HIDE DEF None, Line, opts
<1>6. ss \in Seq(Seq(CommandLines)) /\ DOMAIN ss = 1 .. 4
      /\ \A i \in 1 .. 4 : ss[i] = IF None(i) THEN << >> ELSE <<Line(i)>>
  <2>1. \A x \in CommandLines : <<x>> \in Seq(CommandLines)
    OBVIOUS
  <2>2. << >> \in Seq(CommandLines)
    OBVIOUS
  <2>3. \A i \in 1 .. 4 : ss[i] = IF None(i) THEN << >> ELSE <<Line(i)>>
    OBVIOUS
  <2>4. \A i \in 1 .. 4 : ss[i] \in Seq(CommandLines)
    BY <1>3, <2>1, <2>2, <2>3
  <2>5. ss \in [1 .. 4 -> Seq(CommandLines)]
    BY <2>4
  <2>. HIDE DEF ss
  <2>7. ss \in Seq(Seq(CommandLines))
    <3>1. 4 \in Nat
      OBVIOUS
    <3>. QED  BY <2>5, <3>1, FunctionIsSeq
  <2>. QED  BY <2>3, <2>5, <2>7
<1>. HIDE DEF ss
<1>7. FlattenSeq(ss) \in Seq(CommandLines) /\ ToSet(FlattenSeq(ss)) = UNION {ToSet(ss[i]) : i \in 1 .. 4}
  BY <1>6, FlattenType, ToSetFlatten
<1>8. \A x : ToSet(<<x>>) = {x}
  BY DEF ToSet
<1>9. ToSet(<< >>) = {}
  BY DEF ToSet
<1>10. \A i \in 1 .. 4 : ToSet(ss[i]) = IF None(i) THEN {} ELSE {Line(i)}
  BY <1>6, <1>8, <1>9
<1>11. ASSUME NEW line \in ToSet(FlattenSeq(ss))
       PROVE  \E x \in OptNames : ~Unwritten(c, "opts", x) /\ line = LineFor(c, "opts", x)
  <2>1. PICK i \in 1 .. 4 : line \in ToSet(ss[i])
    BY <1>7
  <2>2. ~None(i) /\ line = Line(i)
    BY <1>10, <2>1
  <2>3. global_pref[i].name \in OptNames
    BY Preferences
  <2>. QED  BY <1>4, <1>5, <2>2, <2>3
<1>12. ASSUME NEW x \in OptNames, ~Unwritten(c, "opts", x)
       PROVE  LineFor(c, "opts", x) \in ToSet(FlattenSeq(ss))
  <2>1. PICK i \in 1 .. 4 : global_pref[i].name = x
    BY Preferences
  <2>2. ~None(i) /\ Line(i) = LineFor(c, "opts", x)
    BY <1>4, <1>5, <1>12, <2>1
  <2>3. Line(i) \in ToSet(ss[i])
    BY <1>10, <2>2
  <2>. QED  BY <1>7, <2>2, <2>3
<1>. QED  BY <1>2, <1>7, <1>11, <1>12 DEF opts

\* The keys are words.
LEMMA KeysAreWords == Keys \subseteq Words
<1>1. NamedKeys \subseteq Words
  <2>1. Len(keyval) = 29
    BY DEF keyval
  <2>. QED  BY <2>1, OwnWordsAre DEF NamedKeys
<1>2. {Codes[w] : w \in DOMAIN Codes} \subseteq Words
  <2>1. \A w \in DOMAIN Codes : Codes[w] \in {"q", "0x7f", "F10"}
    BY DEF Codes
  <2>2. keyval[16] = "F10"
    BY DEF keyval
  <2>3. "q" \in Words /\ "0x7f" \in Words
    BY OwnWordsAre, Zenon
  <2>4. "F10" \in Words
    <3>1. 16 \in 1 .. 29
      OBVIOUS
    <3>. QED  BY <2>2, <3>1, OwnWordsAre
  <2>. QED  BY <2>1, <2>3, <2>4
<1>3. {"RETURN", "0x7f", "BACKSPACE"} \subseteq Words
  <2>1. keyval[24] = "RETURN" /\ keyval[1] = "BACKSPACE"
    BY DEF keyval
  <2>2. keyval[24] \in Words /\ keyval[1] \in Words
    <3>1. 24 \in 1 .. 29 /\ 1 \in 1 .. 29
      OBVIOUS
    <3>. QED  BY <3>1, OwnWordsAre
  <2>. QED  BY <2>1, <2>2, OwnWordsAre
<1>. QED  BY <1>1, <1>2, <1>3 DEF Keys

\* A line that begins with some words and goes on with a line.
LEMMA Behind ==
    ASSUME NEW a \in Seq(Words), NEW line \in CommandLines
    PROVE  a \o line \in CommandLines
<1>1. line \in Seq(Words) /\ Len(line) > 0 /\ Len(line) \in Nat
  BY LineParts
<1>2. a \o line \in Seq(Words) /\ Len(a \o line) = Len(a) + Len(line) /\ Len(a) \in Nat
  BY <1>1, ConcatSeq
<1>3. Len(a \o line) > 0
  BY <1>1, <1>2
<1>4. \A s \in Seq(Words) : Len(s) > 0 => s # << >>
  OBVIOUS
<1>. QED  BY <1>2, <1>3, <1>4, Zenon DEF CommandLines

\* The lines of the aliases.
LEMMA AliasLinesAre ==
    ASSUME NEW c \in Configs, NEW order \in SetToSeqs(DOMAIN c.alias)
    PROVE  /\ AliasLines(c.alias, order) \in Seq(CommandLines)
           /\ ToSet(AliasLines(c.alias, order)) = {LineFor(c, "alias", x) : x \in DOMAIN c.alias}
<1> DEFINE D == DOMAIN c.alias
           n == Cardinality(D)
           f == AliasLines(c.alias, order)
<1>1. c.alias \in Tables(Words)
  BY DEF Configs
<1>2. D \subseteq Words /\ IsFiniteSet(D) /\ \A x \in D : c.alias[x] \in CommandLines
  BY <1>1, TableParts
<1>3. n \in Nat /\ DOMAIN order = 1 .. n /\ ToSet(order) = D
  BY <1>2, OrderOf, FS_CardinalityType
<1>. HIDE DEF n, D
<1>4. f = [i \in 1 .. n |-> <<"alias", order[i]>> \o c.alias[order[i]]]
  BY <1>3 DEF AliasLines
<1>. HIDE DEF f
<1>5. \A x : LineFor(c, "alias", x) = <<"alias", x>> \o c.alias[x]
  BY DEF LineFor
<1>6. \A i \in 1 .. n : order[i] \in D
  BY <1>3 DEF ToSet
<1>7. \A x \in D : LineFor(c, "alias", x) \in CommandLines
  <2>1. ASSUME NEW x \in D PROVE <<"alias", x>> \o c.alias[x] \in CommandLines
    <3>1. "alias" \in Words /\ x \in Words
      BY <1>2, OwnWordsAre
    <3>2. <<"alias", x>> \in Seq(Words)
      BY <3>1
    <3>. QED  BY <1>2, <3>2, Behind
  <2>. QED  BY <1>5, <2>1
<1>8. \A i \in 1 .. n : f[i] = LineFor(c, "alias", order[i])
  BY <1>4, <1>5
<1>9. f \in [1 .. n -> CommandLines]
  BY <1>4, <1>6, <1>7, <1>8
<1>10. f \in Seq(CommandLines)
  BY <1>3, <1>9
<1>11. ToSet(f) = {LineFor(c, "alias", x) : x \in D}
  BY <1>3, <1>6, <1>8, <1>9 DEF ToSet
<1>. QED  BY <1>10, <1>11 DEF f, D

\* The lines of the bindings of a set.
LEMMA BindLinesAre ==
    ASSUME NEW binds \in Tables(Keys), NEW flag \in {<< >>, <<"-buddy">>}
    PROVE  /\ BindLines(binds, flag) \in Seq(CommandLines)
           /\ ToSet(BindLines(binds, flag)) =
                {<<"bind">> \o flag \o <<x>> \o binds[x] : x \in DOMAIN binds}
<1> DEFINE D == DOMAIN binds
           n == Cardinality(D)
           order == SetToSeq(D)
           Line(x) == <<"bind">> \o flag \o <<x>> \o binds[x]
           f == BindLines(binds, flag)
<1>1. D \subseteq Words /\ IsFiniteSet(D) /\ \A x \in D : binds[x] \in CommandLines
  BY TableParts, KeysAreWords
<1>2. n \in Nat /\ DOMAIN order = 1 .. n /\ ToSet(order) = D
  BY <1>1, InSomeOrder, OrderOf, FS_CardinalityType
<1>3. f = [i \in DOMAIN order |-> Line(order[i])]
  BY DEF BindLines
<1>. HIDE DEF n, D, order, f
<1>4. \A x \in D : Line(x) \in CommandLines
  <2>1. ASSUME NEW x \in D PROVE Line(x) \in CommandLines
    <3>1. "bind" \in Words /\ x \in Words /\ "-buddy" \in Words
      BY <1>1, OwnWordsAre
    <3>2. <<"bind">> \in Seq(Words) /\ <<x>> \in Seq(Words) /\ flag \in Seq(Words)
      <4>1. \A w \in Words : <<w>> \in Seq(Words)
        OBVIOUS
      <4>2. << >> \in Seq(Words)
        OBVIOUS
      <4>. QED  BY <3>1, <4>1, <4>2
    <3>3. <<"bind">> \o flag \in Seq(Words)
      BY <3>2, ConcatSeq
    <3>4. (<<"bind">> \o flag) \o <<x>> \in Seq(Words)
      BY <3>2, <3>3, ConcatSeq
    <3>. QED  BY <1>1, <3>4, Behind
  <2>. QED  BY <2>1
<1>. HIDE DEF Line
<1>5. \A i \in 1 .. n : order[i] \in D /\ f[i] = Line(order[i])
  BY <1>2, <1>3 DEF ToSet
<1>6. f \in [1 .. n -> CommandLines]
  BY <1>2, <1>3, <1>4, <1>5
<1>7. f \in Seq(CommandLines)
  BY <1>2, <1>6
<1>8. ToSet(f) = {Line(x) : x \in D}
  BY <1>2, <1>5, <1>6 DEF ToSet
<1>. QED  BY <1>7, <1>8 DEF f, D, Line

\* The lines of the file that is written: the entries of the configuration.
LEMMA LinesAre ==
    ASSUME NEW c \in Configs, NEW order \in SetToSeqs(DOMAIN c.alias)
    PROVE  /\ Lines(c, order) \in Seq(CommandLines)
           /\ \A line \in ToSet(Lines(c, order)) :
                 \E p \in Parts : \E x \in DOMAIN c[p] : ~Unwritten(c, p, x) /\ line = LineFor(c, p, x)
           /\ \A p \in Parts : \A x \in DOMAIN c[p] : ~Unwritten(c, p, x) =>
                 LineFor(c, p, x) \in ToSet(Lines(c, order))
<1> DEFINE o == OptionLines(c.opts)
           a == AliasLines(c.alias, order)
           m == BindLines(c.main, << >>)
           b == BindLines(c.blist, <<"-buddy">>)
<1>1. c.main \in Tables(Keys) /\ c.blist \in Tables(Keys) /\ c.opts \in Opts
  BY DEF Configs
<1>2. DOMAIN c.opts = OptNames
  BY <1>1, OptionTypes DEF Opts
<1>3. /\ o \in Seq(CommandLines) /\ a \in Seq(CommandLines)
      /\ m \in Seq(CommandLines) /\ b \in Seq(CommandLines)
      /\ ToSet(a) = {LineFor(c, "alias", x) : x \in DOMAIN c.alias}
      /\ \A line \in ToSet(o) :
            \E x \in DOMAIN c.opts : ~Unwritten(c, "opts", x) /\ line = LineFor(c, "opts", x)
      /\ \A x \in DOMAIN c.opts : ~Unwritten(c, "opts", x) => LineFor(c, "opts", x) \in ToSet(o)
  BY <1>1, <1>2, OptionLinesAre, AliasLinesAre, BindLinesAre
<1>4. /\ ToSet(m) = {LineFor(c, "main", x) : x \in DOMAIN c.main}
      /\ ToSet(b) = {LineFor(c, "blist", x) : x \in DOMAIN c.blist}
  <2> DEFINE M(x) == <<"bind">> \o << >> \o <<x>> \o c.main[x]
             B(x) == <<"bind">> \o <<"-buddy">> \o <<x>> \o c.blist[x]
  <2>1. ToSet(m) = {M(x) : x \in DOMAIN c.main} /\ ToSet(b) = {B(x) : x \in DOMAIN c.blist}
    BY <1>1, BindLinesAre
  <2>2. \A x : LineFor(c, "main", x) = M(x) /\ LineFor(c, "blist", x) = B(x)
    BY DEF LineFor
  <2>. HIDE DEF m, b, M, B
  <2>3. ToSet(m) = {LineFor(c, "main", x) : x \in DOMAIN c.main}
    BY <2>1, <2>2
  <2>4. ToSet(b) = {LineFor(c, "blist", x) : x \in DOMAIN c.blist}
    BY <2>1, <2>2
  <2>. QED  BY <2>3, <2>4
<1>5. Lines(c, order) = ((o \o a) \o m) \o b
  BY DEF Lines
<1>. HIDE DEF o, a, m, b
<1> DEFINE u == o \o a
           v == u \o m
<1>6. u \in Seq(CommandLines) /\ ToSet(u) = ToSet(o) \cup ToSet(a)
  BY <1>3, ToSetConcat
<1>. HIDE DEF u
<1>7. v \in Seq(CommandLines) /\ ToSet(v) = ToSet(u) \cup ToSet(m)
  BY <1>3, <1>6, ToSetConcat
<1>. HIDE DEF v
<1>8. v \o b \in Seq(CommandLines) /\ ToSet(v \o b) = ToSet(v) \cup ToSet(b)
  BY <1>3, <1>7, ToSetConcat
<1>9. ToSet(Lines(c, order)) = ((ToSet(o) \cup ToSet(a)) \cup ToSet(m)) \cup ToSet(b)
  BY <1>5, <1>6, <1>7, <1>8 DEF u, v
<1>10. \A p, x : p # "opts" => ~Unwritten(c, p, x)
  BY DEF Unwritten
<1>11. ASSUME NEW line \in ToSet(Lines(c, order))
       PROVE  \E p \in Parts : \E x \in DOMAIN c[p] : ~Unwritten(c, p, x) /\ line = LineFor(c, p, x)
  <2>0. "opts" \in Parts /\ "alias" \in Parts /\ "main" \in Parts /\ "blist" \in Parts
    BY DEF Parts
  <2>1. CASE line \in ToSet(o)
    <3>1. PICK x \in DOMAIN c["opts"] : ~Unwritten(c, "opts", x) /\ line = LineFor(c, "opts", x)
      BY <1>3, <2>1
    <3>. QED  BY <2>0, <3>1
  <2>2. CASE line \in ToSet(a)
    <3>1. PICK x \in DOMAIN c["alias"] : line = LineFor(c, "alias", x)
      BY <1>3, <2>2
    <3>2. ~Unwritten(c, "alias", x)
      BY <1>10
    <3>. QED  BY <2>0, <3>1, <3>2
  <2>3. CASE line \in ToSet(m)
    <3>1. PICK x \in DOMAIN c["main"] : line = LineFor(c, "main", x)
      BY <1>4, <2>3
    <3>2. ~Unwritten(c, "main", x)
      BY <1>10
    <3>. QED  BY <2>0, <3>1, <3>2
  <2>4. CASE line \in ToSet(b)
    <3>1. PICK x \in DOMAIN c["blist"] : line = LineFor(c, "blist", x)
      BY <1>4, <2>4
    <3>2. ~Unwritten(c, "blist", x)
      BY <1>10
    <3>. QED  BY <2>0, <3>1, <3>2
  <2>. QED  BY <1>9, <2>1, <2>2, <2>3, <2>4
<1>12. ASSUME NEW p \in Parts, NEW x \in DOMAIN c[p], ~Unwritten(c, p, x)
       PROVE  LineFor(c, p, x) \in ToSet(Lines(c, order))
  <2>1. p = "opts" \/ p = "alias" \/ p = "main" \/ p = "blist"
    BY DEF Parts
  <2>. QED  BY <1>3, <1>4, <1>9, <1>12, <2>1
<1>. QED  BY <1>5, <1>8, <1>11, <1>12 DEF u, v

-----------------------------------------------------------------------------
(***************************************************************************)
(* Keys                                                                    *)
(***************************************************************************)

\* The ranges of bsearch.
Ranges == [low : 0 .. 29, high : 0 .. 29]

\* A turn leaves such a range.
LEMMA HalvedRange ==
    ASSUME NEW b \in Ranges, NEW i \in 1 .. 29
    PROVE  Halved(b, i) \in Ranges
<1> DEFINE at == (b.low + b.high) \div 2
<1>1. /\ [b EXCEPT !.high = at] \in Ranges \/ ~(b.low < b.high)
      /\ [b EXCEPT !.low = at + 1] \in Ranges \/ ~(b.low < b.high)
  <2>1. b.low \in 0 .. 29 /\ b.high \in 0 .. 29
    BY DEF Ranges
  <2>2. b.low < b.high => at \in 0 .. 28
    <3>1. \A x, y \in 0 .. 29 : x < y => (x + y) \div 2 \in 0 .. 28
      OBVIOUS
    <3>. QED  BY <2>1, <3>1
  <2>. HIDE DEF at
  <2>3. b.low < b.high => at \in 0 .. 29 /\ at + 1 \in 0 .. 29
    BY <2>2
  <2>. QED  BY <2>3 DEF Ranges
<1>. QED  BY <1>1, Zenon DEF Halved

\* The five turns of bsearch, from the whole table.
LEMMA BsearchTurns ==
    ASSUME NEW i \in 1 .. 29
    PROVE  \E s \in [0 .. 5 -> Ranges] :
              /\ s[0] = [low |-> 0, high |-> 29]
              /\ \A k \in 1 .. 5 : s[k] = Halved(s[k - 1], i)
              /\ Bsearch(i) <=> s[5].low < s[5].high
<1> DEFINE X == Ranges
           b == [low |-> 0, high |-> 29]
           G(x) == Halved(x, i)
           Turns(f) == f = [k \in 0 .. 5 |-> IF k = 0 THEN b ELSE G(f[k - 1])]
           g == [k \in 1 .. 5 |-> [x \in X |-> G(x)]]
           h == CHOOSE f : Turns(f)
<1>1. Bsearch(i) = (h[5].low < h[5].high)
  <2>1. Len(keyval) = 29
    BY DEF keyval
  <2>. QED  BY <2>1 DEF Bsearch
<1>2. h = CHOOSE f : Turns(f)
  OBVIOUS
<1>. HIDE DEF h
<1>3. b \in X /\ \A x \in X : G(x) \in X
  BY HalvedRange DEF Ranges
<1>. HIDE DEF G, X, b
<1>4. PICK s : s \in [0 .. 5 -> X] /\ IsLoop(s, b, g, 5)
  <2>1. TurnsIn(X, g, 5)
    BY <1>3 DEF TurnsIn
  <2>2. 5 \in Nat
    OBVIOUS
  <2>. HIDE DEF g
  <2>. QED  BY <1>3, <2>1, <2>2, LoopExists
<1>5. s[0] = b /\ \A k \in 1 .. 5 : s[k] = G(s[k - 1]) /\ s[k] \in X
  <2>1. ASSUME NEW k \in 1 .. 5 PROVE s[k] = G(s[k - 1]) /\ s[k] \in X
    <3>1. s[k] = g[k][s[k - 1]] /\ s[k - 1] \in X /\ s[k] \in X
      <4>. HIDE DEF g
      <4>. QED  BY <1>4 DEF IsLoop
    <3>. QED  BY <3>1
  <2>. QED  BY <1>4, <2>1 DEF IsLoop
<1>6. Turns(s)
  <2>1. s = [k \in 0 .. 5 |-> s[k]]
    BY <1>4
  <2>2. \A k \in 0 .. 5 : s[k] = IF k = 0 THEN b ELSE G(s[k - 1])
    BY <1>5
  <2>. QED  BY <2>1, <2>2
<1>7. Turns(h)
  <2>. HIDE DEF Turns
  <2>. QED  BY <1>2, <1>6
<1>8. \A k \in 0 .. 5 : h[k] = IF k = 0 THEN b ELSE G(h[k - 1])
  <2> DEFINE ff == [k \in 0 .. 5 |-> IF k = 0 THEN b ELSE G(h[k - 1])]
  <2>1. h = ff
    BY <1>7
  <2>2. \A k \in 0 .. 5 : ff[k] = IF k = 0 THEN b ELSE G(h[k - 1])
    OBVIOUS
  <2>. HIDE DEF ff
  <2>. QED  BY <2>1, <2>2
<1>9. h \in [0 .. 5 -> X] /\ h[0] = b /\ \A k \in 1 .. 5 : h[k] = G(h[k - 1])
  <2>1. h[0] = b /\ \A k \in 1 .. 5 : h[k] = G(h[k - 1])
    BY <1>8
  <2> DEFINE T == {k \in 0 .. 5 : h[k] \in X}
  <2>2. 0 \in T
    BY <1>3, <2>1
  <2>3. ASSUME NEW k \in 1 .. 5, k - 1 \in T PROVE k \in T
    BY <1>3, <2>1, <2>3
  <2>4. 5 \in Nat
    OBVIOUS
  <2>. HIDE DEF T
  <2>5. \A k \in 0 .. 5 : k \in T
    BY <2>2, <2>3, <2>4, UpToInduction
  <2>6. \A k \in 0 .. 5 : h[k] \in X
    BY <2>5 DEF T
  <2>7. h = [k \in 0 .. 5 |-> IF k = 0 THEN b ELSE G(h[k - 1])]
    BY <1>7
  <2>8. DOMAIN h = 0 .. 5
    BY <2>7
  <2>9. h = [k \in 0 .. 5 |-> h[k]]
    BY <2>7, <2>8
  <2>. QED  BY <2>1, <2>6, <2>9
<1>. QED  BY <1>1, <1>9, Zenon DEF G, X, b

\* It finds BACKSPACE and RETURN, and does not find F10, F11 and F12, which
\* the table has behind F9.
LEMMA BsearchFinds ==
    /\ Bsearch(1) /\ Bsearch(24)
    /\ \A i \in 16 .. 18 : ~Bsearch(i)
<1> DEFINE R(l, h) == [low |-> l, high |-> h]
<1>1. Bsearch(1)
  <2>1. PICK s \in [0 .. 5 -> Ranges] :
           /\ s[0] = R(0, 29) /\ \A k \in 1 .. 5 : s[k] = Halved(s[k - 1], 1)
           /\ Bsearch(1) <=> s[5].low < s[5].high
    BY BsearchTurns
  <2>2. s[1] = R(0, 14)
    BY <2>1, SMTT(30) DEF Halved, Rank
  <2>3. s[2] = R(0, 7)
    BY <2>1, <2>2, SMTT(30) DEF Halved, Rank
  <2>4. s[3] = R(0, 3)
    BY <2>1, <2>3, SMTT(30) DEF Halved, Rank
  <2>5. s[4] = R(0, 1)
    BY <2>1, <2>4, SMTT(30) DEF Halved, Rank
  <2>6. s[5] = R(0, 1)
    BY <2>1, <2>5, SMTT(30) DEF Halved, Rank
  <2>. QED  BY <2>1, <2>6
<1>2. Bsearch(24)
  <2>1. PICK s \in [0 .. 5 -> Ranges] :
           /\ s[0] = R(0, 29) /\ \A k \in 1 .. 5 : s[k] = Halved(s[k - 1], 24)
           /\ Bsearch(24) <=> s[5].low < s[5].high
    BY BsearchTurns
  <2>2. s[1] = R(15, 29)
    BY <2>1, SMTT(30) DEF Halved, Rank
  <2>3. s[2] = R(23, 29)
    BY <2>1, <2>2, SMTT(30) DEF Halved, Rank
  <2>4. s[3] = R(23, 26)
    BY <2>1, <2>3, SMTT(30) DEF Halved, Rank
  <2>5. s[4] = R(23, 24)
    BY <2>1, <2>4, SMTT(30) DEF Halved, Rank
  <2>6. s[5] = R(23, 24)
    BY <2>1, <2>5, SMTT(30) DEF Halved, Rank
  <2>. QED  BY <2>1, <2>6
<1>3. ASSUME NEW i \in 16 .. 18 PROVE ~Bsearch(i)
  <2>1. PICK s \in [0 .. 5 -> Ranges] :
           /\ s[0] = R(0, 29) /\ \A k \in 1 .. 5 : s[k] = Halved(s[k - 1], i)
           /\ Bsearch(i) <=> s[5].low < s[5].high
    BY BsearchTurns
  <2>2. s[1] = R(0, 14)
    BY <2>1, SMTT(30) DEF Halved, Rank
  <2>3. s[2] = R(0, 7)
    BY <2>1, <2>2, SMTT(30) DEF Halved, Rank
  <2>4. s[3] = R(4, 7)
    BY <2>1, <2>3, SMTT(30) DEF Halved, Rank
  <2>5. s[4] = R(6, 7)
    BY <2>1, <2>4, SMTT(30) DEF Halved, Rank
  <2>6. s[5] = R(7, 7)
    BY <2>1, <2>5, SMTT(30) DEF Halved, Rank
  <2>. QED  BY <2>1, <2>6
<1>. QED  BY <1>1, <1>2, <1>3

\* The keys that /bind finds under the names they are written by.
LEMMA KeysAre ==
    /\ \A k \in Keys : (\E i \in 1 .. 29 : keyval[i] = k) \/ k = "q" \/ k = "0x7f"
    /\ \A k \in Keys \ {"F10"} : KeyOf(k) = k /\ k # NoKey /\ k # "F11" /\ k # "F12"
    /\ KeyOf("F10") = NoKey
    /\ "-buddy" \notin Keys /\ "-main" \notin Keys
<1>1. /\ Len(keyval) = 29 /\ keyval[1] = "BACKSPACE" /\ keyval[24] = "RETURN"
      /\ keyval[16] = "F10" /\ keyval[17] = "F11" /\ keyval[18] = "F12"
  BY DEF keyval
<1>2. \A i \in 1 .. 29 : /\ keyval[i] # "-buddy" /\ keyval[i] # "-main" /\ keyval[i] # NoKey
                         /\ keyval[i] = "F10" => i = 16
                         /\ keyval[i] = "F11" => i = 17
                         /\ keyval[i] = "F12" => i = 18
  BY DEF keyval, NoKey
<1>3. {Codes[w] : w \in DOMAIN Codes} = {"q", "0x7f", "F10"} /\ DOMAIN Codes = {"q", "0x7f", "0x112"}
      /\ Codes["q"] = "q" /\ Codes["0x7f"] = "0x7f"
  BY DEF Codes
<1>. HIDE DEF keyval
<1>4. "BACKSPACE" \in NamedKeys /\ "RETURN" \in NamedKeys
  BY <1>1, BsearchFinds DEF NamedKeys
<1>5. \A k \in NamedKeys : \E i \in 1 .. 29 : keyval[i] = k /\ Bsearch(i)
  BY <1>1 DEF NamedKeys
<1>6. "F10" \notin NamedKeys /\ "F11" \notin NamedKeys /\ "F12" \notin NamedKeys
  BY <1>2, <1>5, BsearchFinds
<1>7. \A k \in Keys : k \in NamedKeys \/ k = "q" \/ k = "0x7f" \/ k = "F10"
  BY <1>3, <1>4 DEF Keys
<1>8. \A k \in Keys : (\E i \in 1 .. 29 : keyval[i] = k) \/ k = "q" \/ k = "0x7f"
  <2>1. 16 \in 1 .. 29
    OBVIOUS
  <2>. QED  BY <1>1, <1>5, <1>7, <2>1
<1>9. KeyOf("F10") = NoKey
  BY <1>3, <1>6 DEF KeyOf
<1>10. ASSUME NEW k \in Keys \ {"F10"} PROVE KeyOf(k) = k /\ k # NoKey /\ k # "F11" /\ k # "F12"
  <2>1. CASE k \in NamedKeys
    <3>1. KeyOf(k) = k
      BY <2>1 DEF KeyOf
    <3>. QED  BY <1>2, <1>5, <1>6, <2>1, <3>1
  <2>2. CASE k \notin NamedKeys
    <3>1. k = "q" \/ k = "0x7f"
      BY <1>7, <2>2
    <3>2. KeyOf(k) = k
      BY <1>3, <2>2, <3>1 DEF KeyOf
    <3>. QED  BY <3>1, <3>2 DEF NoKey
  <2>. QED  BY <2>1, <2>2
<1>11. "-buddy" \notin Keys /\ "-main" \notin Keys
  BY <1>2, <1>8
<1>. QED  BY <1>8, <1>9, <1>10, <1>11

-----------------------------------------------------------------------------
(***************************************************************************)
(* What a restart restores                                                 *)
(***************************************************************************)

\* What is expected of the file, over what there is without it: each entry of
\* a configuration between the two is the one or the other.
Aim(base, r) == [opts |-> [o \in OptNames |-> Expected(o, base, r)], alias |-> saved.alias,
                 main |-> Found(saved.main), blist |-> Found(saved.blist)]
BetweenTables(f, want, base) ==
    /\ DOMAIN base \subseteq DOMAIN f
    /\ \A x \in DOMAIN f : \/ x \in DOMAIN want /\ f[x] = want[x]
                           \/ x \in DOMAIN base /\ f[x] = base[x]
Between(d, base, r) ==
    d \in Configs /\ \A p \in Parts : BetweenTables(d[p], Aim(base, r)[p], base[p])

\* A line sets an entry, and leaves the others.
SetsEntry(d, e, p, x, v) ==
    e[p] = With(d[p], x, v) /\ \A q \in Parts \ {p} : e[q] = d[q]

\* The entries that are written and are not found again.
Lost(p, x) ==
    \/ p = "opts" /\ x = "CMDCHARS" /\ saved.opts.CMDCHARS = " "
    \/ p \in {"main", "blist"} /\ x = "F10"

\* The command character begins no line of the file.
Unspelt(d) == \A w \in {"set", "alias", "bind"} : FirstLetter(w) # d.opts.CMDCHARS

\* A line of the file whose first word is no alias and no command character is
\* run as it is.
LEMMA ReadAsWritten ==
    ASSUME NEW d \in Configs, NEW r, NEW line \in CommandLines,
           Head(line) \in {"set", "alias", "bind"},
           Head(line) \notin DOMAIN d.alias, Unspelt(d)
    PROVE  ReadLine(d, line, r) =
             CASE Head(line) = "set"   -> CmdSet(d, Tail(line), r)
               [] Head(line) = "alias" -> CmdAlias(d, Tail(line))
               [] Head(line) = "bind"  -> CmdBind(d, Tail(line))
<1> DEFINE ch == d.opts.CMDCHARS
<1>1. WithoutCmdchar(line, ch) = line
  <2>1. Head(line) # "" /\ FirstLetter(Head(line)) # ch
    BY DEF Unspelt
  <2>. HIDE DEF ch
  <2>. QED  BY <2>1 DEF WithoutCmdchar, First
<1>2. Resolve(d.alias, line) = [fits |-> TRUE, words |-> line]
  BY ResolveLine DEF Configs
<1>3. ReadLine(d, line, r) = RunCommand(d, line, r)
  BY <1>1 DEF ReadLine
<1>4. CASE Head(line) = "set"
  BY <1>2, <1>3, <1>4 DEF RunCommand
<1>5. CASE Head(line) = "alias"
  BY <1>2, <1>3, <1>5 DEF RunCommand
<1>6. CASE Head(line) = "bind"
  BY <1>2, <1>3, <1>6 DEF RunCommand
<1>. QED  BY <1>4, <1>5, <1>6

\* The line of an option is read as the value that is expected.
LEMMA OptionRead ==
    ASSUME saved \in Configs, NEW base \in Configs, NEW d \in Configs, NEW r \in 1 .. 9,
           NEW x \in OptNames, ~Unwritten(saved, "opts", x),
           {"set", "alias", "bind"} \cap DOMAIN d.alias = {}, Unspelt(d)
    PROVE  LET e == ReadLine(d, LineFor(saved, "opts", x), r) IN
           IF Lost("opts", x) THEN e = d ELSE SetsEntry(d, e, "opts", x, Aim(base, r).opts[x])
<1> DEFINE v == saved.opts[x]
           line == OptionLine(PrefOf(x), v)
           e == ReadLine(d, line, r)
           w == Aim(base, r).opts[x]
<1>1. LineFor(saved, "opts", x) = line
  BY DEF LineFor
<1>2. PICK i \in 1 .. 4 : global_pref[i].name = x
  BY Preferences
<1>3. PrefOf(x) = global_pref[i] /\ saved.opts \in Opts /\ d.opts \in Opts
  BY <1>2, Preferences DEF Configs
<1>4. line \in CommandLines
  BY <1>2, <1>3, OptionLineType
<1>5. w = Expected(x, base, r)
  BY DEF Aim
<1>6. x \in Words /\ "set" \in Words /\ "TRUE" \in Words /\ "FALSE" \in Words
  BY OwnWordsAre
<1>7. x \in DOMAIN d.opts
  BY <1>3, OptionTypes DEF Opts
<1>8. ASSUME NEW t \in CommandLines, line = <<"set">> \o (<<x>> \o t), Accepts(x, t),
             NewValue(x, t, d.opts[x], r) = w
      PROVE  SetsEntry(d, e, "opts", x, w)
  <2>1. t \in Seq(Words) /\ Len(t) > 0 /\ Len(t) \in Nat
    BY LineParts
  <2> DEFINE args == <<x>> \o t
  <2>2. args \in Seq(Words) /\ Head(args) = x /\ Tail(args) = t /\ Len(args) = Len(t) + 1 /\ args # << >>
    BY <1>6, <2>1, LineOf DEF CommandLines
  <2>. HIDE DEF args
  <2>3. Head(line) = "set" /\ Tail(line) = args
    BY <1>6, <1>8, <2>2, LineOf DEF args
  <2>4. e = CmdSet(d, args, r)
    BY <1>4, <2>3, ReadAsWritten
  <2>5. args[1] = x /\ ~(Len(args) < 2)
    BY <2>1, <2>2
  <2>6. e = [d EXCEPT !.opts[x] = NewValue(x, t, @, r)]
    BY <1>8, <2>2, <2>4, <2>5 DEF CmdSet
  <2>7. e = [d EXCEPT !.opts[x] = w]
    BY <1>8, <2>6
  <2>8. With(d.opts, x, w) = [d.opts EXCEPT ![x] = w]
    BY <1>7 DEF With
  <2>. HIDE DEF e, w
  <2>9. e = [d EXCEPT !.opts = With(d.opts, x, w)]
    BY <2>7, <2>8
  <2>. QED  BY <2>9 DEF SetsEntry, Parts, Configs
<1>9. \A b \in Words : /\ <<"set", x, b>> = <<"set">> \o (<<x>> \o <<b>>)
                      /\ <<b>> \in CommandLines /\ Len(<<b>>) = 1 /\ <<b>>[1] = b
  <2>1. \A b \in Words : <<b>> \in Seq(Words) /\ <<b>> # << >>
    OBVIOUS
  <2>2. \A b : Len(<<b>>) = 1 /\ <<b>>[1] = b /\ <<"set", x, b>> = <<"set">> \o (<<x>> \o <<b>>)
    OBVIOUS
  <2>. QED  BY <2>1, <2>2 DEF CommandLines
<1>10. CASE i = 1
  <2> DEFINE b == IF v THEN "TRUE" ELSE "FALSE"
  <2>1. x = "AUTO_RECONNECT" /\ global_pref[i].type = "bool"
    BY <1>2, <1>10, Preferences
  <2>2. v \in BOOLEAN /\ TypeOf(x) = "bool"
    BY <1>3, <2>1, OptionTypes DEF Opts
  <2>3. line = <<"set", x, b>>
    BY <1>2, <1>3, <2>1 DEF OptionLine
  <2>4. w = v
    BY <1>5, <2>2 DEF Expected
  <2>5. b \in Words /\ b # "TOGGLE" /\ b \in Yes \cup No /\ (b \in Yes <=> v)
    BY <1>6, <2>2 DEF Yes, No
  <2>. HIDE DEF b
  <2>6. Accepts(x, <<b>>)
    BY <1>9, <2>2, <2>5 DEF Accepts
  <2>7. NewValue(x, <<b>>, d.opts[x], r) = (b \in Yes)
    BY <1>9, <2>2, <2>5 DEF NewValue
  <2>8. (b \in Yes) = v
    <3>1. (b \in Yes) \in BOOLEAN
      OBVIOUS
    <3>. QED  BY <2>2, <2>5, <3>1
  <2>9. <<b>> \in CommandLines /\ line = <<"set">> \o (<<x>> \o <<b>>)
        /\ NewValue(x, <<b>>, d.opts[x], r) = w
    BY <1>9, <2>3, <2>4, <2>5, <2>7, <2>8
  <2>10. SetsEntry(d, e, "opts", x, w)
    <3>. HIDE DEF line, w, e
    <3>. QED  BY <1>8, <2>6, <2>9
  <2>11. ~Lost("opts", x)
    BY <2>1 DEF Lost
  <2>. QED  BY <1>1, <2>10, <2>11
<1>11. CASE i = 2
  <2>1. x = "CMDCHARS" /\ global_pref[i].type = "char"
    BY <1>2, <1>11, Preferences
  <2>2. v \in Characters /\ TypeOf(x) = "char" /\ v = saved.opts.CMDCHARS
    BY <1>3, <2>1, OptionTypes DEF Opts
  <2>6. v \in Words /\ v # "" /\ Char(v) = v
    BY <2>2, CharactersAre
  <2>3. line = IF v = " " THEN <<"set", x>> ELSE <<"set", x, v>>
    BY <1>2, <1>3, <2>1 DEF OptionLine
  <2>4. CASE v = " "
    <3> DEFINE t == <<x>>
    <3>1. line = <<"set">> \o t
      <4>1. <<"set">> \in Seq(Words) /\ <<x>> \in Seq(Words) /\ <<"set", x>> = <<"set">> \o <<x>>
        BY <1>6
      <4>2. line = <<"set", x>>
        BY <2>3, <2>4
      <4>. HIDE DEF line
      <4>. QED  BY <4>1, <4>2
    <3>2. t \in Seq(Words) /\ Len(t) = 1
      BY <1>6
    <3>3. Head(line) = "set" /\ Tail(line) = t
      <4>. HIDE DEF line, t
      <4>1. Head(<<"set">> \o t) = "set" /\ Tail(<<"set">> \o t) = t
        BY <1>6, <3>2, LineOf
      <4>. QED  BY <3>1, <4>1
    <3>4. e = CmdSet(d, t, r)
      <4>1. Head(line) \in {"set", "alias", "bind"} /\ Head(line) \notin DOMAIN d.alias
        BY <3>3
      <4>2. line \in CommandLines
        BY <1>4
      <4>. HIDE DEF line, t
      <4>. QED  BY <3>3, <4>1, <4>2, ReadAsWritten
    <3>5. e = d
      <4>. HIDE DEF t, e
      <4>. QED  BY <3>2, <3>4 DEF CmdSet
    <3>6. Lost("opts", x)
      BY <2>1, <2>2, <2>4 DEF Lost
    <3>. QED  BY <1>1, <3>5, <3>6
  <2>5. CASE v # " "
    <3>1. w = v
      BY <1>5, <2>2, <2>5 DEF Expected
    <3>2. Accepts(x, <<v>>)
      <4>1. Head(<<v>>) = v
        OBVIOUS
      <4>2. First(<<v>>) # ""
        <5>. HIDE DEF v
        <5>. QED  BY <2>6, <4>1, LettersAssumption DEF First
      <4>. QED  BY <2>2, <4>2 DEF Accepts
    <3>3. NewValue(x, <<v>>, d.opts[x], r) = v
      BY <1>9, <2>2, <2>6 DEF NewValue
    <3>4. line = <<"set">> \o (<<x>> \o <<v>>) /\ <<v>> \in CommandLines
      BY <1>9, <2>3, <2>5, <2>6
    <3>5. SetsEntry(d, e, "opts", x, w)
      <4>. HIDE DEF line, w, e
      <4>. QED  BY <1>8, <3>1, <3>2, <3>3, <3>4
    <3>6. ~Lost("opts", x)
      BY <2>2, <2>5 DEF Lost
    <3>. QED  BY <1>1, <3>5, <3>6
  <2>. QED  BY <2>4, <2>5
<1>12. CASE i = 3
  <2>1. x = "PROMPT" /\ global_pref[i].type = "str"
    BY <1>2, <1>12, Preferences
  <2>2. v \in Seq(Words) /\ TypeOf(x) = "str" /\ v # << >>
    BY <1>3, <2>1, OptionTypes DEF Opts, Unwritten
  <2>3. line = <<"set", x>> \o v
    BY <1>2, <1>3, <2>1 DEF OptionLine
  <2>4. line = <<"set">> \o (<<x>> \o v)
    <3>1. <<"set">> \in Seq(Words) /\ <<x>> \in Seq(Words) /\ <<"set", x>> = <<"set">> \o <<x>>
      BY <1>6
    <3>2. (<<"set">> \o <<x>>) \o v = <<"set">> \o (<<x>> \o v)
      BY <2>2, <3>1, ConcatAssociative
    <3>. QED  BY <2>3, <3>1, <3>2
  <2>5. w = v
    BY <1>5, <2>2 DEF Expected
  <2>6. Accepts(x, v) /\ NewValue(x, v, d.opts[x], r) = v
    BY <2>2 DEF Accepts, NewValue
  <2>7. v \in CommandLines
    BY <2>2 DEF CommandLines
  <2>8. SetsEntry(d, e, "opts", x, w)
    <3>. HIDE DEF line, w, e, v
    <3>. QED  BY <1>8, <2>4, <2>5, <2>6, <2>7
  <2>9. ~Lost("opts", x)
    BY <2>1 DEF Lost
  <2>. QED  BY <1>1, <2>8, <2>9
<1>13. CASE i = 4
  <2> DEFINE b == Digits[v + 1]
  <2>1. x = "SCROLLBUF_LEN" /\ global_pref[i].type = "int"
    BY <1>2, <1>13, Preferences
  <2>2. v \in 0 .. 9 /\ TypeOf(x) = "int"
    BY <1>3, <2>1, OptionTypes DEF Opts
  <2>3. line = <<"set", x, b>>
    BY <1>2, <1>3, <2>1 DEF OptionLine
  <2>4. w = Max({v, r})
    BY <1>5, <2>2 DEF Expected
  <2>5. b \in Words /\ b \in ToSet(Digits) /\ Number(b) = v
    BY <2>2, OwnWordsAre, NumberOf
  <2>. HIDE DEF b
  <2>6. Accepts(x, <<b>>)
    BY <1>9, <2>2, <2>5 DEF Accepts
  <2>7. NewValue(x, <<b>>, d.opts[x], r) = Max({v, r})
    BY <1>9, <2>2, <2>5 DEF NewValue
  <2>8. <<b>> \in CommandLines /\ line = <<"set">> \o (<<x>> \o <<b>>)
    BY <1>9, <2>3, <2>5
  <2>9. SetsEntry(d, e, "opts", x, w)
    <3>. HIDE DEF line, w, e
    <3>. QED  BY <1>8, <2>4, <2>6, <2>7, <2>8
  <2>10. ~Lost("opts", x)
    BY <2>1 DEF Lost
  <2>. QED  BY <1>1, <2>9, <2>10
<1>. QED  BY <1>10, <1>11, <1>12, <1>13

\* The line of an alias is read as the alias.
LEMMA AliasRead ==
    ASSUME saved \in Configs, NEW base \in Configs, NEW d \in Configs, NEW r \in 1 .. 9,
           NEW x \in DOMAIN saved.alias,
           {"set", "alias", "bind"} \cap DOMAIN d.alias = {}, Unspelt(d)
    PROVE  SetsEntry(d, ReadLine(d, LineFor(saved, "alias", x), r), "alias", x, Aim(base, r).alias[x])
<1> DEFINE a == saved.alias[x]
           line == LineFor(saved, "alias", x)
           args == <<x>> \o a
           e == ReadLine(d, line, r)
<1>1. a \in CommandLines /\ x \in Words /\ "alias" \in Words
  BY TableParts, OwnWordsAre DEF Configs
<1>2. a \in Seq(Words) /\ Len(a) > 0 /\ Len(a) \in Nat
  BY <1>1, LineParts
<1>3. line = <<"alias", x>> \o a
  BY DEF LineFor
<1>4. Aim(base, r).alias[x] = a
  BY DEF Aim
<1>. HIDE DEF a
<1>5. line = <<"alias">> \o args
  <2>1. <<"alias">> \in Seq(Words) /\ <<x>> \in Seq(Words) /\ <<"alias", x>> = <<"alias">> \o <<x>>
    BY <1>1
  <2>2. (<<"alias">> \o <<x>>) \o a = <<"alias">> \o (<<x>> \o a)
    BY <1>2, <2>1, ConcatAssociative
  <2>. QED  BY <1>3, <2>1, <2>2
<1>. HIDE DEF line
<1>6. args \in Seq(Words) /\ Head(args) = x /\ Tail(args) = a /\ Len(args) = Len(a) + 1 /\ args # << >>
  BY <1>1, <1>2, LineOf DEF CommandLines
<1>. HIDE DEF args
<1>7. line \in CommandLines /\ Head(line) = "alias" /\ Tail(line) = args
  BY <1>1, <1>5, <1>6, LineOf
<1>8. e = CmdAlias(d, args)
  BY <1>7, ReadAsWritten
<1>9. args[1] = x /\ ~(Len(args) < 2)
  BY <1>2, <1>6
<1>10. e = [d EXCEPT !.alias = With(d.alias, x, a)]
  BY <1>6, <1>8, <1>9 DEF CmdAlias, AliasAdd
<1>. HIDE DEF e
<1>11. SetsEntry(d, e, "alias", x, a)
  BY <1>10 DEF SetsEntry, Parts, Configs
<1>. QED  BY <1>4, <1>11 DEF e, line

\* The line of a binding is read as the binding, if its key is found by its
\* name.
LEMMA BindRead ==
    ASSUME saved \in Configs, NEW base \in Configs, NEW d \in Configs, NEW r \in 1 .. 9,
           NEW p \in {"main", "blist"}, NEW x \in DOMAIN saved[p],
           Bound(saved[p][x], d.opts.CMDCHARS) = saved[p][x],
           {"set", "alias", "bind"} \cap DOMAIN d.alias = {}, Unspelt(d)
    PROVE  LET e == ReadLine(d, LineFor(saved, p, x), r) IN
           IF Lost(p, x) THEN e = d
           ELSE x \in DOMAIN Aim(base, r)[p] /\ SetsEntry(d, e, p, x, Aim(base, r)[p][x])
<1> DEFINE a == saved[p][x]
           line == LineFor(saved, p, x)
           rest == <<x>> \o a
           args == IF p = "main" THEN rest ELSE <<"-buddy">> \o rest
           e == ReadLine(d, line, r)
<1>1. saved[p] \in Tables(Keys)
  BY DEF Configs
<1>2. a \in CommandLines /\ x \in Keys /\ x \in Words /\ "bind" \in Words /\ "-buddy" \in Words
  BY <1>1, TableParts, KeysAreWords, OwnWordsAre
<1>3. a \in Seq(Words) /\ Len(a) > 0 /\ Len(a) \in Nat
  BY <1>2, LineParts
<1>4. /\ p = "main" => line = ((<<"bind">> \o << >>) \o <<x>>) \o a
      /\ p = "blist" => line = ((<<"bind">> \o <<"-buddy">>) \o <<x>>) \o a
  BY DEF LineFor
<1>5. Aim(base, r)[p] = Found(saved[p])
  BY DEF Aim
<1>. HIDE DEF line, a
<1>6. rest \in CommandLines /\ rest \in Seq(Words) /\ Head(rest) = x /\ Tail(rest) = a /\ Len(rest) = Len(a) + 1
  BY <1>2, <1>3, LineOf DEF CommandLines
<1>7. line = <<"bind">> \o args
  <2>1. /\ <<"bind">> \in Seq(Words) /\ <<x>> \in Seq(Words) /\ <<"-buddy">> \in Seq(Words)
    <3>1. \A w \in Words : <<w>> \in Seq(Words)
      OBVIOUS
    <3>. QED  BY <1>2, <3>1
  <2>2. \A f, g, h \in Seq(Words) : (f \o g) \o h = f \o (g \o h)
    BY ConcatAssociative
  <2>3. <<"bind">> \o << >> = <<"bind">>
    BY <2>1, ConcatEmptySeq
  <2>4. CASE p = "main"
    <3>1. line = (<<"bind">> \o <<x>>) \o a
      BY <1>4, <2>3, <2>4
    <3>2. (<<"bind">> \o <<x>>) \o a = <<"bind">> \o (<<x>> \o a)
      BY <1>3, <2>1, <2>2
    <3>. QED  BY <2>4, <3>1, <3>2
  <2>5. CASE p = "blist"
    <3>1. <<"bind">> \o <<"-buddy">> \in Seq(Words)
      BY <2>1, ConcatSeq
    <3>2. ((<<"bind">> \o <<"-buddy">>) \o <<x>>) \o a = (<<"bind">> \o <<"-buddy">>) \o rest
      BY <1>3, <2>1, <2>2, <3>1
    <3>3. (<<"bind">> \o <<"-buddy">>) \o rest = <<"bind">> \o (<<"-buddy">> \o rest)
      <4>. HIDE DEF rest
      <4>. QED  BY <1>6, <2>1, <2>2
    <3>4. args = <<"-buddy">> \o rest
      BY <2>5
    <3>. HIDE DEF rest, args
    <3>. QED  BY <1>4, <2>5, <3>2, <3>3, <3>4
  <2>. QED  BY <2>4, <2>5
<1>8. args \in Seq(Words) /\ args # << >> /\ BindArgs(args) = rest /\ BindSet(args) = p
  <2>1. x # "-buddy" /\ x # "-main"
    BY <1>2, KeysAre
  <2>2. rest # << >>
    BY <1>6 DEF CommandLines
  <2>. HIDE DEF rest
  <2>3. CASE p = "main"
    <3>1. args = rest
      BY <2>3
    <3>. HIDE DEF args
    <3>. QED  BY <1>6, <2>1, <2>2, <2>3, <3>1 DEF BindArgs, BindSet
  <2>4. CASE p = "blist"
    <3>1. args = <<"-buddy">> \o rest
      BY <2>4
    <3>2. args \in CommandLines /\ Head(args) = "-buddy" /\ Tail(args) = rest
      BY <1>2, <1>6, <3>1, LineOf
    <3>. HIDE DEF args
    <3>3. args \in Seq(Words) /\ args # << >>
      BY <3>2 DEF CommandLines
    <3>. QED  BY <2>4, <3>2, <3>3 DEF BindArgs, BindSet
  <2>. QED  BY <2>3, <2>4
<1>. HIDE DEF args
<1>9. line \in CommandLines /\ Head(line) = "bind" /\ Tail(line) = args
  BY <1>2, <1>7, <1>8, LineOf
<1>10. e = CmdBind(d, args)
  BY <1>9, ReadAsWritten
<1>11. rest[1] = x /\ ~(Len(rest) < 2)
  <2>1. rest # << >>
    BY <1>6 DEF CommandLines
  <2>. HIDE DEF rest
  <2>. QED  BY <1>3, <1>6, <2>1
<1>. HIDE DEF rest, e
<1>12. CASE x = "F10"
  <2>1. e = d
    BY <1>8, <1>10, <1>11, <1>12, KeysAre DEF CmdBind
  <2>2. Lost(p, x)
    BY <1>12 DEF Lost
  <2>. QED  BY <2>1, <2>2 DEF e, line
<1>13. CASE x # "F10"
  <2>1. KeyOf(x) = x /\ x # NoKey /\ x # "F11" /\ x # "F12"
    BY <1>2, <1>13, KeysAre
  <2>2. e = [d EXCEPT ![p] = BindAdd(@, x, Bound(a, d.opts.CMDCHARS))]
    BY <1>6, <1>8, <1>10, <1>11, <2>1 DEF CmdBind
  <2>3. Bound(a, d.opts.CMDCHARS) = a
    BY DEF a
  <2>4. e = [d EXCEPT ![p] = With(d[p], x, a)]
    BY <2>2, <2>3 DEF BindAdd
  <2>5. SetsEntry(d, e, p, x, a)
    BY <2>4 DEF SetsEntry, Parts, Configs
  <2>6. x \in DOMAIN Found(saved[p]) /\ Found(saved[p])[x] = a
    BY <1>13, <2>1 DEF Found, a
  <2>7. ~Lost(p, x)
    BY <1>13 DEF Lost
  <2>. QED  BY <1>5, <2>5, <2>6, <2>7 DEF e, line
<1>. QED  BY <1>12, <1>13

\* The options are a table, too.
LEMMA OptsTable ==
    ASSUME NEW o \in Opts
    PROVE  DOMAIN o = OptNames /\ o = [x \in OptNames |-> o[x]]
<1>1. DOMAIN o = OptNames
  BY OptionTypes DEF Opts
<1>2. o = [x \in DOMAIN o |-> o[x]]
  BY DEF Opts
<1>. QED  BY <1>1, <1>2

\* A configuration between the one that was saved and the one without a file
\* reads the lines as they were written.
LEMMA BetweenReads ==
    ASSUME saved \in Configs, NEW base \in Configs, NEW r \in 1 .. 9, Readable(saved, base),
           NEW d, Between(d, base, r)
    PROVE  /\ d \in Configs
           /\ {"set", "alias", "bind"} \cap DOMAIN d.alias = {}
           /\ Unspelt(d)
           /\ \A p \in {"main", "blist"} : \A x \in DOMAIN saved[p] :
                 Bound(saved[p][x], d.opts.CMDCHARS) = saved[p][x]
<1> DEFINE aim == Aim(base, r)
           ch == d.opts.CMDCHARS
<1>1. d \in Configs /\ \A p \in Parts : BetweenTables(d[p], aim[p], base[p])
  BY DEF Between
<1>2. BetweenTables(d.alias, aim.alias, base.alias) /\ BetweenTables(d.opts, aim.opts, base.opts)
  BY <1>1 DEF Parts
<1>3. DOMAIN d.alias \subseteq DOMAIN saved.alias \cup DOMAIN base.alias
  <2>1. aim.alias = saved.alias
    BY DEF Aim
  <2>. HIDE DEF aim
  <2>. QED  BY <1>2, <2>1 DEF BetweenTables
<1>4. ch \in {saved.opts.CMDCHARS, base.opts.CMDCHARS}
  <2>1. "CMDCHARS" \in OptNames /\ TypeOf("CMDCHARS") = "char"
    BY OptionTypes
  <2>2. aim.opts["CMDCHARS"] = Expected("CMDCHARS", base, r)
    BY <2>1 DEF Aim
  <2>3. Expected("CMDCHARS", base, r) \in {saved.opts["CMDCHARS"], base.opts["CMDCHARS"]}
    BY <2>1 DEF Expected
  <2>4. "CMDCHARS" \in DOMAIN d.opts
    BY <1>1, <2>1, OptsTable DEF Configs
  <2>. HIDE DEF aim
  <2>. QED  BY <1>2, <2>2, <2>3, <2>4 DEF BetweenTables
<1>5. /\ Unspelt(d)
      /\ \A f \in {saved.main, saved.blist} : \A k \in DOMAIN f : Bound(f[k], ch) = f[k]
  BY <1>4 DEF Readable, Unspelt
<1>6. {"set", "alias", "bind"} \cap DOMAIN d.alias = {}
  BY <1>3 DEF Readable
<1>. QED  BY <1>1, <1>5, <1>6

\* A line of the file that was written is read.
LEMMA EntryRead ==
    ASSUME saved \in Configs, NEW base \in Configs, NEW r \in 1 .. 9, Readable(saved, base),
           NEW d, Between(d, base, r),
           NEW p \in Parts, NEW x \in DOMAIN saved[p], ~Unwritten(saved, p, x)
    PROVE  LET e == ReadLine(d, LineFor(saved, p, x), r) IN
           IF Lost(p, x) THEN e = d
           ELSE x \in DOMAIN Aim(base, r)[p] /\ SetsEntry(d, e, p, x, Aim(base, r)[p][x])
<1>1. /\ d \in Configs
      /\ {"set", "alias", "bind"} \cap DOMAIN d.alias = {}
      /\ Unspelt(d)
      /\ \A q \in {"main", "blist"} : \A y \in DOMAIN saved[q] :
            Bound(saved[q][y], d.opts.CMDCHARS) = saved[q][y]
  BY BetweenReads
<1>2. CASE p = "opts"
  <2>1. x \in OptNames
    BY <1>2, OptsTable DEF Configs
  <2>2. x \in DOMAIN Aim(base, r).opts
    BY <2>1 DEF Aim
  <2>. QED  BY <1>1, <1>2, <2>1, <2>2, OptionRead
<1>3. CASE p = "alias"
  <2>1. ~Lost(p, x)
    BY <1>3 DEF Lost
  <2>2. x \in DOMAIN Aim(base, r).alias
    BY <1>3 DEF Aim
  <2>. QED  BY <1>1, <1>3, <2>1, <2>2, AliasRead
<1>4. CASE p \in {"main", "blist"}
  <2>1. Bound(saved[p][x], d.opts.CMDCHARS) = saved[p][x]
    BY <1>1, <1>4
  <2>. QED  BY <1>1, <1>4, <2>1, SMTT(30), BindRead
<1>. QED  BY <1>2, <1>3, <1>4 DEF Parts

\* It leaves a configuration between the two, and what was read before.
LEMMA EntryKeeps ==
    ASSUME NEW base, NEW r, NEW d, Between(d, base, r), NEW e \in Configs,
           NEW p \in Parts, NEW x \in DOMAIN Aim(base, r)[p],
           SetsEntry(d, e, p, x, Aim(base, r)[p][x])
    PROVE  /\ Between(e, base, r)
           /\ x \in DOMAIN e[p] /\ e[p][x] = Aim(base, r)[p][x]
           /\ \A q \in Parts : \A y \in DOMAIN d[q] :
                 (y \in DOMAIN Aim(base, r)[q] /\ d[q][y] = Aim(base, r)[q][y])
                 => (y \in DOMAIN e[q] /\ e[q][y] = Aim(base, r)[q][y])
<1> DEFINE aim == Aim(base, r)
           v == aim[p][x]
<1>1. e[p] = With(d[p], x, v) /\ \A q \in Parts \ {p} : e[q] = d[q]
  BY DEF SetsEntry
<1>2. d \in Configs /\ \A q \in Parts : BetweenTables(d[q], aim[q], base[q])
  BY DEF Between
<1>3. x \in DOMAIN aim[p]
  OBVIOUS
<1>. HIDE DEF aim
<1>4. /\ DOMAIN e[p] = DOMAIN d[p] \cup {x}
      /\ \A y \in DOMAIN e[p] : e[p][y] = IF y = x THEN v ELSE d[p][y]
  BY <1>1 DEF With
<1>5. BetweenTables(e[p], aim[p], base[p])
  BY <1>2, <1>3, <1>4 DEF BetweenTables
<1>6. \A q \in Parts : BetweenTables(e[q], aim[q], base[q])
  BY <1>1, <1>2, <1>5
<1>7. Between(e, base, r)
  BY <1>6 DEF Between, aim
<1>8. x \in DOMAIN e[p] /\ e[p][x] = v
  BY <1>4
<1>9. ASSUME NEW q \in Parts, NEW y \in DOMAIN d[q], y \in DOMAIN aim[q], d[q][y] = aim[q][y]
      PROVE  y \in DOMAIN e[q] /\ e[q][y] = aim[q][y]
  BY <1>1, <1>4, <1>9
<1>. QED  BY <1>7, <1>8, <1>9 DEF aim

\* The whole file, line by line: after each the configuration is between the
\* two, and has what the lines up to it have set.
LEMMA FileRead ==
    ASSUME saved \in Configs, NEW base \in Configs, NEW r \in 1 .. 9, Readable(saved, base),
           NEW lines \in Seq(CommandLines),
           \A k \in 1 .. Len(lines) : \E p \in Parts : \E x \in DOMAIN saved[p] :
              ~Unwritten(saved, p, x) /\ lines[k] = LineFor(saved, p, x)
    PROVE  LET now == ReadConf(base, lines, r) IN
           /\ Between(now, base, r)
           /\ \A p \in Parts : \A x \in DOMAIN saved[p] :
                 (\E k \in 1 .. Len(lines) : lines[k] = LineFor(saved, p, x))
                    /\ ~Unwritten(saved, p, x) /\ ~Lost(p, x)
                 => x \in DOMAIN now[p] /\ x \in DOMAIN Aim(base, r)[p] /\ now[p][x] = Aim(base, r)[p][x]
<1> DEFINE n == Len(lines)
           h == Reading(base, lines, r)
           aim == Aim(base, r)
           Set(d, p, x) == x \in DOMAIN d[p] /\ x \in DOMAIN aim[p] /\ d[p][x] = aim[p][x]
<1>1. /\ h[0] = base
      /\ \A k \in 1 .. n : h[k] = ReadLine(h[k - 1], lines[k], r)
      /\ \A k \in 0 .. n : h[k] \in Configs
  BY ReadingTurns
<1>2. n \in Nat /\ ReadConf(base, lines, r) = h[n]
  BY LenProperties DEF ReadConf
<1>. HIDE DEF h, n
<1>3. Between(base, base, r)
  BY DEF Between, BetweenTables
<1>4. ASSUME NEW k \in 1 .. n, Between(h[k - 1], base, r)
      PROVE  /\ Between(h[k], base, r)
             /\ \A p \in Parts : \A x : Set(h[k - 1], p, x) => Set(h[k], p, x)
             /\ \A p \in Parts : \A x \in DOMAIN saved[p] :
                   lines[k] = LineFor(saved, p, x) /\ ~Unwritten(saved, p, x) /\ ~Lost(p, x) => Set(h[k], p, x)
  <2> DEFINE d == h[k - 1]
             e == h[k]
  <2>1. e = ReadLine(d, lines[k], r) /\ e \in Configs /\ d \in Configs
    <3>1. k \in 0 .. n /\ k - 1 \in 0 .. n
      BY <1>2
    <3>. QED  BY <1>1, <3>1
  <2>. HIDE DEF d, e
  <2>2. Between(d, base, r)
    BY <1>4 DEF d
  <2>3. ASSUME NEW p \in Parts, NEW x \in DOMAIN saved[p], ~Unwritten(saved, p, x),
               lines[k] = LineFor(saved, p, x)
        PROVE  /\ Between(e, base, r)
               /\ \A q \in Parts : \A y : Set(d, q, y) => Set(e, q, y)
               /\ ~Lost(p, x) => Set(e, p, x)
    <3>1. IF Lost(p, x) THEN e = d ELSE x \in DOMAIN aim[p] /\ SetsEntry(d, e, p, x, aim[p][x])
      BY <2>1, <2>2, <2>3, EntryRead
    <3>2. CASE Lost(p, x)
      BY <2>2, <3>1, <3>2
    <3>3. CASE ~Lost(p, x)
      <4>1. x \in DOMAIN aim[p] /\ SetsEntry(d, e, p, x, aim[p][x])
        BY <3>1, <3>3
      <4>2. /\ Between(e, base, r)
            /\ x \in DOMAIN e[p] /\ e[p][x] = aim[p][x]
            /\ \A q \in Parts : \A y \in DOMAIN d[q] :
                  (y \in DOMAIN aim[q] /\ d[q][y] = aim[q][y])
                  => (y \in DOMAIN e[q] /\ e[q][y] = aim[q][y])
        BY <2>1, <2>2, <4>1, EntryKeeps
      <4>. HIDE DEF aim
      <4>. QED  BY <4>1, <4>2
    <3>. QED  BY <3>2, <3>3
  <2>4. PICK p \in Parts : \E x \in DOMAIN saved[p] : ~Unwritten(saved, p, x) /\ lines[k] = LineFor(saved, p, x)
    BY DEF n
  <2>5. PICK x \in DOMAIN saved[p] : ~Unwritten(saved, p, x) /\ lines[k] = LineFor(saved, p, x)
    BY <2>4
  <2>6. Between(e, base, r) /\ \A q \in Parts : \A y : Set(d, q, y) => Set(e, q, y)
    BY <2>3, <2>5
  <2>7. \A q \in Parts : \A y \in DOMAIN saved[q] :
           lines[k] = LineFor(saved, q, y) /\ ~Unwritten(saved, q, y) /\ ~Lost(q, y) => Set(e, q, y)
    <3>. HIDE DEF Set
    <3>. QED  BY <2>3
  <2>. HIDE DEF Set
  <2>. QED  BY <2>6, <2>7 DEF d, e
<1>. HIDE DEF Set
<1>5. \A k \in 0 .. n : Between(h[k], base, r)
  <2> DEFINE T == {k \in 0 .. n : Between(h[k], base, r)}
  <2>1. 0 \in T
    BY <1>1, <1>2, <1>3
  <2>2. ASSUME NEW k \in 1 .. n, k - 1 \in T PROVE k \in T
    BY <1>4, <2>2
  <2>. HIDE DEF T
  <2>3. \A k \in 0 .. n : k \in T
    BY <1>2, <2>1, <2>2, UpToInduction
  <2>. QED  BY <2>3 DEF T
<1>6. ASSUME NEW p \in Parts, NEW x \in DOMAIN saved[p], ~Unwritten(saved, p, x), ~Lost(p, x),
             NEW j \in 1 .. n, lines[j] = LineFor(saved, p, x)
      PROVE  Set(h[n], p, x)
  <2> DEFINE T == {k \in 0 .. n : k >= j => Set(h[k], p, x)}
  <2>1. 0 \in T
    BY <1>2
  <2>2. ASSUME NEW k \in 1 .. n, k - 1 \in T PROVE k \in T
    <3>1. k - 1 \in 0 .. n /\ k \in 0 .. n
      BY <1>2
    <3>2. CASE k = j
      <4>1. Set(h[k], p, x)
        BY <1>4, <1>5, <1>6, <3>1, <3>2
      <4>. QED  BY <3>1, <4>1
    <3>3. CASE k > j
      <4>1. Set(h[k - 1], p, x)
        <5>1. k - 1 >= j
          BY <1>2, <3>3
        <5>. QED  BY <2>2, <5>1
      <4>2. Set(h[k], p, x)
        BY <1>4, <1>5, <3>1, <4>1
      <4>. QED  BY <3>1, <4>2
    <3>4. CASE ~(k >= j)
      BY <3>1, <3>4
    <3>. QED  BY <1>2, <3>2, <3>3, <3>4
  <2>3. n \in T
    <3>. HIDE DEF T
    <3>1. \A k \in 0 .. n : k \in T
      BY <1>2, <2>1, <2>2, UpToInduction
    <3>. QED  BY <1>2, <3>1
  <2>. QED  BY <1>2, <2>3
<1>7. Between(h[n], base, r)
  BY <1>2, <1>5
<1>. QED  BY <1>2, <1>6, <1>7 DEF Set, n

\* What is in the file: the lines of the configuration that was saved, or as
\* many of them as the disk had room for.
FileOK ==
    \E order \in SetToSeqs(DOMAIN saved.alias) : \E n \in 0 .. Len(Lines(saved, order)) :
        file = SubSeq(Lines(saved, order), 1, n) /\ (whole => n = Len(Lines(saved, order)))

\* Without a file there is what the system-wide file leaves.
LEMMA WithoutFile ==
    ASSUME NEW lines \in Seq(CommandLines), NEW r \in Heights
    PROVE  /\ Started(<< >>, r) \in Configs
           /\ Started(lines, r) = ReadConf(Started(<< >>, r), lines, r)
<1> DEFINE c == ReadConf(Defaults, SystemRc, r)
<1>1. r \in 1 .. 9 /\ SystemRc \in Seq(CommandLines)
  BY CommandsAssumption
<1>2. c \in Configs
  BY <1>1, DefaultsType, ReadConfType
<1>3. << >> \in Seq(CommandLines) /\ Len(<< >>) = 0
  OBVIOUS
<1>. HIDE DEF c
<1>4. ReadConf(c, << >>, r) = c
  <2>1. Reading(c, << >>, r)[0] = c
    BY <1>1, <1>2, <1>3, ReadingTurns
  <2>. QED  BY <1>3, <2>1 DEF ReadConf
<1>5. Started(<< >>, r) = c
  BY <1>4 DEF Started, c
<1>. QED  BY <1>2, <1>5 DEF Started, c

\* A table that has what is wanted, and is between that and another, is the one
\* over the other.
LEMMA OverIs ==
    ASSUME NEW D, NEW f, f = [x \in D |-> f[x]], NEW want, NEW base, BetweenTables(f, want, base),
           \A x \in DOMAIN want : x \in DOMAIN f /\ f[x] = want[x]
    PROVE  f = Over(want, base)
<1>1. DOMAIN f = DOMAIN want \cup DOMAIN base
  BY DEF BetweenTables
<1>2. \A x \in DOMAIN f : f[x] = IF x \in DOMAIN want THEN want[x] ELSE base[x]
  BY DEF BetweenTables
<1>3. DOMAIN f = D
  <2> DEFINE g == [x \in D |-> f[x]]
  <2>1. DOMAIN g = D /\ f = g
    OBVIOUS
  <2>. HIDE DEF g
  <2>. QED  BY <2>1
<1> DEFINE E == DOMAIN want \cup DOMAIN base
           o == [x \in E |-> IF x \in DOMAIN want THEN want[x] ELSE base[x]]
<1>4. f = [x \in E |-> f[x]]
  BY <1>1, <1>3
<1>5. \A x \in E : f[x] = o[x]
  BY <1>1, <1>2
<1>6. f = o
  BY <1>4, <1>5
<1>. QED  BY <1>6 DEF Over

\* The next start restores what was saved.
LEMMA Restored ==
    ASSUME saved \in Configs, FileOK, whole \in BOOLEAN, NEW r \in Heights,
           Readable(saved, Started(<< >>, r))
    PROVE  LET now  == Started(file, r)
               base == Started(<< >>, r)
           IN  /\ Restores(now.opts, [o \in OptNames |-> Expected(o, base, r)], base.opts)
               /\ Restores(now.alias, saved.alias, base.alias)
               /\ Restores(now.main, Found(saved.main), base.main)
               /\ Restores(now.blist, Found(saved.blist), base.blist)
<1> DEFINE now  == Started(file, r)
           base == Started(<< >>, r)
           aim == Aim(base, r)
<1>1. PICK order \in SetToSeqs(DOMAIN saved.alias) : \E n \in 0 .. Len(Lines(saved, order)) :
         file = SubSeq(Lines(saved, order), 1, n) /\ (whole => n = Len(Lines(saved, order)))
  BY DEF FileOK
<1> DEFINE L == Lines(saved, order)
<1>2. /\ L \in Seq(CommandLines)
      /\ \A line \in ToSet(L) :
            \E p \in Parts : \E x \in DOMAIN saved[p] : ~Unwritten(saved, p, x) /\ line = LineFor(saved, p, x)
      /\ \A p \in Parts : \A x \in DOMAIN saved[p] : ~Unwritten(saved, p, x) =>
            LineFor(saved, p, x) \in ToSet(L)
  BY LinesAre
<1>3. \E n \in 0 .. Len(L) : file = SubSeq(L, 1, n) /\ (whole => n = Len(L))
  BY <1>1
<1>. HIDE DEF L
<1>4. Len(L) \in Nat
  <2>1. L \in Seq(CommandLines)
    BY <1>2
  <2>. QED  BY <2>1, LenProperties
<1>5. PICK n \in 0 .. Len(L) : file = SubSeq(L, 1, n) /\ (whole => n = Len(L))
  BY <1>3, Zenon
<1>6. file \in Seq(CommandLines) /\ Len(file) = n /\ \A k \in 1 .. n : file[k] = L[k] /\ k \in DOMAIN L
  <2>1. DOMAIN L = 1 .. Len(L)
    BY <1>2
  <2>2. \A k \in 1 .. n : k \in 1 .. Len(L)
    BY <1>4, <1>5
  <2>3. SubSeq(L, 1, n) \in Seq(CommandLines) /\ Len(SubSeq(L, 1, n)) = n
    BY <1>2, <1>4, <1>5, SubSeqSeq
  <2>4. \A k \in 1 .. n : SubSeq(L, 1, n)[k] = L[k]
    BY <1>2, <1>4, <1>5, SubSeqSeq
  <2>. QED  BY <1>4, <1>5, <2>1, <2>2, <2>3, <2>4
<1>7. ASSUME NEW k \in 1 .. Len(file)
      PROVE  \E p \in Parts : \E x \in DOMAIN saved[p] :
                ~Unwritten(saved, p, x) /\ file[k] = LineFor(saved, p, x)
  <2>1. file[k] = L[k] /\ k \in DOMAIN L
    BY <1>6
  <2>2. L[k] \in ToSet(L)
    BY <2>1 DEF ToSet
  <2>. QED  BY <1>2, <2>1, <2>2
<1>8. r \in 1 .. 9
  BY CommandsAssumption
<1>9. base \in Configs /\ now = ReadConf(base, file, r)
  BY <1>6, WithoutFile
<1>10. now \in Configs
  BY <1>6, <1>8, <1>9, ReadConfType
<1>. HIDE DEF now, base
<1>11. Readable(saved, base)
  BY DEF base
<1>12. /\ Between(now, base, r)
       /\ \A p \in Parts : \A x \in DOMAIN saved[p] :
             (\E k \in 1 .. Len(file) : file[k] = LineFor(saved, p, x))
                /\ ~Unwritten(saved, p, x) /\ ~Lost(p, x)
             => x \in DOMAIN now[p] /\ x \in DOMAIN aim[p] /\ now[p][x] = aim[p][x]
  <2>1. LET t == ReadConf(base, file, r) IN
        /\ Between(t, base, r)
        /\ \A p \in Parts : \A x \in DOMAIN saved[p] :
              (\E k \in 1 .. Len(file) : file[k] = LineFor(saved, p, x))
                 /\ ~Unwritten(saved, p, x) /\ ~Lost(p, x)
              => x \in DOMAIN t[p] /\ x \in DOMAIN aim[p] /\ t[p][x] = aim[p][x]
    <3>1. file \in Seq(CommandLines) /\ base \in Configs
      BY <1>6, <1>9
    <3>. QED  BY <1>7, <1>8, <1>11, <3>1, FileRead
  <2>. QED  BY <1>9, <2>1
<1>13. \A p \in Parts : BetweenTables(now[p], aim[p], base[p])
  BY <1>12 DEF Between
<1>14. /\ aim.opts = [o \in OptNames |-> Expected(o, base, r)] /\ aim.alias = saved.alias
       /\ aim.main = Found(saved.main) /\ aim.blist = Found(saved.blist)
  BY DEF Aim
<1>. HIDE DEF aim
<1>15. ASSUME whole, NEW p \in Parts PROVE \A x \in DOMAIN aim[p] : x \in DOMAIN now[p] /\ now[p][x] = aim[p][x]
  <2>. TAKE x \in DOMAIN aim[p]
  <2>1. x \in DOMAIN saved[p]
    <3>1. CASE p = "opts"
      BY <1>14, <3>1, OptsTable DEF Configs
    <3>2. CASE p = "alias"
      BY <1>14, <3>2
    <3>3. CASE p = "main" \/ p = "blist"
      BY <1>14, <3>3 DEF Found
    <3>. QED  BY <3>1, <3>2, <3>3 DEF Parts
  <2>2. CASE ~Unwritten(saved, p, x) /\ ~Lost(p, x)
    <3>1. LineFor(saved, p, x) \in ToSet(L)
      BY <1>2, <2>1, <2>2
    <3>2. PICK k \in DOMAIN L : L[k] = LineFor(saved, p, x)
      BY <3>1 DEF ToSet
    <3>3. k \in 1 .. Len(file) /\ file[k] = LineFor(saved, p, x)
      <4>1. DOMAIN L = 1 .. n /\ Len(file) = n
        BY <1>2, <1>4, <1>5, <1>6, <1>15
      <4>. QED  BY <1>6, <3>2, <4>1
    <3>. QED  BY <1>12, <2>1, <2>2, <3>3
  <2>3. CASE Unwritten(saved, p, x) \/ Lost(p, x)
    <3>1. p = "opts" /\ aim.opts[x] = base.opts[x]
      <4>1. CASE Unwritten(saved, p, x)
        <5>1. p = "opts" /\ x = "PROMPT" /\ saved.opts[x] = << >> /\ x \in OptNames /\ TypeOf(x) = "str"
          BY <4>1, OptionTypes DEF Unwritten
        <5>. QED  BY <1>14, <5>1 DEF Expected
      <4>2. CASE Lost(p, x) /\ p = "opts"
        <5>1. x = "CMDCHARS" /\ saved.opts[x] = " " /\ x \in OptNames /\ TypeOf(x) = "char"
          BY <4>2, OptionTypes DEF Lost
        <5>. QED  BY <1>14, <4>2, <5>1 DEF Expected
      <4>3. CASE Lost(p, x) /\ p # "opts"
        <5>1. p \in {"main", "blist"} /\ x = "F10"
          BY <4>3 DEF Lost
        <5>2. "F10" \notin DOMAIN aim[p]
          BY <1>14, <5>1 DEF Found
        <5>. QED  BY <5>1, <5>2
      <4>. QED  BY <2>3, <4>1, <4>2, <4>3
    <3>2. x \in DOMAIN now.opts
      <4>1. x \in OptNames
        BY <1>14, <3>1
      <4>. QED  BY <1>10, <4>1, OptsTable DEF Configs
    <3>. QED  BY <1>13, <3>1, <3>2 DEF BetweenTables
  <2>. QED  BY <2>2, <2>3
<1>16. ASSUME NEW p \in Parts PROVE Restores(now[p], aim[p], base[p])
  <2>1. CASE whole
    <3>1. now[p] = [x \in DOMAIN now[p] |-> now[p][x]]
      <4>1. CASE p = "opts"
        BY <1>10, <4>1, OptsTable DEF Configs
      <4>2. CASE p # "opts"
        <5>1. \E K : now[p] \in Tables(K)
          BY <1>10, <4>2 DEF Configs, Parts
        <5>. QED  BY <5>1, TableParts
      <4>. QED  BY <4>1, <4>2
    <3>2. now[p] = Over(aim[p], base[p])
      <4> DEFINE f == now[p]
                 D == DOMAIN f
      <4>1. f = [x \in D |-> f[x]] /\ BetweenTables(f, aim[p], base[p])
            /\ \A x \in DOMAIN aim[p] : x \in DOMAIN f /\ f[x] = aim[p][x]
        BY <1>13, <1>15, <2>1, <3>1
      <4>. HIDE DEF f, D
      <4>2. f = Over(aim[p], base[p])
        BY <4>1, OverIs
      <4>. QED  BY <4>2 DEF f
    <3>. QED  BY <2>1, <3>2 DEF Restores
  <2>2. CASE ~whole
    BY <1>13, <2>2 DEF Restores, BetweenTables
  <2>. QED  BY <2>1, <2>2
<1>. QED  BY <1>14, <1>16 DEF Parts, now, base

-----------------------------------------------------------------------------
(***************************************************************************)
(* The invariant                                                           *)
(***************************************************************************)

\* The configuration is one, and the file has the lines of the one that was
\* saved last, up to where the disk was full.
IInv ==
    /\ rows \in Heights /\ whole \in BOOLEAN /\ ok \in BOOLEAN
    /\ config \in Configs
    /\ file \in Seq(CommandLines)
    /\ saved = NotSaved \/ (saved \in Configs /\ FileOK)

\* It holds when the program has started.
LEMMA InitIInv == ASSUME Init PROVE IInv
<1>1. << >> \in Seq(CommandLines)
  OBVIOUS
<1>2. config \in Configs
  BY <1>1, StartedType DEF Init
<1>. QED  BY <1>1, <1>2 DEF Init, IInv

\* A command line leaves a configuration.
LEMMA RunType ==
    ASSUME IInv, NEW words \in CommandLines, Run(words)
    PROVE  config' \in Configs /\ ok' \in BOOLEAN
<1>1. config \in Configs /\ rows \in 1 .. 9 /\ ok \in BOOLEAN
  BY CommandsAssumption DEF IInv
<1>2. RunCommand(config, words, rows) \in Configs
  BY <1>1, RunCommandType
<1> DEFINE Aset == LET line == Resolve(config.alias, words) IN
                   line.fits /\ Head(line.words) \in Sets /\ Wanted(line.words) # ""
<1>3. CASE Aset
  BY <1>1, <1>3 DEF Run
<1>4. CASE ~Aset
  <2>1. config' = RunCommand(config, words, rows) /\ ok' = ok
    BY <1>4 DEF Run
  <2>. QED  BY <1>1, <1>2, <2>1
<1>. QED  BY <1>3, <1>4

\* What is saved is in the file, or as much of it as there was room for.
LEMMA SavedFile ==
    ASSUME IInv, NEW order \in SetToSeqs(DOMAIN config.alias), NEW n \in 0 .. Len(Lines(config, order)),
           file' = SubSeq(Lines(config, order), 1, n), saved' = config,
           whole' => n = Len(Lines(config, order))
    PROVE  file' \in Seq(CommandLines) /\ FileOK'
<1> DEFINE L == Lines(config, order)
<1>1. L \in Seq(CommandLines)
  BY LinesAre DEF IInv
<1>2. file' \in Seq(CommandLines)
  <2>. HIDE DEF L
  <2>1. SubSeq(L, 1, n) \in Seq(CommandLines)
    BY <1>1, SubSeqSeq DEF L
  <2>. QED  BY <2>1 DEF L
<1>. QED  BY <1>2 DEF FileOK

\* Every step keeps it.
LEMMA NextIInv == ASSUME IInv, [Next]_vars PROVE IInv'
<1>. USE DEF IInv
<1>1. CASE Type
  <2>1. PICK words \in Typed : Run(words) /\ UNCHANGED <<rows, file, saved, whole>>
    BY <1>1 DEF Type
  <2>2. words \in CommandLines
    BY CommandsAssumption
  <2>3. config' \in Configs /\ ok' \in BOOLEAN
    BY <2>1, <2>2, RunType
  <2>4. FileOK => FileOK'
    BY <2>1 DEF FileOK
  <2>. QED  BY <2>1, <2>3, <2>4
<1>2. CASE PressKey
  <2>1. PICK k \in {"q", "F10"} :
           k \in DOMAIN config.main /\ Run(BindingOf(k)) /\ UNCHANGED <<rows, file, saved, whole>>
    BY <1>2 DEF PressKey
  <2>2. config.main[k] \in CommandLines
    BY <2>1, TableParts DEF Configs
  <2>3. BindingOf(k) \in CommandLines
    <3>1. config.opts.CMDCHARS \in Characters
      BY DEF Configs, Opts
    <3>. QED  BY <2>2, <3>1, BaredLine DEF BindingOf
  <2>4. config' \in Configs /\ ok' \in BOOLEAN
    BY <2>1, <2>3, RunType
  <2>5. FileOK => FileOK'
    BY <2>1 DEF FileOK
  <2>. QED  BY <2>1, <2>4, <2>5
<1>3. CASE Save
  <2>1. PICK order \in SetToSeqs(DOMAIN config.alias) :
           /\ file' = Lines(config, order) /\ saved' = config /\ whole' = TRUE
           /\ UNCHANGED <<config, rows, ran, ok>>
    BY <1>3 DEF Save
  <2> DEFINE L == Lines(config, order)
  <2>2. L \in Seq(CommandLines)
    BY LinesAre
  <2>3. Len(L) \in 0 .. Len(L) /\ file' = SubSeq(L, 1, Len(L))
    <3>1. file' = L
      BY <2>1
    <3>. HIDE DEF L
    <3>2. Len(L) \in Nat
      BY <2>2, LenProperties
    <3>3. SubSeq(L, 1, Len(L)) = L
      <4>1. 1 \in 1 .. Len(L) + 1 /\ Len(L) \in 0 .. Len(L)
        BY <3>2
      <4>2. /\ SubSeq(L, 1, Len(L)) \in Seq(CommandLines) /\ Len(SubSeq(L, 1, Len(L))) = Len(L)
            /\ \A i \in 1 .. Len(L) : SubSeq(L, 1, Len(L))[i] = L[i]
        BY <2>2, <3>2, <4>1, SubSeqSeq
      <4>. QED  BY <2>2, <4>2, SeqEqual
    <3>. QED  BY <3>1, <3>2, <3>3
  <2>4. file' \in Seq(CommandLines) /\ FileOK'
    BY <2>1, <2>3, SavedFile
  <2>. QED  BY <2>1, <2>4
<1>4. CASE SaveCut
  <2>1. PICK order \in SetToSeqs(DOMAIN config.alias) :
           /\ \E n \in 0 .. Len(Lines(config, order)) - 1 : file' = SubSeq(Lines(config, order), 1, n)
           /\ saved' = config /\ whole' = FALSE
           /\ UNCHANGED <<config, rows, ran, ok>>
    BY <1>4 DEF SaveCut
  <2>2. PICK n \in 0 .. Len(Lines(config, order)) - 1 : file' = SubSeq(Lines(config, order), 1, n)
    BY <2>1
  <2>3. n \in 0 .. Len(Lines(config, order))
    <3>1. Lines(config, order) \in Seq(CommandLines)
      BY LinesAre
    <3>2. Len(Lines(config, order)) \in Nat
      BY <3>1, LenProperties
    <3>. QED  BY <3>2
  <2>4. file' \in Seq(CommandLines) /\ FileOK'
    BY <2>1, <2>2, <2>3, SavedFile
  <2>. QED  BY <2>1, <2>4
<1>5. CASE SaveFails
  <2>1. FileOK => FileOK'
    BY <1>5 DEF SaveFails, FileOK
  <2>. QED  BY <1>5, <2>1 DEF SaveFails
<1>6. CASE CmdLoad
  <2>1. config' = ReadConf(config, file, rows) /\ UNCHANGED <<rows, file, saved, whole, ran, ok>>
    BY <1>6 DEF CmdLoad
  <2>2. rows \in 1 .. 9
    BY CommandsAssumption
  <2>3. config' \in Configs
    BY <2>1, <2>2, ReadConfType
  <2>4. FileOK => FileOK'
    BY <2>1 DEF FileOK
  <2>. QED  BY <2>1, <2>3, <2>4
<1>7. CASE Restart
  <2>1. PICK r \in Heights :
           rows' = r /\ config' = Started(file, r) /\ UNCHANGED <<file, saved, whole, ran, ok>>
    BY <1>7 DEF Restart
  <2>2. config' \in Configs
    BY <2>1, StartedType
  <2>3. FileOK => FileOK'
    BY <2>1 DEF FileOK
  <2>. QED  BY <2>1, <2>2, <2>3
<1>8. CASE UNCHANGED vars
  <2>1. FileOK => FileOK'
    BY <1>8 DEF vars, FileOK
  <2>. QED  BY <1>8, <2>1 DEF vars
<1>9. CASE Stopped
  BY <1>8, <1>9 DEF Stopped
<1>. QED  BY <1>1, <1>2, <1>3, <1>4, <1>5, <1>6, <1>7, <1>8, <1>9 DEF Next

\* The invariant holds in every behaviour.
THEOREM Invariance == Spec => []IInv
<1>1. Init => IInv
  BY InitIInv
<1>2. IInv /\ [Next]_vars => IInv'
  BY NextIInv
<1>. QED  BY <1>1, <1>2, PTL DEF Spec

\* Every command, and every file that is read, leaves a configuration: no
\* option is lost or gets a value of another type, and no key is bound that
\* bind_get_keycode does not know.
THEOREM TypeCorrect == Spec => []TypeOK
<1>1. ASSUME IInv PROVE TypeOK
  <2>1. config.opts \in Opts /\ config.main \in Tables(Keys)
    BY <1>1 DEF IInv, Configs
  <2>2. DOMAIN config.opts = OptNames /\ config.opts.SCROLLBUF_LEN \in Nat
    BY <2>1, OptsTable DEF Opts
  <2>3. Keys \subseteq ToSet(keyval) \cup {Codes[w] : w \in DOMAIN Codes}
    <3>1. \A i \in 1 .. 29 : keyval[i] \in ToSet(keyval)
      BY DEF keyval, ToSet
    <3>2. Codes["q"] = "q" /\ Codes["0x7f"] = "0x7f" /\ DOMAIN Codes = {"q", "0x7f", "0x112"}
      BY DEF Codes
    <3>. QED  BY <3>1, <3>2, KeysAre
  <2>4. DOMAIN config.main \subseteq Keys
    BY <2>1, TableParts
  <2>. QED  BY <1>1, <2>2, <2>3, <2>4 DEF IInv, TypeOK
<1>2. []IInv => []TypeOK
  BY <1>1, PTL
<1>. QED  BY <1>2, Invariance, PTL

\* alias_resolve makes of a command line what its aliases stand for, in
\* whatever order they were defined, and refuses it exactly if they come back
\* to each other or the line gets too long.
THEOREM AliasesStandForTheirCommands == Spec => []AliasesResolve
<1>1. ASSUME IInv PROVE AliasesResolve
  <2>1. config.alias \in Tables(Words) /\ Typed \subseteq CommandLines
    BY <1>1, CommandsAssumption DEF IInv, Configs
  <2>. QED  BY <2>1, ResolvesAsSaid DEF AliasesResolve
<1>2. []IInv => []AliasesResolve
  BY <1>1, PTL
<1>. QED  BY <1>2, Invariance, PTL

\* A file whose lines are Readable, that is, no alias takes the name of set, alias
\* or bind and CMDCHARS begins neither these nor a binding, restores what was
\* saved: an option as Expected says, the bindings but for those of F10 to F12
\* (Found).  A file that was cut off restores nothing that was never there.
THEOREM ARestartRestores == Spec => []RestartRestores
<1>1. ASSUME IInv PROVE RestartRestores
  <2>1. SUFFICES ASSUME saved # NotSaved, NEW r \in Heights, Readable(saved, Started(<< >>, r))
                 PROVE  LET now  == Started(file, r)
                            base == Started(<< >>, r)
                        IN  /\ Restores(now.opts, [o \in OptNames |-> Expected(o, base, r)], base.opts)
                            /\ Restores(now.alias, saved.alias, base.alias)
                            /\ Restores(now.main, Found(saved.main), base.main)
                            /\ Restores(now.blist, Found(saved.blist), base.blist)
    BY DEF RestartRestores
  <2>2. saved \in Configs /\ FileOK /\ whole \in BOOLEAN
    BY <1>1, <2>1 DEF IInv
  <2>. QED  BY <2>1, <2>2, Restored
<1>2. []IInv => []RestartRestores
  BY <1>1, PTL
<1>. QED  BY <1>2, Invariance, PTL
=============================================================================
