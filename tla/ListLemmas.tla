----------------------------- MODULE ListLemmas ------------------------------
(***************************************************************************)
(* What the operators on sequences return that the modules use for the     *)
(* lists of the code.                                                      *)
(***************************************************************************)
EXTENDS Integers, Sequences, SequencesExt, SequenceTheorems, WellFoundedInduction, TLAPS

\* An element is taken out: those behind it move up (dlist_remove).
LEMMA RemoveAtSeq ==
    ASSUME NEW S, NEW s \in Seq(S), NEW i \in 1 .. Len(s)
    PROVE  /\ RemoveAt(s, i) \in Seq(S)
           /\ Len(RemoveAt(s, i)) = Len(s) - 1
           /\ \A j \in 1 .. Len(s) - 1 :
                 RemoveAt(s, i)[j] = IF j < i THEN s[j] ELSE s[j + 1]
<1> DEFINE a == SubSeq(s, 1, i - 1)
           b == SubSeq(s, i + 1, Len(s))
<1>1. /\ a \in Seq(S) /\ Len(a) = i - 1
      /\ \A j \in 1 .. i - 1 : a[j] = s[j]
  <2>1. \A k \in 1 .. i - 1 : s[k] \in S
    BY ElementOfSeq
  <2>. QED  BY <2>1, SubSeqProperties
<1>2. /\ b \in Seq(S) /\ Len(b) = Len(s) - i
      /\ \A j \in 1 .. Len(s) - i : b[j] = s[i + j]
  <2>1. \A k \in i + 1 .. Len(s) : s[k] \in S
    BY ElementOfSeq
  <2>. QED  BY <2>1, SubSeqProperties
<1>. HIDE DEF a, b
<1>3. a \o b \in Seq(S) /\ Len(a \o b) = Len(a) + Len(b)
      /\ \A j \in 1 .. Len(a) + Len(b) : (a \o b)[j] = IF j <= Len(a) THEN a[j] ELSE b[j - Len(a)]
  BY <1>1, <1>2, ConcatProperties
<1>4. RemoveAt(s, i) = a \o b
  BY DEF RemoveAt, a, b
<1>5. Len(s) \in Nat /\ Len(a) + Len(b) = Len(s) - 1
  BY <1>1, <1>2
<1>6. ASSUME NEW j \in 1 .. Len(s) - 1
      PROVE  (a \o b)[j] = IF j < i THEN s[j] ELSE s[j + 1]
  <2>1. CASE j < i
    BY <2>1, <1>1, <1>3, <1>5
  <2>2. CASE j >= i
    <3>1. (a \o b)[j] = b[j - (i - 1)] /\ j - (i - 1) \in 1 .. Len(s) - i
      BY SMTT(30), <2>2, <1>1, <1>3, <1>5
    <3>2. b[j - (i - 1)] = s[i + (j - (i - 1))] /\ i + (j - (i - 1)) = j + 1
      BY <3>1, <1>2
    <3>. QED  BY <3>1, <3>2, <2>2
  <2>. QED  BY <2>1, <2>2, <1>5
<1>. QED
  BY <1>3, <1>4, <1>5, <1>6

\* An element is put at the head (dlist_add_head).
LEMMA PrependSeq ==
    ASSUME NEW S, NEW s \in Seq(S), NEW e \in S
    PROVE  /\ <<e>> \o s \in Seq(S)
           /\ Len(<<e>> \o s) = Len(s) + 1
           /\ \A j \in 1 .. Len(s) + 1 :
                 (<<e>> \o s)[j] = IF j = 1 THEN e ELSE s[j - 1]
  OBVIOUS

\* A part of a sequence: its length and its elements.
LEMMA SubSeqSeq ==
    ASSUME NEW S, NEW s \in Seq(S), NEW m \in 1 .. Len(s) + 1, NEW n \in 0 .. Len(s)
    PROVE  /\ SubSeq(s, m, n) \in Seq(S)
           /\ Len(SubSeq(s, m, n)) = IF m <= n THEN n - m + 1 ELSE 0
           /\ \A i \in 1 .. n - m + 1 : SubSeq(s, m, n)[i] = s[m + i - 1]
<1>1. \A k \in m .. n : s[k] \in S
    BY ElementOfSeq
<1>. QED  BY <1>1, SubSeqProperties

\* What is put at the end of a sequence is at the end of any that ends in it.
LEMMA ConcatAppend ==
    ASSUME NEW S, NEW s \in Seq(S), NEW t \in Seq(S), NEW e \in S
    PROVE  s \o Append(t, e) = Append(s \o t, e)
<1>1. Append(t, e) = t \o <<e>> /\ Append(s \o t, e) = (s \o t) \o <<e>> /\ <<e>> \in Seq(S)
  BY AppendIsConcat, ConcatProperties
<1>2. (s \o t) \o <<e>> = s \o (t \o <<e>>)
  BY <1>1, ConcatAssociative
<1>. QED  BY <1>1, <1>2

\* Two sequences put together.
LEMMA ConcatSeq ==
    ASSUME NEW S, NEW s \in Seq(S), NEW t \in Seq(S)
    PROVE  s \o t \in Seq(S) /\ Len(s \o t) = Len(s) + Len(t) /\ Len(s) \in Nat /\ Len(t) \in Nat
  BY ConcatProperties

\* A sequence cut in two.
LEMMA SplitSeq ==
    ASSUME NEW S, NEW q \in Seq(S), NEW n \in 0 .. Len(q)
    PROVE  /\ SubSeq(q, 1, n) \in Seq(S) /\ Len(SubSeq(q, 1, n)) = n
           /\ \A k \in 1 .. n : SubSeq(q, 1, n)[k] = q[k]
           /\ SubSeq(q, n + 1, Len(q)) \in Seq(S) /\ Len(SubSeq(q, n + 1, Len(q))) = Len(q) - n
           /\ \A k \in 1 .. Len(q) - n : SubSeq(q, n + 1, Len(q))[k] = q[n + k]
           /\ SubSeq(q, 1, n) \o SubSeq(q, n + 1, Len(q)) = q
<1> DEFINE f == SubSeq(q, 1, n)
           p == SubSeq(q, n + 1, Len(q))
<1>1. Len(q) \in Nat /\ n \in Nat /\ n <= Len(q) /\ n + 1 \in 1 .. Len(q) + 1
  OBVIOUS
<1>2. f \in Seq(S) /\ Len(f) = n /\ \A k \in 1 .. n : f[k] = q[k]
  <2>1. /\ f \in Seq(S) /\ Len(f) = IF 1 <= n THEN n - 1 + 1 ELSE 0
        /\ \A i \in 1 .. n - 1 + 1 : f[i] = q[1 + i - 1]
    BY <1>1, SubSeqSeq
  <2>. HIDE DEF f
  <2>. QED  BY <1>1, <2>1
<1>3. p \in Seq(S) /\ Len(p) = Len(q) - n /\ \A k \in 1 .. Len(q) - n : p[k] = q[n + k]
  <2>1. /\ p \in Seq(S)
        /\ Len(p) = IF n + 1 <= Len(q) THEN Len(q) - (n + 1) + 1 ELSE 0
        /\ \A i \in 1 .. Len(q) - (n + 1) + 1 : p[i] = q[n + 1 + i - 1]
    BY <1>1, SubSeqSeq
  <2>. HIDE DEF p
  <2>2. \A k \in 1 .. Len(q) - n : k \in 1 .. Len(q) - (n + 1) + 1 /\ n + 1 + k - 1 = n + k
    BY <1>1
  <2>. QED  BY <1>1, <2>1, <2>2
<1>. HIDE DEF f, p
<1>4. /\ f \o p \in Seq(S) /\ Len(f \o p) = Len(f) + Len(p)
      /\ \A k \in 1 .. Len(f) + Len(p) : (f \o p)[k] = IF k <= Len(f) THEN f[k] ELSE p[k - Len(f)]
  BY <1>2, <1>3, ConcatProperties
<1> DEFINE r == f \o p
<1>5. /\ r \in Seq(S) /\ Len(r) = Len(q)
      /\ \A k \in 1 .. Len(q) : r[k] = IF k <= n THEN f[k] ELSE p[k - n]
  BY <1>1, <1>2, <1>3, <1>4
<1>. HIDE DEF r
<1>6. \A k \in 1 .. Len(q) : r[k] = q[k]
  BY <1>1, <1>2, <1>3, <1>5
<1>7. r = q
  BY <1>5, <1>6, SeqEqual
<1>. QED  BY <1>2, <1>3, <1>7 DEF f, p, r

\* Where a sequence is cut does not matter to what stands before it.
LEMMA SplitConcat ==
    ASSUME NEW S, NEW w \in Seq(S), NEW q \in Seq(S), NEW n \in 0 .. Len(q)
    PROVE  (w \o SubSeq(q, 1, n)) \o SubSeq(q, n + 1, Len(q)) = w \o q
<1>1. ASSUME NEW f \in Seq(S), NEW p \in Seq(S)
      PROVE  (w \o f) \o p = w \o (f \o p)
  BY ConcatAssociative, SMTT(30)
<1> DEFINE f == SubSeq(q, 1, n)
           p == SubSeq(q, n + 1, Len(q))
<1>2. f \in Seq(S) /\ p \in Seq(S)
  BY SplitSeq
<1>3. f \o p = q
  BY SplitSeq
<1>4. (w \o f) \o p = w \o (f \o p)
  <2>. HIDE DEF f, p
  <2>. QED  BY <1>1, <1>2
<1>. QED  BY <1>3, <1>4

\* A set of natural numbers has a least member.
LEMMA LeastNumber ==
    ASSUME NEW T \in SUBSET Nat, T # {}
    PROVE  \E x \in T : \A y \in T : x <= y
<1> DEFINE R == OpToRel(<, Nat)
<1>1. IsWellFoundedOn(R, Nat)
  BY NatLessThanWellFounded
<1>2. \A x, y \in Nat : y < x => <<y, x>> \in R
  BY DEF OpToRel
<1>. HIDE DEF R
<1>3. \E x \in T : \A y \in T : ~ (<<y, x>> \in R)
  BY <1>1, WFMin
<1>4. PICK x \in T : \A y \in T : ~ (<<y, x>> \in R)
  BY <1>3
<1>5. \A y \in T : ~ (y < x)
  BY <1>2, <1>4
<1>. QED  BY <1>5

\* The Min of a set of numbers is in it and below all of it.
LEMMA MinOf ==
    ASSUME NEW T \in SUBSET Nat, T # {}
    PROVE  Min(T) \in T /\ \A y \in T : Min(T) <= y
<1>1. \E x \in T : \A y \in T : x <= y
  BY LeastNumber
<1>. QED  BY <1>1 DEF Min

\* So is the Max, of a set that has a bound, and above all of it.
LEMMA MaxOf ==
    ASSUME NEW n \in Nat, NEW T \in SUBSET (0 .. n), T # {}
    PROVE  Max(T) \in T /\ \A y \in T : y <= Max(T)
<1> DEFINE U == {u \in Nat : \E y \in T : u = n - y}
<1>1. \A y \in T : y \in Nat /\ n - y \in U
  OBVIOUS
<1>2. PICK m \in U : \A u \in U : m <= u
  BY <1>1, LeastNumber
<1>3. PICK x \in T : m = n - x
  BY <1>2
<1>4. \A y \in T : x >= y
  BY <1>1, <1>2, <1>3
<1>5. \E z \in T : \A y \in T : z >= y
  BY <1>4
<1>6. Max(T) \in T /\ \A y \in T : Max(T) >= y
  BY <1>5 DEF Max
<1>. QED  BY <1>6

\* An element is put before another one (dlist_add_head in the middle of a
\* list).
LEMMA InsertAtSeq ==
    ASSUME NEW S, NEW s \in Seq(S), NEW i \in 1 .. Len(s), NEW e \in S
    PROVE  /\ InsertAt(s, i, e) \in Seq(S)
           /\ Len(InsertAt(s, i, e)) = Len(s) + 1
           /\ \A j \in 1 .. Len(s) + 1 :
                 InsertAt(s, i, e)[j] = IF j < i THEN s[j] ELSE IF j = i THEN e ELSE s[j - 1]
<1> DEFINE a == SubSeq(s, 1, i - 1)
           b == SubSeq(s, i, Len(s))
           c == Append(a, e)
<1>1. Len(s) \in Nat /\ i \in Nat /\ i - 1 \in 0 .. Len(s) /\ (i - 1) + 1 = i
  OBVIOUS
<1>2. /\ a \in Seq(S) /\ Len(a) = i - 1
      /\ \A k \in 1 .. i - 1 : a[k] = s[k]
  BY <1>1, SplitSeq
<1>3. /\ b \in Seq(S) /\ Len(b) = Len(s) - (i - 1)
      /\ \A k \in 1 .. Len(s) - (i - 1) : b[k] = s[i - 1 + k]
  BY <1>1, SplitSeq
<1>4. InsertAt(s, i, e) = (a \o <<e>>) \o b
  BY DEF InsertAt
<1>. HIDE DEF a, b
<1>5. a \o <<e>> = c
  BY <1>2, AppendIsConcat
<1>6. /\ c \in Seq(S) /\ Len(c) = i /\ c[i] = e
      /\ \A k \in 1 .. i - 1 : c[k] = s[k]
  BY <1>1, <1>2
<1>. HIDE DEF c
<1>7. /\ c \o b \in Seq(S) /\ Len(c \o b) = Len(c) + Len(b)
      /\ \A j \in 1 .. Len(c) + Len(b) : (c \o b)[j] = IF j <= Len(c) THEN c[j] ELSE b[j - Len(c)]
  BY <1>3, <1>6, ConcatProperties
<1> DEFINE d == c \o b
<1>8. /\ d \in Seq(S) /\ Len(d) = Len(s) + 1
      /\ \A j \in 1 .. Len(s) + 1 : d[j] = IF j <= i THEN c[j] ELSE b[j - i]
  BY <1>1, <1>3, <1>6, <1>7
<1>. HIDE DEF d
<1>9. \A j \in 1 .. Len(s) + 1 : d[j] = IF j < i THEN s[j] ELSE IF j = i THEN e ELSE s[j - 1]
  <2>1. ASSUME NEW j \in 1 .. Len(s) + 1, j <= i
        PROVE  d[j] = IF j < i THEN s[j] ELSE e
    BY <2>1, <1>1, <1>6, <1>8
  <2>2. ASSUME NEW j \in 1 .. Len(s) + 1, j > i
        PROVE  d[j] = s[j - 1]
    <3>1. d[j] = b[j - i] /\ j - i \in 1 .. Len(s) - (i - 1) /\ i - 1 + (j - i) = j - 1
      BY <2>2, <1>1, <1>8
    <3>2. b[j - i] = s[i - 1 + (j - i)]
      BY <3>1, <1>3
    <3>. QED  BY <3>1, <3>2
  <2>. QED  BY <2>1, <2>2, <1>1
<1>. QED  BY <1>4, <1>5, <1>8, <1>9 DEF d

\* Two sequences that were put together come apart again.
LEMMA ConcatSplit ==
    ASSUME NEW S, NEW b \in Seq(S), NEW a \in Seq(S)
    PROVE  /\ SubSeq(b \o a, 1, Len(b)) = b
           /\ SubSeq(b \o a, Len(b) + 1, Len(b \o a)) = a
<1> DEFINE t == b \o a
           f == SubSeq(t, 1, Len(b))
           p == SubSeq(t, Len(b) + 1, Len(t))
<1>1. /\ t \in Seq(S) /\ Len(t) = Len(b) + Len(a) /\ Len(b) \in Nat /\ Len(a) \in Nat
      /\ \A k \in 1 .. Len(b) + Len(a) : t[k] = IF k <= Len(b) THEN b[k] ELSE a[k - Len(b)]
  BY ConcatProperties
<1>. HIDE DEF t
<1>2. Len(b) \in 0 .. Len(t)
  BY <1>1
<1>3. /\ f \in Seq(S) /\ Len(f) = Len(b) /\ \A k \in 1 .. Len(b) : f[k] = t[k]
      /\ p \in Seq(S) /\ Len(p) = Len(t) - Len(b) /\ \A k \in 1 .. Len(t) - Len(b) : p[k] = t[Len(b) + k]
  BY <1>1, <1>2, SplitSeq
<1>. HIDE DEF f, p
<1>4. f = b
  <2>1. \A k \in 1 .. Len(b) : f[k] = b[k]
    BY <1>1, <1>3
  <2>. QED  BY <1>3, <2>1, SeqEqual
<1>5. p = a
  <2>1. ASSUME NEW k \in 1 .. Len(a) PROVE p[k] = a[k]
    <3>1. p[k] = t[Len(b) + k]
      BY <1>1, <1>3
    <3>2. Len(b) + k \in 1 .. Len(b) + Len(a) /\ ~(Len(b) + k <= Len(b)) /\ Len(b) + k - Len(b) = k
      BY <1>1
    <3>3. t[Len(b) + k] = a[Len(b) + k - Len(b)]
      BY <1>1, <3>2
    <3>. QED  BY <3>1, <3>2, <3>3
  <2>2. Len(p) = Len(a)
    BY <1>1, <1>3
  <2>. QED  BY <1>3, <2>1, <2>2, SeqEqual
<1>. QED  BY <1>4, <1>5 DEF f, p, t

\* The beginning of a beginning.
LEMMA PrefixOfPrefix ==
    ASSUME NEW S, NEW t \in Seq(S), NEW n \in 0 .. Len(t), NEW m \in 0 .. n
    PROVE  SubSeq(SubSeq(t, 1, n), 1, m) = SubSeq(t, 1, m)
<1> DEFINE a == SubSeq(t, 1, n)
           b == SubSeq(a, 1, m)
           c == SubSeq(t, 1, m)
<1>1. Len(t) \in Nat /\ m \in 0 .. Len(t)
  OBVIOUS
<1>2. a \in Seq(S) /\ Len(a) = n /\ \A k \in 1 .. n : a[k] = t[k]
  BY SplitSeq
<1>. HIDE DEF a
<1>3. b \in Seq(S) /\ Len(b) = m /\ \A k \in 1 .. m : b[k] = a[k]
  BY <1>2, SplitSeq
<1>4. c \in Seq(S) /\ Len(c) = m /\ \A k \in 1 .. m : c[k] = t[k]
  BY <1>1, SplitSeq
<1>. HIDE DEF b, c
<1>5. \A k \in 1 .. m : b[k] = c[k]
  BY <1>1, <1>2, <1>3, <1>4
<1>6. b = c
  BY <1>3, <1>4, <1>5, SeqEqual
<1>. QED  BY <1>6 DEF a, b, c

\* The end of an end.
LEMMA SuffixOfSuffix ==
    ASSUME NEW S, NEW t \in Seq(S), NEW n \in 0 .. Len(t), NEW m \in 0 .. Len(t) - n
    PROVE  SubSeq(SubSeq(t, n + 1, Len(t)), m + 1, Len(t) - n) = SubSeq(t, n + m + 1, Len(t))
<1> DEFINE a == SubSeq(t, n + 1, Len(t))
           b == SubSeq(a, m + 1, Len(a))
           c == SubSeq(t, n + m + 1, Len(t))
<1>1. Len(t) \in Nat /\ n + m \in 0 .. Len(t)
  OBVIOUS
<1>2. a \in Seq(S) /\ Len(a) = Len(t) - n /\ \A k \in 1 .. Len(t) - n : a[k] = t[n + k]
  BY SplitSeq
<1>. HIDE DEF a
<1>3. b \in Seq(S) /\ Len(b) = Len(a) - m /\ \A k \in 1 .. Len(a) - m : b[k] = a[m + k]
  BY <1>2, SplitSeq
<1>4. /\ c \in Seq(S) /\ Len(c) = Len(t) - (n + m)
      /\ \A k \in 1 .. Len(t) - (n + m) : c[k] = t[n + m + k]
  BY <1>1, SplitSeq
<1>. HIDE DEF b, c
<1>5. ASSUME NEW k \in 1 .. Len(c) PROVE b[k] = c[k]
  <2>1. b[k] = a[m + k] /\ m + k \in 1 .. Len(t) - n
    BY <1>1, <1>2, <1>3, <1>4
  <2>2. a[m + k] = t[n + (m + k)] /\ n + (m + k) = n + m + k
    BY SMTT(30), <1>1, <1>2, <2>1
  <2>3. c[k] = t[n + m + k]
    BY <1>4
  <2>. QED  BY <2>1, <2>2, <2>3
<1>6. b = c
  <2>1. Len(b) = Len(c)
    BY <1>1, <1>2, <1>3, <1>4
  <2>. QED  BY <1>3, <1>4, <1>5, <2>1, SeqEqual
<1>. QED  BY <1>2, <1>6 DEF a, b, c

\* What holds at the start of a loop and is kept by each of its turns holds
\* after each of them.
LEMMA UpToInduction ==
    ASSUME NEW n \in Nat, NEW T, 0 \in T, \A k \in 1 .. n : k - 1 \in T => k \in T
    PROVE  \A k \in 0 .. n : k \in T
<1> DEFINE Out == {k \in 0 .. n : k \notin T}
<1>. SUFFICES ASSUME Out # {} PROVE FALSE
  OBVIOUS
<1>1. PICK m \in Out : \A y \in Out : m <= y
  <2>1. Out \in SUBSET Nat
    OBVIOUS
  <2>. HIDE DEF Out
  <2>. QED  BY <2>1, LeastNumber
<1>2. m \in 1 .. n /\ m - 1 \in 0 .. n /\ ~(m <= m - 1)
  OBVIOUS
<1>3. m - 1 \notin Out
  <2>. HIDE DEF Out
  <2>. QED  BY <1>1, <1>2
<1>. QED  BY <1>2, <1>3

\* A loop that begins with b and goes on from x to g[k][x] in turn k, and what
\* it has after each turn.
TurnsIn(X, g, n) == \A k \in 1 .. n : \A x \in X : g[k][x] \in X
IsLoop(s, b, g, n) == s[0] = b /\ \A k \in 1 .. n : s[k] = g[k][s[k - 1]]

\* There is such a loop, if every turn stays in X.
LEMMA LoopExists ==
    ASSUME NEW n \in Nat, NEW X, NEW b \in X, NEW g, TurnsIn(X, g, n)
    PROVE  \E s : s \in [0 .. n -> X] /\ IsLoop(s, b, g, n)
<1> DEFINE T == {m \in 0 .. n : \E s \in [0 .. m -> X] : IsLoop(s, b, g, m)}
<1>1. 0 \in T
  <2> DEFINE s == [k \in 0 .. 0 |-> b]
  <2>1. s \in [0 .. 0 -> X] /\ IsLoop(s, b, g, 0)
    BY DEF IsLoop
  <2>. HIDE DEF s
  <2>. QED  BY <2>1
<1>2. ASSUME NEW m \in 1 .. n, m - 1 \in T PROVE m \in T
  <2>1. PICK r \in [0 .. m - 1 -> X] : IsLoop(r, b, g, m - 1)
    BY <1>2
  <2> DEFINE s == [k \in 0 .. m |-> IF k < m THEN r[k] ELSE g[m][r[m - 1]]]
  <2>2. g[m][r[m - 1]] \in X
    BY DEF TurnsIn
  <2>3. s \in [0 .. m -> X]
    BY <2>2
  <2>4. s[0] = b
    BY <2>1 DEF IsLoop
  <2>5. ASSUME NEW k \in 1 .. m PROVE s[k] = g[k][s[k - 1]]
    <3>1. CASE k < m
      BY <2>1, <3>1 DEF IsLoop
    <3>2. CASE k = m
      BY <3>2
    <3>. QED  BY <3>1, <3>2
  <2>. HIDE DEF s
  <2>. QED  BY <2>3, <2>4, <2>5 DEF IsLoop
<1>. HIDE DEF T
<1>3. \A m \in 0 .. n : m \in T
  <2>1. \A m \in 1 .. n : m - 1 \in T => m \in T
    BY <1>2
  <2>. QED  BY <1>1, <2>1, UpToInduction
<1>4. n \in T
  <2>1. n \in 0 .. n
    OBVIOUS
  <2>. QED  BY <1>3, <2>1
<1>. QED  BY <1>4 DEF T

\* A beginning of a sequence, and the one that is longer by one.
LEMMA PrefixAppend ==
    ASSUME NEW S, NEW s \in Seq(S), NEW k \in 1 .. Len(s)
    PROVE  /\ SubSeq(s, 1, k - 1) \in Seq(S) /\ Len(SubSeq(s, 1, k - 1)) = k - 1
           /\ s[k] \in S
           /\ SubSeq(s, 1, k) = Append(SubSeq(s, 1, k - 1), s[k])
<1> DEFINE c == SubSeq(s, 1, k - 1)
<1>1. k - 1 \in 0 .. Len(s) /\ k \in 1 .. Len(s) /\ 1 \in 1 .. Len(s) /\ s[k] \in S
  BY ElementOfSeq
<1>2. c \in Seq(S) /\ Len(c) = k - 1
  BY <1>1, SplitSeq
<1>3. SubSeq(s, 1, k) = c \o <<s[k]>>
  BY <1>1, SubSeqRecursiveSecond
<1>. HIDE DEF c
<1>4. Append(c, s[k]) = c \o <<s[k]>>
  BY <1>1, <1>2, AppendIsConcat
<1>. QED  BY <1>1, <1>2, <1>3, <1>4 DEF c

\* What holds of the empty sequence and is kept when an element is put at the
\* end holds of every sequence.
LEMMA AppendInduction ==
    ASSUME NEW S, NEW T, <<>> \in T,
           \A s \in Seq(S), e \in S : s \in T => Append(s, e) \in T
    PROVE  \A s \in Seq(S) : s \in T
<1>. SUFFICES ASSUME NEW s \in Seq(S) PROVE s \in T
  OBVIOUS
<1> DEFINE K == {k \in 0 .. Len(s) : SubSeq(s, 1, k) \in T}
<1>1. Len(s) \in Nat /\ SubSeq(s, 1, Len(s)) = s
  BY SubSeqFull
<1>2. 0 \in K
  <2>1. SubSeq(s, 1, 0) = <<>>
    OBVIOUS
  <2>2. SubSeq(s, 1, 0) \in T
    BY <2>1
  <2>3. 0 \in 0 .. Len(s)
    BY <1>1
  <2>. QED  BY <2>2, <2>3
<1>3. ASSUME NEW k \in 1 .. Len(s), k - 1 \in K PROVE k \in K
  <2>1. SubSeq(s, 1, k) = Append(SubSeq(s, 1, k - 1), s[k])
        /\ SubSeq(s, 1, k - 1) \in Seq(S) /\ s[k] \in S
    BY PrefixAppend
  <2>2. SubSeq(s, 1, k - 1) \in T
    BY <1>3
  <2>3. SubSeq(s, 1, k) \in T
    BY <2>1, <2>2
  <2>. QED  BY <2>3
<1>4. \A k \in 0 .. Len(s) : k \in K
  <2>1. \A k \in 1 .. Len(s) : k - 1 \in K => k \in K
    BY <1>3
  <2>2. \A n \in Nat : 0 \in K /\ (\A k \in 1 .. n : k - 1 \in K => k \in K)
                         => \A k \in 0 .. n : k \in K
    <3>. HIDE DEF K
    <3>. QED  BY UpToInduction, Zenon
  <2>3. 0 \in K /\ Len(s) \in Nat
    BY <1>1, <1>2
  <2>. HIDE DEF K
  <2>. QED  BY <2>1, <2>2, <2>3, Zenon
<1>5. Len(s) \in K
  <2>1. Len(s) \in 0 .. Len(s)
    BY <1>1
  <2>. HIDE DEF K
  <2>. QED  BY <1>4, <2>1
<1>6. SubSeq(s, 1, Len(s)) \in T
  BY <1>5
<1>. QED  BY <1>1, <1>6, Zenon

\* FlattenSeq puts one sequence after the other.
FlattenedUpTo(ss) ==
    CHOOSE f : f = [i \in 1 .. Len(ss) |-> IF i = 1 THEN ss[i] ELSE f[i - 1] \o ss[i]]

\* It is such a sequence, and FlattenSeq is its last element.
LEMMA FlattenTurns ==
    ASSUME NEW S, NEW ss \in Seq(Seq(S)), Len(ss) # 0
    PROVE  /\ FlattenSeq(ss) = FlattenedUpTo(ss)[Len(ss)]
           /\ FlattenedUpTo(ss)[1] = ss[1]
           /\ \A i \in 2 .. Len(ss) : FlattenedUpTo(ss)[i] = FlattenedUpTo(ss)[i - 1] \o ss[i]
           /\ \A i \in 1 .. Len(ss) : FlattenedUpTo(ss)[i] \in Seq(S)
<1> DEFINE n == Len(ss)
           Turns(f) == f = [i \in 1 .. n |-> IF i = 1 THEN ss[i] ELSE f[i - 1] \o ss[i]]
           g == [k \in 1 .. n |-> [x \in Seq(S) |-> x \o ss[k]]]
           h == FlattenedUpTo(ss)
<1>1. n \in Nat /\ n > 0 /\ \A k \in 1 .. n : ss[k] \in Seq(S)
  BY ElementOfSeq
<1>2. FlattenSeq(ss) = h[n] /\ h = CHOOSE f : Turns(f)
  BY DEF FlattenSeq, FlattenedUpTo
<1>. HIDE DEF n, h
<1>3. PICK s : s \in [0 .. n -> Seq(S)] /\ IsLoop(s, <<>>, g, n)
  <2>1. ASSUME NEW k \in 1 .. n, NEW x \in Seq(S) PROVE x \o ss[k] \in Seq(S)
    BY <1>1, ConcatProperties
  <2>2. TurnsIn(Seq(S), g, n)
    BY <2>1 DEF TurnsIn
  <2>3. <<>> \in Seq(S)
    OBVIOUS
  <2>. HIDE DEF g
  <2>. QED  BY <1>1, <2>2, <2>3, LoopExists
<1>4. \A k \in 1 .. n : s[k] = s[k - 1] \o ss[k]
  <2>1. ASSUME NEW k \in 1 .. n PROVE s[k] = s[k - 1] \o ss[k]
    <3>1. s[k] = g[k][s[k - 1]]
      <4>. HIDE DEF g
      <4>. QED  BY <1>3 DEF IsLoop
    <3>2. s[k - 1] \in Seq(S)
      <4>1. k - 1 \in 0 .. n
        BY <1>1
      <4>. QED  BY <1>3, <4>1
    <3>. QED  BY <3>1, <3>2
  <2>. QED  BY <2>1
<1>5. s[1] = ss[1]
  <2>1. s[0] = <<>> /\ 1 \in 1 .. n /\ 1 - 1 = 0 /\ ss[1] \in Seq(S)
    BY <1>1, <1>3 DEF IsLoop
  <2>2. s[1] = <<>> \o ss[1]
    BY <1>4, <2>1
  <2>. QED  BY <2>1, <2>2, ConcatEmptySeq
<1> DEFINE f == [i \in 1 .. n |-> s[i]]
<1>6. Turns(f)
  <2>1. ASSUME NEW i \in 1 .. n PROVE f[i] = IF i = 1 THEN ss[i] ELSE f[i - 1] \o ss[i]
    <3>1. CASE i = 1
      BY <3>1, <1>1, <1>5
    <3>2. CASE i # 1
      <4>1. i - 1 \in 1 .. n /\ i \in 1 .. n
        BY <3>2, <1>1
      <4>2. f[i - 1] = s[i - 1] /\ f[i] = s[i]
        BY <4>1
      <4>. QED  BY <3>2, <4>1, <4>2, <1>4
    <3>. QED  BY <3>1, <3>2
  <2>. QED  BY <2>1
<1>. HIDE DEF f
<1>7. Turns(h)
  <2>. HIDE DEF Turns
  <2>. QED  BY <1>2, <1>6
<1>8. h[1] = ss[1] /\ \A i \in 2 .. n : h[i] = h[i - 1] \o ss[i]
  <2>1. \A i \in 1 .. n : h[i] = IF i = 1 THEN ss[i] ELSE h[i - 1] \o ss[i]
    BY <1>7
  <2>2. 1 \in 1 .. n /\ \A i \in 2 .. n : i \in 1 .. n /\ i # 1
    BY <1>1
  <2>. QED  BY <2>1, <2>2
<1>9. \A i \in 1 .. n : h[i] \in Seq(S)
  <2> DEFINE T == {i \in 0 .. n : i > 0 => h[i] \in Seq(S)}
  <2>1. ASSUME NEW i \in 1 .. n, i - 1 \in T PROVE h[i] \in Seq(S)
    <3>1. CASE i = 1
      BY <3>1, <1>1, <1>8
    <3>2. CASE i # 1
      <4>1. i \in 2 .. n /\ i - 1 > 0
        BY <3>2, <1>1
      <4>2. h[i - 1] \in Seq(S) /\ ss[i] \in Seq(S) /\ h[i] = h[i - 1] \o ss[i]
        BY <4>1, <2>1, <1>1, <1>8
      <4>. QED  BY <4>2, ConcatProperties
    <3>. QED  BY <3>1, <3>2
  <2>2. \A i \in 1 .. n : i - 1 \in T => i \in T
    BY <2>1
  <2>3. 0 \in T
    BY <1>1
  <2>4. \A i \in 0 .. n : i \in T
    <3>. HIDE DEF T
    <3>. QED  BY <1>1, <2>2, <2>3, UpToInduction
  <2>. QED  BY <2>4
<1>. QED  BY <1>2, <1>8, <1>9 DEF n, h

\* Nothing, put together.
LEMMA FlattenEmpty == FlattenSeq(<<>>) = <<>>
  BY DEF FlattenSeq

\* What sequences over S are put together to is one.
LEMMA FlattenType ==
    ASSUME NEW S, NEW ss \in Seq(Seq(S))
    PROVE  FlattenSeq(ss) \in Seq(S)
<1>1. CASE Len(ss) = 0
  <2>1. ss = <<>> /\ <<>> \in Seq(S)
    BY <1>1
  <2>2. FlattenSeq(ss) = <<>>
    BY <2>1, FlattenEmpty
  <2>. QED  BY <2>1, <2>2
<1>2. CASE Len(ss) # 0
  <2>1. Len(ss) \in 1 .. Len(ss)
    BY <1>2
  <2>2. FlattenSeq(ss) = FlattenedUpTo(ss)[Len(ss)] /\ FlattenedUpTo(ss)[Len(ss)] \in Seq(S)
    BY <1>2, <2>1, FlattenTurns
  <2>. QED  BY <2>2
<1>. QED  BY <1>1, <1>2

\* A sequence more is put at the end.
LEMMA FlattenAppend ==
    ASSUME NEW S, NEW ss \in Seq(Seq(S)), NEW e \in Seq(S)
    PROVE  FlattenSeq(Append(ss, e)) = FlattenSeq(ss) \o e
<1> DEFINE n == Len(ss)
           tt == Append(ss, e)
           f == FlattenedUpTo(tt)
           h == FlattenedUpTo(ss)
<1>1. /\ n \in Nat /\ tt \in Seq(Seq(S)) /\ Len(tt) = n + 1 /\ tt[n + 1] = e
      /\ \A k \in 1 .. n : tt[k] = ss[k]
  OBVIOUS
<1>. HIDE DEF tt, n
<1>2. /\ FlattenSeq(tt) = f[n + 1]
      /\ f[1] = tt[1]
      /\ \A i \in 2 .. n + 1 : f[i] = f[i - 1] \o tt[i]
  <2>1. Len(tt) # 0
    BY <1>1
  <2>2. /\ FlattenSeq(tt) = f[Len(tt)]
        /\ f[1] = tt[1]
        /\ \A i \in 2 .. Len(tt) : f[i] = f[i - 1] \o tt[i]
    BY <1>1, <2>1, FlattenTurns
  <2>. HIDE DEF f
  <2>. QED  BY <1>1, <2>2
<1>3. CASE n = 0
  <2>1. ss = <<>> /\ FlattenSeq(ss) = <<>>
    BY <1>3, FlattenEmpty DEF n
  <2>2. FlattenSeq(tt) = e
    BY <1>1, <1>2, <1>3
  <2>. QED  BY <2>1, <2>2, ConcatEmptySeq DEF tt
<1>4. CASE n # 0
  <2>1. /\ FlattenSeq(ss) = h[n]
        /\ h[1] = ss[1]
        /\ \A i \in 2 .. n : h[i] = h[i - 1] \o ss[i]
    BY <1>4, FlattenTurns DEF n
  <2>. HIDE DEF f, h
  <2> DEFINE T == {i \in 0 .. n : i > 0 => f[i] = h[i]}
  <2>2. ASSUME NEW i \in 1 .. n, i - 1 \in T PROVE i \in T
    <3>1. CASE i = 1
      BY <3>1, <1>1, <1>2, <2>1
    <3>2. CASE i # 1
      <4>1. i \in 2 .. n /\ i \in 2 .. n + 1 /\ i - 1 > 0
        BY <3>2, <1>1
      <4>2. f[i] = f[i - 1] \o tt[i] /\ h[i] = h[i - 1] \o ss[i] /\ tt[i] = ss[i]
        BY <4>1, <1>1, <1>2, <2>1
      <4>3. f[i - 1] = h[i - 1]
        BY <4>1, <2>2
      <4>4. f[i] = h[i]
        BY <4>2, <4>3
      <4>. QED  BY <4>4
    <3>. QED  BY <3>1, <3>2
  <2>3. 0 \in T
    BY <1>1
  <2>4. \A i \in 1 .. n : i - 1 \in T => i \in T
    BY <2>2
  <2>5. \A i \in 0 .. n : i \in T
    <3>. HIDE DEF T
    <3>. QED  BY <1>1, <2>3, <2>4, UpToInduction
  <2>6. f[n] = h[n]
    <3>1. n \in 0 .. n /\ n > 0
      BY <1>1, <1>4
    <3>. QED  BY <3>1, <2>5
  <2>7. FlattenSeq(tt) = f[n] \o e
    <3>1. n + 1 \in 2 .. n + 1 /\ n \in Nat
      BY <1>1, <1>4
    <3>2. ASSUME NEW i \in 2 .. n + 1, NEW j \in Nat, i = j + 1
          PROVE  f[i] = f[j] \o tt[i]
      <4>1. i - 1 = j
        BY <3>2
      <4>. QED  BY <4>1, <1>2
    <3>3. f[n + 1] = f[n] \o tt[n + 1]
      BY <3>1, <3>2, Zenon
    <3>4. f[n + 1] = f[n] \o e
      BY <3>1, <3>3, <1>1
    <3>. QED  BY <3>4, <1>2
  <2>. QED  BY <2>1, <2>6, <2>7 DEF tt
<1>. QED  BY <1>3, <1>4

\* It does not matter which of three sequences are put together first.
LEMMA ConcatAssociates ==
    ASSUME NEW S
    PROVE  \A x, y, z \in Seq(S) : (x \o y) \o z = x \o (y \o z)
<1>. TAKE x, y, z \in Seq(S)
<1>. QED  BY ConcatAssociative

\* Sequences of sequences are put together as what they hold is.
LEMMA FlattenConcat ==
    ASSUME NEW S, NEW a \in Seq(Seq(S)), NEW b \in Seq(Seq(S))
    PROVE  FlattenSeq(a \o b) = FlattenSeq(a) \o FlattenSeq(b)
<1> DEFINE T == {t \in Seq(Seq(S)) : FlattenSeq(a \o t) = FlattenSeq(a) \o FlattenSeq(t)}
<1>1. FlattenSeq(a) \in Seq(S)
  BY FlattenType
<1>2. <<>> \in T
  <2>1. a \o <<>> = a /\ <<>> \in Seq(Seq(S))
    BY ConcatEmptySeq
  <2>2. FlattenSeq(a) \o <<>> = FlattenSeq(a)
    BY <1>1, ConcatEmptySeq
  <2>3. FlattenSeq(a \o <<>>) = FlattenSeq(a) \o FlattenSeq(<<>>)
    BY <2>1, <2>2, FlattenEmpty
  <2>. QED  BY <2>1, <2>3
<1>3. ASSUME NEW t \in Seq(Seq(S)), NEW e \in Seq(S), t \in T PROVE Append(t, e) \in T
  <2>1. Append(t, e) \in Seq(Seq(S)) /\ a \o t \in Seq(Seq(S)) /\ FlattenSeq(t) \in Seq(S)
    BY AppendProperties, ConcatProperties, FlattenType
  <2>2. FlattenSeq(a \o Append(t, e)) = FlattenSeq(a \o t) \o e
    <3>1. a \o Append(t, e) = Append(a \o t, e)
      BY ConcatAppend
    <3>2. FlattenSeq(Append(a \o t, e)) = FlattenSeq(a \o t) \o e
      BY <2>1, FlattenAppend
    <3>. QED  BY <3>1, <3>2
  <2>3. FlattenSeq(Append(t, e)) = FlattenSeq(t) \o e
    BY FlattenAppend
  <2>4. (FlattenSeq(a) \o FlattenSeq(t)) \o e = FlattenSeq(a) \o (FlattenSeq(t) \o e)
    <3>1. FlattenSeq(a) \in Seq(S) /\ FlattenSeq(t) \in Seq(S) /\ e \in Seq(S)
      BY <1>1, <2>1
    <3>2. \A x, y, z \in Seq(S) : (x \o y) \o z = x \o (y \o z)
      BY ConcatAssociates, SMTT(30)
    <3> DEFINE u == FlattenSeq(a)
               v == FlattenSeq(t)
    <3>. HIDE DEF u, v
    <3>3. u \in Seq(S) /\ v \in Seq(S) /\ e \in Seq(S)
      BY <3>1 DEF u, v
    <3>4. (u \o v) \o e = u \o (v \o e)
      BY <3>2, <3>3, Zenon
    <3>. QED  BY <3>4 DEF u, v
  <2>5. FlattenSeq(a \o t) = FlattenSeq(a) \o FlattenSeq(t)
    BY <1>3
  <2>6. FlattenSeq(a \o Append(t, e)) = FlattenSeq(a) \o FlattenSeq(Append(t, e))
    BY <2>2, <2>3, <2>4, <2>5
  <2>. QED  BY <2>1, <2>6
<1>4. \A t \in Seq(Seq(S)) : t \in T
  <2>1. \A t \in Seq(Seq(S)), e \in Seq(S) : t \in T => Append(t, e) \in T
    BY <1>3
  <2>. HIDE DEF T
  <2>. QED  BY <1>2, <2>1, AppendInduction
<1>. QED  BY <1>4

\* The elements of what is put together, by the sequence they come from.
LEMMA FlattenPrefix ==
    ASSUME NEW S, NEW ss \in Seq(Seq(S)), NEW m \in 1 .. Len(ss)
    PROVE  /\ FlattenSeq(SubSeq(ss, 1, m)) \in Seq(S) /\ FlattenSeq(SubSeq(ss, 1, m - 1)) \in Seq(S)
           /\ ss[m] \in Seq(S)
           /\ FlattenSeq(SubSeq(ss, 1, m)) = FlattenSeq(SubSeq(ss, 1, m - 1)) \o ss[m]
<1>1. /\ SubSeq(ss, 1, m) = Append(SubSeq(ss, 1, m - 1), ss[m])
      /\ SubSeq(ss, 1, m - 1) \in Seq(Seq(S)) /\ ss[m] \in Seq(S)
  BY PrefixAppend
<1>2. SubSeq(ss, 1, m) \in Seq(Seq(S))
  BY <1>1, AppendProperties
<1>3. FlattenSeq(Append(SubSeq(ss, 1, m - 1), ss[m])) = FlattenSeq(SubSeq(ss, 1, m - 1)) \o ss[m]
  BY <1>1, FlattenAppend
<1>. QED  BY <1>1, <1>2, <1>3, FlattenType

\* A sequence of sequences is cut between two of them.
LEMMA FlattenSplit ==
    ASSUME NEW S, NEW ss \in Seq(Seq(S)), NEW m \in 0 .. Len(ss)
    PROVE  LET f == FlattenSeq(SubSeq(ss, 1, m))
               p == FlattenSeq(SubSeq(ss, m + 1, Len(ss)))
           IN  /\ f \in Seq(S) /\ p \in Seq(S) /\ FlattenSeq(ss) = f \o p
               /\ Len(f) \in 0 .. Len(FlattenSeq(ss))
               /\ SubSeq(FlattenSeq(ss), 1, Len(f)) = f
               /\ SubSeq(FlattenSeq(ss), Len(f) + 1, Len(FlattenSeq(ss))) = p
<1> DEFINE a == SubSeq(ss, 1, m)
           b == SubSeq(ss, m + 1, Len(ss))
           f == FlattenSeq(a)
           p == FlattenSeq(b)
<1>1. a \in Seq(Seq(S)) /\ b \in Seq(Seq(S)) /\ a \o b = ss
  BY SplitSeq
<1>. HIDE DEF a, b
<1>2. f \in Seq(S) /\ p \in Seq(S)
  BY <1>1, FlattenType
<1>3. FlattenSeq(ss) = f \o p
  <2>1. FlattenSeq(a \o b) = f \o p
    BY <1>1, FlattenConcat
  <2>. QED  BY <1>1, <2>1
<1>. HIDE DEF f, p
<1>4. Len(f) \in 0 .. Len(f \o p)
  <2>1. Len(f \o p) = Len(f) + Len(p) /\ Len(f) \in Nat /\ Len(p) \in Nat
    BY <1>2, ConcatSeq
  <2>. QED  BY <2>1
<1>5. SubSeq(f \o p, 1, Len(f)) = f /\ SubSeq(f \o p, Len(f) + 1, Len(f \o p)) = p
  BY <1>2, ConcatSplit
<1>. QED  BY <1>2, <1>3, <1>4, <1>5 DEF a, b, f, p

\* The j-th element of the m-th sequence, in what they are put together to.
LEMMA FlattenAt ==
    ASSUME NEW S, NEW ss \in Seq(Seq(S)), NEW m \in 1 .. Len(ss), NEW j \in 1 .. Len(ss[m])
    PROVE  LET n == Len(FlattenSeq(SubSeq(ss, 1, m - 1)))
           IN  /\ n \in Nat /\ Len(FlattenSeq(SubSeq(ss, 1, m))) = n + Len(ss[m])
               /\ n + Len(ss[m]) <= Len(FlattenSeq(ss))
               /\ FlattenSeq(ss)[n + j] = ss[m][j]
<1> DEFINE f == FlattenSeq(SubSeq(ss, 1, m - 1))
           e == FlattenSeq(SubSeq(ss, 1, m))
           p == FlattenSeq(SubSeq(ss, m + 1, Len(ss)))
           l == ss[m]
           t == FlattenSeq(ss)
<1>1. f \in Seq(S) /\ e \in Seq(S) /\ l \in Seq(S) /\ e = f \o l
  BY FlattenPrefix
<1>2. p \in Seq(S) /\ t = e \o p
  <2>1. m \in 0 .. Len(ss)
    OBVIOUS
  <2>. QED  BY <2>1, FlattenSplit
<1>. HIDE DEF f, e, p, l, t
<1>3. /\ Len(f) \in Nat /\ Len(l) \in Nat /\ Len(p) \in Nat
      /\ Len(e) = Len(f) + Len(l) /\ Len(t) = Len(e) + Len(p)
      /\ \A i \in 1 .. Len(f) + Len(l) : e[i] = IF i <= Len(f) THEN f[i] ELSE l[i - Len(f)]
      /\ \A i \in 1 .. Len(e) + Len(p) : t[i] = IF i <= Len(e) THEN e[i] ELSE p[i - Len(e)]
  <2>1. /\ Len(f) \in Nat /\ Len(l) \in Nat /\ Len(e) = Len(f) + Len(l)
        /\ \A i \in 1 .. Len(f) + Len(l) : e[i] = IF i <= Len(f) THEN f[i] ELSE l[i - Len(f)]
    BY <1>1, ConcatProperties
  <2>2. /\ Len(p) \in Nat /\ Len(t) = Len(e) + Len(p)
        /\ \A i \in 1 .. Len(e) + Len(p) : t[i] = IF i <= Len(e) THEN e[i] ELSE p[i - Len(e)]
    BY <1>1, <1>2, ConcatProperties
  <2>. QED  BY <2>1, <2>2
<1>4. j \in 1 .. Len(l)
  BY DEF l
<1>5. Len(f) + j \in 1 .. Len(f) + Len(l) /\ Len(f) + j \in 1 .. Len(e) + Len(p)
      /\ ~(Len(f) + j <= Len(f)) /\ Len(f) + j - Len(f) = j /\ Len(f) + j <= Len(e)
      /\ Len(f) + Len(l) <= Len(t)
  <2>1. /\ Len(f) \in Nat /\ Len(l) \in Nat /\ Len(p) \in Nat
        /\ Len(e) = Len(f) + Len(l) /\ Len(t) = Len(e) + Len(p)
    BY <1>3
  <2>2. \A x, y, z \in Nat : \A i \in 1 .. y :
           /\ x + i \in 1 .. x + y /\ x + i \in 1 .. x + y + z /\ ~(x + i <= x)
           /\ x + i - x = i /\ x + i <= x + y /\ x + y <= x + y + z
    OBVIOUS
  <2>. QED  BY <1>4, <2>1, <2>2
<1>6. t[Len(f) + j] = e[Len(f) + j]
  BY <1>3, <1>5
<1>7. e[Len(f) + j] = l[j]
  BY <1>3, <1>5
<1>. QED  BY <1>3, <1>5, <1>6, <1>7 DEF f, e, l, t

\* The elements of s are found in t, in the same order.
Rises(f, n) == \A i, j \in 1 .. n : i < j => f[i] < f[j]
Places(f, s, t) ==
    /\ f \in [1 .. Len(s) -> 1 .. Len(t)] /\ Rises(f, Len(s))
    /\ \A i \in 1 .. Len(s) : s[i] = t[f[i]]
Embeds(s, t) == \E f : Places(f, s, t)

\* A sequence is found in itself.
LEMMA EmbedsSelf ==
    ASSUME NEW S, NEW s \in Seq(S)
    PROVE  Embeds(s, s)
<1> DEFINE f == [i \in 1 .. Len(s) |-> i]
<1>1. Places(f, s, s)
  BY DEF Places, Rises
<1>. QED  BY <1>1 DEF Embeds

\* The empty one is found in every one.
LEMMA EmbedsEmpty ==
    ASSUME NEW S, NEW t \in Seq(S)
    PROVE  Embeds(<<>>, t)
<1> DEFINE f == [i \in 1 .. 0 |-> i]
<1>1. Len(<<>>) = 0
  OBVIOUS
<1>2. Places(f, <<>>, t)
  BY <1>1 DEF Places, Rises
<1>. QED  BY <1>2 DEF Embeds

\* What is found in one that is found in a third is found there.
LEMMA EmbedsTransitive ==
    ASSUME NEW S, NEW s \in Seq(S), NEW t \in Seq(S), NEW u \in Seq(S),
           Embeds(s, t), Embeds(t, u)
    PROVE  Embeds(s, u)
<1>1. PICK f : Places(f, s, t)
  BY DEF Embeds
<1>2. PICK g : Places(g, t, u)
  BY DEF Embeds
<1> DEFINE h == [i \in 1 .. Len(s) |-> g[f[i]]]
<1>3. Len(s) \in Nat /\ Len(t) \in Nat /\ Len(u) \in Nat
  OBVIOUS
<1>4. \A i \in 1 .. Len(s) : f[i] \in 1 .. Len(t)
  BY <1>1 DEF Places
<1>5. h \in [1 .. Len(s) -> 1 .. Len(u)]
  BY <1>2, <1>4 DEF Places
<1>6. Rises(h, Len(s))
  <2>1. ASSUME NEW i \in 1 .. Len(s), NEW j \in 1 .. Len(s), i < j PROVE h[i] < h[j]
    <3>1. f[i] < f[j]
      BY <2>1, <1>1 DEF Places, Rises
    <3>2. g[f[i]] < g[f[j]]
      BY <3>1, <1>2, <1>4 DEF Places, Rises
    <3>. QED  BY <3>2
  <2>. HIDE DEF h
  <2>. QED  BY <2>1 DEF Rises
<1>7. \A i \in 1 .. Len(s) : s[i] = u[h[i]]
  BY <1>1, <1>2, <1>4 DEF Places
<1>. HIDE DEF h
<1>. QED  BY <1>5, <1>6, <1>7 DEF Embeds, Places

\* Two that are found in two others are found, put together, in those put
\* together.
LEMMA EmbedsConcat ==
    ASSUME NEW S, NEW a \in Seq(S), NEW b \in Seq(S), NEW c \in Seq(S), NEW d \in Seq(S),
           Embeds(a, b), Embeds(c, d)
    PROVE  Embeds(a \o c, b \o d)
<1>1. PICK f : Places(f, a, b)
  BY DEF Embeds
<1>2. PICK g : Places(g, c, d)
  BY DEF Embeds
<1> DEFINE s == a \o c
           t == b \o d
           p == Len(a)
           q == Len(b)
           h == [i \in 1 .. Len(s) |-> IF i <= p THEN f[i] ELSE q + g[i - p]]
<1>3. /\ p \in Nat /\ q \in Nat /\ Len(c) \in Nat /\ Len(d) \in Nat
      /\ Len(s) = p + Len(c) /\ Len(t) = q + Len(d)
      /\ \A i \in 1 .. Len(s) : s[i] = IF i <= p THEN a[i] ELSE c[i - p]
      /\ \A i \in 1 .. Len(t) : t[i] = IF i <= q THEN b[i] ELSE d[i - q]
  BY ConcatProperties
<1>4. \A i \in 1 .. p : f[i] \in 1 .. q /\ a[i] = b[f[i]]
  BY <1>1 DEF Places
<1>5. \A i \in 1 .. Len(c) : g[i] \in 1 .. Len(d) /\ c[i] = d[g[i]]
  BY <1>2 DEF Places
<1>6. Rises(f, p) /\ Rises(g, Len(c))
  BY <1>1, <1>2 DEF Places
<1>. HIDE DEF s, t, p, q
<1>7. ASSUME NEW i \in 1 .. Len(s)
      PROVE  /\ i \in 1 .. p => h[i] = f[i]
             /\ i \notin 1 .. p => i - p \in 1 .. Len(c) /\ h[i] = q + g[i - p]
             /\ h[i] \in 1 .. Len(t) /\ s[i] = t[h[i]]
  <2>1. CASE i <= p
    <3>1. i \in 1 .. p /\ h[i] = f[i]
      BY <2>1, <1>3
    <3>2. f[i] \in 1 .. q /\ f[i] \in 1 .. Len(t) /\ a[i] = b[f[i]]
      BY <3>1, <1>3, <1>4
    <3>3. t[f[i]] = b[f[i]] /\ s[i] = a[i]
      BY <3>1, <3>2, <1>3
    <3>. QED  BY <3>1, <3>2, <3>3
  <2>2. CASE ~(i <= p)
    <3>1. i - p \in 1 .. Len(c) /\ h[i] = q + g[i - p] /\ i \notin 1 .. p
      BY <2>2, <1>3
    <3>2. g[i - p] \in 1 .. Len(d) /\ c[i - p] = d[g[i - p]]
      BY <3>1, <1>5
    <3>3. h[i] \in 1 .. Len(t) /\ ~(h[i] <= q) /\ h[i] - q = g[i - p]
      <4>1. q \in Nat /\ Len(d) \in Nat /\ Len(t) = q + Len(d)
        BY <1>3
      <4>2. \A x \in 1 .. Len(d) : \A y : y = q + x =>
               y \in 1 .. q + Len(d) /\ ~(y <= q) /\ y - q = x
        BY <4>1
      <4>3. h[i] = q + g[i - p] /\ g[i - p] \in 1 .. Len(d)
        BY <3>1, <3>2
      <4>. HIDE DEF h
      <4>4. h[i] \in 1 .. q + Len(d) /\ ~(h[i] <= q) /\ h[i] - q = g[i - p]
        BY <4>2, <4>3, Zenon
      <4>. QED  BY <4>1, <4>4, Zenon
    <3>4. t[h[i]] = d[h[i] - q] /\ s[i] = c[i - p]
      BY <2>2, <3>3, <1>3
    <3>. QED  BY <3>1, <3>2, <3>3, <3>4
  <2>. QED  BY <2>1, <2>2
<1>8. h \in [1 .. Len(s) -> 1 .. Len(t)]
  BY <1>7
<1>9. Rises(h, Len(s))
  <2>1. ASSUME NEW i \in 1 .. Len(s), NEW j \in 1 .. Len(s), i < j PROVE h[i] < h[j]
    <3>. HIDE DEF h
    <3>1. CASE j \in 1 .. p
      <4>1. i \in 1 .. p
        <5>1. p \in Nat /\ Len(s) \in Nat
          BY <1>3
        <5>. QED  BY <2>1, <3>1, <5>1
      <4>2. f[i] < f[j]
        BY <2>1, <3>1, <4>1, <1>6 DEF Rises
      <4>. QED  BY <3>1, <4>1, <4>2, <1>7
    <3>2. CASE j \notin 1 .. p
      <4>1. j - p \in 1 .. Len(c) /\ h[j] = q + g[j - p]
        BY <3>2, <1>7
      <4>2. CASE i \in 1 .. p
        <5>1. f[i] \in 1 .. q /\ h[i] = f[i] /\ g[j - p] \in 1 .. Len(d)
          BY <4>1, <4>2, <1>4, <1>5, <1>7
        <5>2. q \in Nat /\ Len(d) \in Nat
          BY <1>3
        <5>3. \A x \in 1 .. q, y \in 1 .. Len(d) : x < q + y
          BY <5>2
        <5>. QED  BY <4>1, <5>1, <5>3
      <4>3. CASE i \notin 1 .. p
        <5>1. i - p \in 1 .. Len(c) /\ h[i] = q + g[i - p]
          BY <4>3, <1>7
        <5>2. i - p < j - p
          BY <2>1, <1>3
        <5>3. g[i - p] < g[j - p]
          BY <4>1, <5>1, <5>2, <1>6 DEF Rises
        <5>4. g[i - p] \in Int /\ g[j - p] \in Int
          BY <4>1, <5>1, <1>5
        <5>5. q + g[i - p] < q + g[j - p]
          <6>1. q \in Nat
            BY <1>3
          <6>2. \A x, y \in Int : x < y => q + x < q + y
            BY <6>1
          <6>. QED  BY <5>3, <5>4, <6>2
        <5>. QED  BY <4>1, <5>1, <5>5
      <4>. QED  BY <4>2, <4>3
    <3>. QED  BY <3>1, <3>2
  <2>. HIDE DEF h
  <2>. QED  BY <2>1 DEF Rises
<1>10. \A i \in 1 .. Len(s) : s[i] = t[h[i]]
  BY <1>7
<1>. HIDE DEF h
<1>. QED  BY <1>8, <1>9, <1>10 DEF Embeds, Places, s, t

\* What is put after a sequence, or before it, does not matter.
LEMMA EmbedsInLonger ==
    ASSUME NEW S, NEW s \in Seq(S), NEW t \in Seq(S), NEW u \in Seq(S), Embeds(s, t)
    PROVE  Embeds(s, t \o u) /\ Embeds(s, u \o t)
<1>1. Embeds(<<>>, u) /\ <<>> \in Seq(S)
  BY EmbedsEmpty
<1>2. Embeds(s \o <<>>, t \o u) /\ Embeds(<<>> \o s, u \o t)
  BY <1>1, EmbedsConcat
<1>3. s \o <<>> = s /\ <<>> \o s = s
  BY ConcatEmptySeq
<1>. QED  BY <1>2, <1>3
=============================================================================
