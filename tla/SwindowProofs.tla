---------------------------- MODULE SwindowProofs ----------------------------
(***************************************************************************)
(* Proofs about Swindow: the five numbers describe one screen, scrolling   *)
(* up undoes scrolling down, and a window follows its output or stays      *)
(* where it was scrolled to, in a buffer that stays bounded.               *)
(*                                                                         *)
(* They hold when no message is taller than the screen (MessagesFit), in   *)
(* every run of RegularSpec: a window is cleared, and written to below     *)
(* rows that clearing left blank, only where its messages have one line,   *)
(* and a new wrap changes the lines of none.  README.md says what the code *)
(* does when that is not so.                                               *)
(***************************************************************************)
EXTENDS Swindow, ListLemmas

MessagesFit ==
    \A len \in TextLens, r \in RowSizes, c \in ColSizes, wrap \in BOOLEAN :
        Height(len, c, wrap) <= r

WinType ==
    [buf : Seq(TextLens), rows : RowSizes, cols : ColSizes, wrap : BOOLEAN, max : Nat,
     v : [top : Nat, bot : Nat, top_hidden : Nat, bottom_hidden : Nat, bottom_blank : Nat,
          ok : BOOLEAN]]

\* The top of the screen is a place in the buffer.
Placed(w) == w.v.top \in 1 .. Newest(w) /\ w.v.top_hidden \in 0 .. LinesOf(w, w.v.top)

\* The bottom is the place that many rows below it.  The message bot points to
\* may end above it: swindow_add moves bot on without a look at bottom_hidden.
Shown(w) ==
    /\ w.v.bot \in 1 .. Newest(w) /\ w.v.bottom_hidden \in Nat
    /\ w.v.bottom_blank \in 0 .. w.rows
    /\ DownTo(w) - Above(w) + w.v.bottom_blank = w.rows
    /\ w.v.bottom_blank > 0 => AtEnd(w)

\* All of the top message is hidden, or lines are hidden above blank rows, only
\* where a window of one-line messages was cleared.
Good(w) ==
    /\ Placed(w) /\ Shown(w)
    /\ w.v.top_hidden = LinesOf(w, w.v.top) => AtEnd(w) /\ OneLines(w)
    /\ w.v.bottom_blank > 0 => Above(w) = 0 \/ OneLines(w)

Empty(w) ==
    /\ w.buf = <<>> /\ w.v.top = 0 /\ w.v.bot = 0
    /\ w.v.top_hidden = 0 /\ w.v.bottom_hidden = 0 /\ w.v.bottom_blank = w.rows

Fine(w) == w \in WinType /\ w.max >= w.rows /\ (w.v.ok => Empty(w) \/ Good(w))

IInv == Fine(Win) /\ scroll_on_output \in ScrollOnOutput

-----------------------------------------------------------------------------
(***************************************************************************)
(* Lines of messages                                                       *)
(***************************************************************************)

\* A text takes a line at least.
LEMMA HeightType ==
    ASSUME NEW len \in Nat, NEW width \in Nat \ {0}, NEW wrap \in BOOLEAN
    PROVE  Height(len, width, wrap) \in Nat \ {0}
<1>1. ASSUME NEW x \in Nat \ {0}, NEW y \in Nat \ {0} PROVE CeilDiv(x, y) \in Nat \ {0}
  BY DEF CeilDiv
<1>2. CASE len <= width
  BY <1>2 DEF Height
<1>3. CASE len > width /\ ~wrap
  <2>1. Height(len, width, wrap) = CeilDiv(len, width)
    BY <1>3 DEF Height
  <2>. QED  BY <1>1, <1>3, <2>1
<1>4. CASE len > width /\ wrap /\ width = 1
  BY <1>4 DEF Height
<1>5. CASE len > width /\ wrap /\ width # 1
  <2>1. Height(len, width, wrap) = 1 + CeilDiv(len - width, width - 1)
    BY <1>5 DEF Height
  <2>2. len - width \in Nat \ {0} /\ width - 1 \in Nat \ {0}
    BY <1>5
  <2>3. CeilDiv(len - width, width - 1) \in Nat \ {0}
    BY <1>1, <2>2
  <2>. QED  BY <2>1, <2>3
<1>. QED  BY <1>2, <1>3, <1>4, <1>5

\* A sequence of sums exists for every sequence of numbers.
LEMMA SumsExist ==
    ASSUME NEW n \in Nat, NEW h
    PROVE  \E s : s = [k \in 0 .. n |-> IF k = 0 THEN 0 ELSE s[k - 1] + h[k]]
<1> DEFINE Sums(s, m) == s = [k \in 0 .. m |-> IF k = 0 THEN 0 ELSE s[k - 1] + h[k]]
           T == {m \in Nat : ~\E s : Sums(s, m)}
<1>1. SUFFICES T = {}
  OBVIOUS
<1>2. SUFFICES ASSUME T # {} PROVE FALSE
  OBVIOUS
<1>3. PICK m \in T : \A y \in T : m <= y
  BY <1>2, LeastNumber
<1>4. CASE m = 0
  <2> DEFINE s == [k \in 0 .. 0 |-> 0]
  <2>1. Sums(s, 0)
    OBVIOUS
  <2>. QED  BY <1>3, <1>4, <2>1
<1>5. CASE m # 0
  <2>1. m \in Nat /\ m - 1 \in Nat
    BY <1>5
  <2>2. m - 1 \notin T
    <3>. HIDE DEF T
    <3>. QED  BY <1>3, <2>1
  <2>3. PICK r : Sums(r, m - 1)
    <3>. HIDE DEF Sums
    <3>. QED  BY <2>1, <2>2
  <2> DEFINE s == [k \in 0 .. m |-> IF k < m THEN r[k] ELSE r[m - 1] + h[m]]
  <2>4. ASSUME NEW k \in 0 .. m PROVE s[k] = IF k = 0 THEN 0 ELSE s[k - 1] + h[k]
    <3>1. CASE k < m
      BY <2>1, <2>3, <3>1
    <3>2. CASE k = m
      BY <1>5, <2>1, <3>2
    <3>. QED  BY <2>1, <3>1, <3>2
  <2>5. Sums(s, m)
    BY <2>4
  <2>. QED  BY <1>3, <2>5
<1>. QED  BY <1>4, <1>5

\* What is known of a window: its messages are numbered, and each takes between
\* one row and all of them.
LEMMA WinFacts ==
    ASSUME MessagesFit, NEW w \in WinType
    PROVE  /\ Newest(w) \in Nat /\ Newest(w) = Len(w.buf)
           /\ w.rows \in Nat \ {0} /\ w.rows < Word /\ Word \in Nat
           /\ \A k \in 1 .. Newest(w) :
                 LinesOf(w, k) \in 1 .. w.rows /\ (OneLines(w) => LinesOf(w, k) = 1)
<1>1. Newest(w) \in Nat /\ Newest(w) = Len(w.buf)
  BY DEF WinType, Newest
<1>2. w.rows \in RowSizes /\ w.cols \in ColSizes /\ w.wrap \in BOOLEAN /\ w.buf \in Seq(TextLens)
  BY DEF WinType
<1>3. w.rows \in Nat \ {0} /\ w.rows < Word /\ Word \in Nat
  BY <1>2, SwindowAssumption
<1>4. ASSUME NEW k \in 1 .. Newest(w)
      PROVE  LinesOf(w, k) \in 1 .. w.rows /\ (OneLines(w) => LinesOf(w, k) = 1)
  <2>1. w.buf[k] \in TextLens
    BY <1>1, <1>2
  <2>2. w.buf[k] \in Nat /\ w.cols \in Nat \ {0}
    BY <1>2, <2>1, SwindowAssumption
  <2>3. Height(w.buf[k], w.cols, w.wrap) \in Nat \ {0}
    BY <1>2, <2>2, HeightType
  <2>4. Height(w.buf[k], w.cols, w.wrap) <= w.rows
    BY <1>2, <2>1 DEF MessagesFit
  <2>5. OneLines(w) => LinesOf(w, k) = 1
    BY DEF OneLines
  <2>. QED  BY <1>3, <2>3, <2>4, <2>5 DEF LinesOf
<1>. QED  BY <1>1, <1>3, <1>4

\* The sums add up.
LEMMA UpToDef ==
    ASSUME NEW w \in WinType
    PROVE  LinesUpTo(w) = [k \in 0 .. Newest(w) |->
                              IF k = 0 THEN 0 ELSE LinesUpTo(w)[k - 1] + LinesOf(w, k)]
<1> DEFINE N == Newest(w)
           h == [k \in 1 .. N |-> LinesOf(w, k)]
           Sums(s) == s = [k \in 0 .. N |-> IF k = 0 THEN 0 ELSE s[k - 1] + LinesOf(w, k)]
<1>1. N \in Nat
  BY DEF WinType, Newest
<1>2. \E s : s = [k \in 0 .. N |-> IF k = 0 THEN 0 ELSE s[k - 1] + h[k]]
  <2>. HIDE DEF N, h
  <2>. QED  BY <1>1, SumsExist
<1>3. PICK s : s = [k \in 0 .. N |-> IF k = 0 THEN 0 ELSE s[k - 1] + h[k]]
  BY <1>2
<1>4. Sums(s)
  <2>. HIDE DEF N
  <2>1. \A k \in 0 .. N : s[k] = IF k = 0 THEN 0 ELSE s[k - 1] + LinesOf(w, k)
    BY <1>1, <1>3
  <2>. QED  BY <1>3, <2>1
<1>5. LinesUpTo(w) = CHOOSE r : Sums(r)
  BY DEF LinesUpTo
<1>6. Sums(LinesUpTo(w))
  <2>. HIDE DEF Sums
  <2>. QED  BY <1>4, <1>5
<1>. QED  BY <1>6

LEMMA UpToSteps ==
    ASSUME MessagesFit, NEW w \in WinType
    PROVE  /\ LinesUpTo(w)[0] = 0
           /\ \A k \in 1 .. Newest(w) : LinesUpTo(w)[k] = LinesUpTo(w)[k - 1] + LinesOf(w, k)
           /\ \A k \in 0 .. Newest(w) : LinesUpTo(w)[k] \in Nat
<1> DEFINE N == Newest(w)
           u == LinesUpTo(w)
<1>1. u = [k \in 0 .. N |-> IF k = 0 THEN 0 ELSE u[k - 1] + LinesOf(w, k)]
  BY UpToDef
<1>2. N \in Nat /\ \A k \in 1 .. N : LinesOf(w, k) \in Nat
  BY WinFacts
<1>. HIDE DEF u, N
<1>3. u[0] = 0 /\ \A k \in 1 .. N : u[k] = u[k - 1] + LinesOf(w, k)
  <2>1. \A k \in 0 .. N : u[k] = IF k = 0 THEN 0 ELSE u[k - 1] + LinesOf(w, k)
    BY <1>1
  <2>. QED  BY <1>2, <2>1
<1> DEFINE T == {k \in 0 .. N : u[k] \notin Nat}
<1>4. T = {}
  <2>1. SUFFICES ASSUME T # {} PROVE FALSE
    OBVIOUS
  <2>2. T \in SUBSET Nat
    BY <1>2
  <2>3. PICK m \in T : \A y \in T : m <= y
    BY <2>1, <2>2, LeastNumber
  <2>4. m \in 1 .. N /\ m - 1 \in 0 .. N
    BY <1>2, <1>3, <2>3
  <2>5. m - 1 \notin T
    <3>. HIDE DEF T
    <3>. QED  BY <2>3, <2>4
  <2>6. u[m - 1] \in Nat
    BY <2>4, <2>5
  <2>7. u[m] \in Nat
    BY <1>2, <1>3, <2>4, <2>6
  <2>. QED  BY <2>3, <2>7
<1>. QED  BY <1>3, <1>4 DEF u, N

\* More messages, more lines.
LEMMA UpToGrows ==
    ASSUME MessagesFit, NEW w \in WinType,
           NEW i \in 0 .. Newest(w), NEW j \in 0 .. Newest(w), i <= j
    PROVE  /\ LinesUpTo(w)[j] - LinesUpTo(w)[i] >= j - i
           /\ OneLines(w) => LinesUpTo(w)[j] - LinesUpTo(w)[i] = j - i
<1> DEFINE N == Newest(w)
           u == LinesUpTo(w)
           L(k) == LinesOf(w, k)
           P(k) == u[k] - u[i] >= k - i /\ (OneLines(w) => u[k] - u[i] = k - i)
           T == {k \in i .. N : ~P(k)}
<1>1. N \in Nat /\ \A k \in 1 .. N : L(k) \in Nat \ {0} /\ (OneLines(w) => L(k) = 1)
  BY WinFacts
<1>2. (\A k \in 1 .. N : u[k] = u[k - 1] + L(k)) /\ \A k \in 0 .. N : u[k] \in Nat
  BY UpToSteps
<1>3. i \in 0 .. N /\ j \in i .. N
  OBVIOUS
<1>. SUFFICES P(j)
  OBVIOUS
<1>. HIDE DEF u, N, L
<1>4. SUFFICES ASSUME T # {} PROVE FALSE
  BY <1>3
<1>5. T \in SUBSET Nat
  BY <1>1, <1>3
<1>6. PICK m \in T : \A y \in T : m <= y
  BY <1>4, <1>5, LeastNumber
<1>7. P(i)
  BY <1>2, <1>3
<1>8. m \in i .. N /\ ~P(m)
  BY <1>6
<1>9. m \in 1 .. N /\ m - 1 \in i .. N
  <2>1. m # i
    <3>. HIDE DEF P
    <3>. QED  BY <1>7, <1>8
  <2>. QED  BY <1>1, <1>3, <1>8, <2>1
<1>10. P(m - 1)
  <2>1. m - 1 \notin T
    <3>. HIDE DEF T
    <3>. QED  BY <1>6, <1>9
  <2>. HIDE DEF P
  <2>. QED  BY <1>9, <2>1
<1>11. P(m)
  BY <1>1, <1>2, <1>3, <1>9, <1>10
<1>. QED  BY <1>8, <1>11

\* The same messages, after others that are dropped, have the same lines.
LEMMA UpToSame ==
    ASSUME MessagesFit, NEW w \in WinType, NEW x \in WinType, NEW m \in Nat, m <= Newest(x),
           NEW a \in Nat, a + m <= Newest(w),
           \A k \in 1 .. m : LinesOf(x, k) = LinesOf(w, a + k)
    PROVE  \A k \in 0 .. m : LinesUpTo(x)[k] = LinesUpTo(w)[a + k] - LinesUpTo(w)[a]
<1> DEFINE u == LinesUpTo(w)
           s == LinesUpTo(x)
           P(k) == s[k] = u[a + k] - u[a]
           T == {k \in 0 .. m : ~P(k)}
           LW(k) == LinesOf(w, k)
           LX(k) == LinesOf(x, k)
           N == Newest(w)
           M == Newest(x)
<1>1. /\ \A k \in 1 .. N : u[k] = u[k - 1] + LW(k)
      /\ \A k \in 0 .. N : u[k] \in Nat
      /\ \A k \in 1 .. M : s[k] = s[k - 1] + LX(k)
      /\ \A k \in 0 .. M : s[k] \in Nat
      /\ s[0] = 0
  BY UpToSteps
<1>2. N \in Nat /\ M \in Nat /\ (\A k \in 1 .. N : LW(k) \in Nat) /\ \A k \in 1 .. M : LX(k) \in Nat
  BY WinFacts
<1>3. a + m <= N /\ m <= M /\ \A k \in 1 .. m : LX(k) = LW(a + k)
  OBVIOUS
<1>. SUFFICES \A k \in 0 .. m : P(k)
  OBVIOUS
<1>. HIDE DEF u, s, LW, LX, N, M
<1>4. SUFFICES ASSUME T # {} PROVE FALSE
  OBVIOUS
<1>5. T \in SUBSET Nat
  OBVIOUS
<1>6. PICK n \in T : \A y \in T : n <= y
  BY <1>4, <1>5, LeastNumber
<1>7. n \in 0 .. m /\ ~P(n)
  BY <1>6
<1>8. P(0)
  <2>1. a + 0 = a /\ a \in 0 .. N
    BY <1>2, <1>3
  <2>2. u[a] \in Nat
    BY <2>1, <1>1
  <2>. QED  BY <2>1, <2>2, <1>1
<1>9. n # 0
  <2>. HIDE DEF P
  <2>. QED  BY <1>7, <1>8
<1>10. n \in 1 .. m /\ n - 1 \in 0 .. m /\ ~(n <= n - 1)
  BY <1>7, <1>9
<1>11. P(n - 1)
  <2>1. n - 1 \notin T
    <3>. HIDE DEF T
    <3>. QED  BY <1>6, <1>10
  <2>. HIDE DEF P
  <2>. QED  BY <1>10, <2>1
<1>12. /\ n \in 1 .. M /\ a + n \in 1 .. N /\ a \in 0 .. N
       /\ (a + n) - 1 = a + (n - 1) /\ a + (n - 1) \in 0 .. N /\ n - 1 \in 0 .. M
  BY <1>2, <1>3, <1>10
<1>13. s[n] = s[n - 1] + LX(n) /\ u[a + n] = u[a + (n - 1)] + LW(a + n)
  BY <1>1, <1>12
<1>14. LX(n) = LW(a + n) /\ LW(a + n) \in Nat
  BY <1>2, <1>3, <1>10, <1>12
<1>15. s[n - 1] \in Nat /\ u[a + (n - 1)] \in Nat /\ u[a] \in Nat
  BY <1>1, <1>12
<1>16. P(n)
  BY <1>11, <1>13, <1>14, <1>15
<1>. QED  BY <1>7, <1>16

\* Lines, above the screen, down to its end, and anywhere.
LEMMA LinesIs ==
    ASSUME MessagesFit, NEW w \in WinType,
           NEW i \in 1 .. Newest(w) + 1, NEW j \in 0 .. Newest(w), i <= j + 1
    PROVE  Lines(w, i, j) = LinesUpTo(w)[j] - LinesUpTo(w)[i - 1]
<1>1. CASE i <= j
  BY <1>1, WinFacts DEF Lines
<1>2. CASE i = j + 1
  <2>1. LinesUpTo(w)[j] \in Nat
    BY UpToSteps
  <2>. QED  BY <1>2, <2>1, WinFacts DEF Lines
<1>. QED  BY <1>1, <1>2

\* All of that about one window.
LEMMA Layout ==
    ASSUME MessagesFit, NEW w \in WinType
    PROVE  /\ Newest(w) \in Nat /\ w.rows \in Nat \ {0} /\ w.rows < Word /\ Word \in Nat
           /\ LinesUpTo(w)[0] = 0
           /\ \A k \in 0 .. Newest(w) : LinesUpTo(w)[k] \in Nat
           /\ \A k \in 1 .. Newest(w) :
                 /\ LinesUpTo(w)[k] = LinesUpTo(w)[k - 1] + LinesOf(w, k)
                 /\ LinesOf(w, k) \in 1 .. w.rows /\ (OneLines(w) => LinesOf(w, k) = 1)
           /\ \A i, j \in 0 .. Newest(w) :
                 i <= j => LinesUpTo(w)[j] - LinesUpTo(w)[i] >= j - i
           /\ \A i \in 1 .. Newest(w) + 1, j \in 0 .. Newest(w) :
                 i <= j + 1 => Lines(w, i, j) = LinesUpTo(w)[j] - LinesUpTo(w)[i - 1]
<1>1. \A i, j \in 0 .. Newest(w) : i <= j => LinesUpTo(w)[j] - LinesUpTo(w)[i] >= j - i
  BY UpToGrows
<1>2. \A i \in 1 .. Newest(w) + 1, j \in 0 .. Newest(w) :
         i <= j + 1 => Lines(w, i, j) = LinesUpTo(w)[j] - LinesUpTo(w)[i - 1]
  BY LinesIs
<1>. QED  BY <1>1, <1>2, WinFacts, UpToSteps

\* Two windows with the same messages, of the same lines, have the same sums.
LEMMA SameBuffer ==
    ASSUME MessagesFit, NEW w \in WinType, NEW x \in WinType, x.buf = w.buf,
           \/ x.cols = w.cols /\ x.wrap = w.wrap
           \/ \A k \in 1 .. Newest(w) : LinesOf(x, k) = LinesOf(w, k)
    PROVE  /\ Newest(x) = Newest(w) /\ (OneLines(x) <=> OneLines(w))
           /\ \A k \in 1 .. Newest(w) : LinesOf(x, k) = LinesOf(w, k)
           /\ \A k \in 0 .. Newest(w) : LinesUpTo(x)[k] = LinesUpTo(w)[k]
<1>1. Newest(x) = Newest(w) /\ Newest(w) \in Nat
  BY WinFacts
<1>2. \A k \in 1 .. Newest(w) : LinesOf(x, k) = LinesOf(w, k)
  <2>1. CASE x.cols = w.cols /\ x.wrap = w.wrap
    BY <2>1 DEF LinesOf
  <2>. QED  BY <2>1
<1>3. ASSUME NEW k \in 0 .. Newest(w) PROVE LinesUpTo(x)[k] = LinesUpTo(w)[k]
  <2> DEFINE N == Newest(w)
  <2>1. ASSUME NEW j \in 1 .. N PROVE LinesOf(x, j) = LinesOf(w, 0 + j)
    <3>1. 0 + j = j
      OBVIOUS
    <3>. QED  BY <1>2, <3>1
  <2>2. N \in Nat /\ N <= Newest(x) /\ 0 + N <= Newest(w)
    BY <1>1
  <2>. HIDE DEF N
  <2>3. \A j \in 0 .. N : LinesUpTo(x)[j] = LinesUpTo(w)[0 + j] - LinesUpTo(w)[0]
    BY <2>1, <2>2, UpToSame
  <2>4. k \in 0 .. N /\ 0 + k = k /\ LinesUpTo(w)[k] \in Nat /\ LinesUpTo(w)[0] = 0
    BY UpToSteps DEF N
  <2>. QED  BY <2>3, <2>4
<1>4. OneLines(x) <=> OneLines(w)
  BY <1>1, <1>2 DEF OneLines
<1>. QED  BY <1>1, <1>2, <1>3, <1>4

\* The lines above the screen and those down to its end.
LEMMA Marks ==
    ASSUME MessagesFit, NEW w \in WinType
    PROVE  /\ w.v.top \in 1 .. Newest(w) =>
                 Above(w) = LinesUpTo(w)[w.v.top - 1] + w.v.top_hidden
           /\ w.v.bot \in 1 .. Newest(w) =>
                 DownTo(w) = LinesUpTo(w)[w.v.bot] - w.v.bottom_hidden
<1>1. Newest(w) \in Nat /\ LinesUpTo(w)[0] = 0
  BY Layout
<1>2. \A j \in 0 .. Newest(w) : Lines(w, 1, j) = LinesUpTo(w)[j] /\ LinesUpTo(w)[j] \in Nat
  <2>1. ASSUME NEW j \in 0 .. Newest(w) PROVE Lines(w, 1, j) = LinesUpTo(w)[j] - LinesUpTo(w)[0]
    <3>1. 1 \in 1 .. Newest(w) + 1 /\ 1 <= j + 1 /\ 1 - 1 = 0
      BY <1>1
    <3>. QED  BY <3>1, LinesIs
  <2>. QED  BY <1>1, <2>1, Layout
<1>. QED  BY <1>1, <1>2 DEF Above, DownTo

\* What a screen that is Placed and Shown shows.
LEMMA Screen ==
    ASSUME MessagesFit, NEW w \in WinType, Placed(w), Shown(w)
    PROVE  /\ Above(w) \in Nat /\ DownTo(w) \in Nat
           /\ Above(w) = LinesUpTo(w)[w.v.top - 1] + w.v.top_hidden
           /\ DownTo(w) = LinesUpTo(w)[w.v.bot] - w.v.bottom_hidden
           /\ DownTo(w) <= LinesUpTo(w)[Newest(w)]
           /\ AtEnd(w) <=> DownTo(w) = LinesUpTo(w)[Newest(w)]
           /\ w.v.top_hidden > 0 /\ w.v.bottom_blank = 0 => w.v.top < Newest(w)
           /\ w.v.top <= w.v.bot
           /\ w.v.bottom_blank > 0 => AtEnd(w)
           /\ DownTo(w) = Above(w) + w.rows - w.v.bottom_blank
<1> DEFINE N == Newest(w)
           u == LinesUpTo(w)
           L(k) == LinesOf(w, k)
           A == Above(w)
           D == DownTo(w)
           t == w.v.top
           b == w.v.bot
           th == w.v.top_hidden
           bh == w.v.bottom_hidden
           blank == w.v.bottom_blank
           R == w.rows
<1>1. /\ N \in Nat /\ R \in Nat \ {0}
      /\ \A k \in 0 .. N : u[k] \in Nat
      /\ \A k \in 1 .. N : u[k] = u[k - 1] + L(k) /\ L(k) \in 1 .. R
      /\ \A i, j \in 0 .. N : i <= j => u[j] - u[i] >= j - i
  BY Layout
<1>2. /\ t \in 1 .. N /\ th \in 0 .. L(t) /\ b \in 1 .. N /\ bh \in Nat
      /\ blank \in 0 .. R /\ D - A + blank = R
      /\ (blank > 0 => AtEnd(w))
  BY DEF Placed, Shown
<1>3. A = u[t - 1] + th /\ D = u[b] - bh
  BY <1>2, Marks
<1>4. AtEnd(w) <=> b = N /\ bh = 0
  BY DEF AtEnd
<1>. HIDE DEF N, u, L, A, D, t, b, th, bh, blank, R
<1>5. /\ u[t - 1] \in Nat /\ u[b] \in Nat /\ u[N] \in Nat
      /\ u[t] = u[t - 1] + L(t) /\ L(t) \in 1 .. R
  BY <1>1, <1>2
<1>6. A \in Nat /\ D \in Nat /\ D <= u[b]
  BY <1>1, <1>2, <1>3, <1>5
<1>7. u[N] - u[b] >= N - b
  BY <1>1, <1>2
<1>8. D <= u[N] /\ (AtEnd(w) <=> D = u[N])
  <2>1. D <= u[N]
    BY <1>1, <1>2, <1>5, <1>6, <1>7
  <2>2. ASSUME D = u[N] PROVE b = N /\ bh = 0
    <3>1. N - b \in Nat
      BY <1>1, <1>2
    <3>2. u[b] = u[N] /\ N - b = 0
      BY <2>2, <3>1, <1>5, <1>6, <1>7
    <3>3. b = N
      BY <3>2, <1>1, <1>2
    <3>. QED  BY <3>2, <3>3, <2>2, <1>2, <1>3, <1>5
  <2>3. b = N /\ bh = 0 => D = u[N]
    BY <1>3, <1>5
  <2>. QED  BY <2>1, <2>2, <2>3, <1>4
<1>9. D = A + R - blank
  BY <1>1, <1>2, <1>6
<1>10. th > 0 /\ blank = 0 => t < N
  <2>1. SUFFICES ASSUME th > 0, blank = 0, t = N PROVE FALSE
    BY <1>1, <1>2
  <2>2. D = u[N - 1] + th + R
    BY <2>1, <1>1, <1>2, <1>3, <1>5, <1>9
  <2>3. u[N] = u[N - 1] + L(N) /\ L(N) \in 1 .. R /\ u[N - 1] \in Nat
    BY <2>1, <1>5
  <2>. QED  BY <2>1, <2>2, <2>3, <1>1, <1>2, <1>5, <1>8
<1>11. t <= b
  <2>1. SUFFICES ASSUME b < t PROVE FALSE
    BY <1>1, <1>2
  <2>2. u[b] <= u[t - 1]
    BY <2>1, <1>1, <1>2, <1>5
  <2>3. D <= A
    BY <2>2, <1>2, <1>3, <1>5, <1>6
  <2>4. blank > 0
    BY <2>3, <1>1, <1>2, <1>6, <1>9
  <2>. QED  BY <2>1, <2>4, <1>1, <1>2, <1>4
<1>. QED
  BY <1>2, <1>3, <1>6, <1>8, <1>9, <1>10, <1>11 DEF N, u, A, D, t, b, th, bh, blank, R

\* The same window but for its view and the size of its buffer.
SameButView(x, w) ==
    x.buf = w.buf /\ x.rows = w.rows /\ x.cols = w.cols /\ x.wrap = w.wrap /\ x.max = w.max

\* swindow_redraw shows the rows that follow the top of the screen.
LEMMA RedrawShows ==
    ASSUME MessagesFit, NEW w \in WinType, Placed(w),
           w.v.top_hidden = 0 \/ w.v.top < Newest(w)
    PROVE  /\ Redraw(w) \in WinType /\ SameButView(Redraw(w), w)
           /\ Redraw(w).v.top = w.v.top /\ Redraw(w).v.top_hidden = w.v.top_hidden
           /\ Redraw(w).v.ok = w.v.ok
           /\ Placed(Redraw(w)) /\ Shown(Redraw(w))
           /\ Above(Redraw(w)) = LinesUpTo(w)[w.v.top - 1] + w.v.top_hidden
<1> DEFINE N == Newest(w)
           u == LinesUpTo(w)
           L(k) == LinesOf(w, k)
           Ln(i, j) == Lines(w, i, j)
           t == w.v.top
           h == w.v.top_hidden
           R == w.rows
           A == u[t - 1] + h
           first == IF h = 0 THEN 0 ELSE (L(t) - h) % Word
           from == IF h = 0 THEN t ELSE t + 1
           cum(k) == first + Ln(from, k)
           ends  == {k \in from .. N : cum(k) >= R}
           last  == IF ends = {} THEN N ELSE CHOOSE k \in ends : \A j \in ends : k <= j
           bh == Larger(0, cum(last) - R)
           bl == Larger(0, R - cum(last))
           x == [w EXCEPT !.v.bot = last, !.v.bottom_hidden = bh, !.v.bottom_blank = bl]
<1>1. /\ N \in Nat /\ R \in Nat \ {0} /\ Word \in Nat /\ R < Word
      /\ \A k \in 0 .. N : u[k] \in Nat
      /\ \A k \in 1 .. N : u[k] = u[k - 1] + L(k) /\ L(k) \in 1 .. R
      /\ \A i \in 1 .. N + 1, j \in 0 .. N : i <= j + 1 => Ln(i, j) = u[j] - u[i - 1]
      /\ \A i, j \in 0 .. N : i <= j => u[j] - u[i] >= j - i
  BY Layout
<1>2. t \in 1 .. N /\ h \in 0 .. L(t) /\ (h = 0 \/ t < N)
  BY DEF Placed
<1>3. first \in 0 .. R - 1 /\ first = IF h = 0 THEN 0 ELSE L(t) - h
  <2>. HIDE DEF N, L, Ln, R, t, h
  <2>1. CASE h = 0
    BY <2>1, <1>1
  <2>2. CASE h # 0
    <3>1. L(t) - h \in 0 .. R - 1 /\ L(t) - h < Word
      BY <1>1, <1>2, <2>2
    <3>. QED  BY <3>1, <2>2, <1>1
  <2>. QED  BY <2>1, <2>2
<1>4. from \in 1 .. N
  <2>. HIDE DEF N, L, t, h
  <2>. QED  BY <1>1, <1>2
<1>5. Redraw(w) = x
  <2>1. t # 0 /\ ~(first > R) /\ first < R /\ from <= N
    <3>. HIDE DEF N, L, Ln, R, t, h, first, from
    <3>. QED  BY <1>1, <1>2, <1>3, <1>4
  <2>. QED  BY <2>1 DEF Redraw
<1>. HIDE DEF x
<1>6. A \in Nat /\ u[from - 1] \in Nat /\ u[from - 1] - A < R /\ A <= u[from - 1]
  <2>. HIDE DEF N, u, L, Ln, R, t, h, first
  <2>1. u[t - 1] \in Nat /\ h \in Nat /\ h <= L(t) /\ u[t] = u[t - 1] + L(t) /\ L(t) \in 1 .. R
    BY <1>1, <1>2
  <2>2. CASE h = 0
    BY <2>1, <2>2, <1>1
  <2>3. CASE h # 0
    <3>1. from - 1 = t
      BY <2>3, <1>1, <1>2
    <3>. QED  BY <3>1, <2>1, <2>3, <1>1
  <2>. QED  BY <2>2, <2>3
<1>7. \A k \in from .. N : cum(k) = u[k] - A /\ u[k] \in Nat
  <2>. HIDE DEF N, u, L, Ln, R, t, h, first
  <2>1. SUFFICES ASSUME NEW k \in from .. N PROVE cum(k) = u[k] - A /\ u[k] \in Nat
    OBVIOUS
  <2>2. Ln(from, k) = u[k] - u[from - 1] /\ u[k] \in Nat
    <3>. HIDE DEF from
    <3>. QED  BY <1>1, <1>4
  <2>3. u[t - 1] \in Nat /\ h \in Nat /\ u[t] = u[t - 1] + L(t) /\ L(t) \in 1 .. R
    BY <1>1, <1>2
  <2>4. CASE h = 0
    BY <2>2, <2>3, <2>4, <1>3
  <2>5. CASE h # 0
    <3>1. from - 1 = t
      BY <2>5, <1>1, <1>2
    <3>. QED  BY <3>1, <2>2, <2>3, <2>5, <1>3
  <2>. QED  BY <2>4, <2>5
<1>. HIDE DEF first
<1>8. /\ last \in from .. N /\ (u[last] - A < R => last = N)
      /\ u[last - 1] - A < R /\ u[last - 1] \in Nat
  <2>. HIDE DEF N, u, L, Ln, R, t, h, A, cum, from
  <2>1. CASE ends = {}
    <3>1. last = N /\ N \in from .. N
      BY <2>1, <1>1, <1>4
    <3>2. u[N - 1] \in Nat
      BY <1>1, <1>4
    <3>3. CASE N = from
      BY <3>1, <3>2, <3>3, <1>6
    <3>4. CASE N # from
      <4>1. N - 1 \in from .. N
        BY SMTT(30), <3>4, <1>1, <1>4
      <4>2. ~(cum(N - 1) >= R) /\ cum(N - 1) = u[N - 1] - A
        BY <4>1, <2>1, <1>7
      <4>3. u[N] \in Nat
        BY <1>1
      <4>4. u[N - 1] - A < R
        BY <3>2, <4>2, <1>1, <1>6
      <4>. HIDE DEF last
      <4>. QED  BY <3>1, <3>2, <4>4
    <3>. QED  BY <3>3, <3>4
  <2>2. CASE ends # {}
    <3>1. ends \in SUBSET Nat
      BY <1>1, <1>4
    <3>2. last = CHOOSE k \in ends : \A j \in ends : k <= j
      BY <2>2
    <3>3. last \in ends /\ \A j \in ends : last <= j
      <4>. HIDE DEF ends, last
      <4>1. \E k \in ends : \A j \in ends : k <= j
        BY <2>2, <3>1, LeastNumber
      <4>. QED  BY <3>2, <4>1
    <3>. HIDE DEF last
    <3>4. last \in from .. N /\ u[last] - A >= R
      BY <3>3, <1>7
    <3>5. last - 1 \notin ends
      <4>1. last \in Nat /\ ~(last <= last - 1)
        BY <1>1, <1>4, <3>4
      <4>. HIDE DEF ends
      <4>. QED  BY <3>3, <4>1
    <3>6. u[last - 1] \in Nat /\ last - 1 \in 0 .. N
      BY <3>4, <1>1, <1>4
    <3>7. CASE last = from
      BY <3>4, <3>6, <3>7, <1>1, <1>4, <1>6
    <3>8. CASE last # from
      <4>1. last - 1 \in from .. N
        BY <3>8, <3>4, <1>1, <1>4
      <4>2. ~(cum(last - 1) >= R) /\ cum(last - 1) = u[last - 1] - A
        BY <4>1, <3>5, <1>7
      <4>3. u[last] \in Nat
        BY <3>4, <1>1, <1>4
      <4>. QED  BY <3>4, <3>6, <4>2, <4>3, <1>1, <1>6
    <3>. QED  BY <3>7, <3>8
  <2>. QED  BY <2>1, <2>2
<1>9. cum(last) = u[last] - A
  <2>. HIDE DEF last, cum, A, u, from, N
  <2>. QED  BY <1>7, <1>8
<1>. HIDE DEF last, cum
<1>10. bh \in Nat /\ bl \in Nat /\ last \in Nat
  <2>. HIDE DEF N, u, A, R, from
  <2>1. cum(last) \in Int /\ last \in Nat
    BY <1>1, <1>4, <1>6, <1>7, <1>8, <1>9
  <2>. QED  BY <2>1, <1>1 DEF Larger
<1>. HIDE DEF bh, bl
<1>11. /\ x \in WinType /\ SameButView(x, w) /\ x.v.top = t /\ x.v.top_hidden = h
       /\ x.v.ok = w.v.ok /\ x.v.bot = last /\ x.v.bottom_hidden = bh /\ x.v.bottom_blank = bl
  BY <1>10 DEF x, WinType, SameButView
<1>12. /\ Newest(x) = N /\ (\A k \in 1 .. N : LinesOf(x, k) = L(k))
       /\ \A k \in 0 .. N : LinesUpTo(x)[k] = u[k]
  BY <1>11, SameBuffer DEF SameButView
<1>13. last \in 1 .. N
  <2>. HIDE DEF N, from
  <2>. QED  BY <1>1, <1>4, <1>8
<1>14. Above(x) = A /\ DownTo(x) = u[last] - bh
  <2>1. /\ Above(x) = LinesUpTo(x)[t - 1] + h
        /\ DownTo(x) = LinesUpTo(x)[last] - bh
    BY <1>2, <1>11, <1>12, <1>13, Marks
  <2>2. t - 1 \in 0 .. N /\ last \in 0 .. N
    <3>. HIDE DEF N, t
    <3>. QED  BY <1>1, <1>2, <1>13
  <2>. QED  BY <2>1, <2>2, <1>12
<1>15. Placed(x)
  BY <1>2, <1>11, <1>12 DEF Placed
<1>16. /\ bh \in Nat /\ bl \in 0 .. R /\ (u[last] - bh) - A + bl = R
       /\ (bl > 0 => last = N /\ bh = 0)
  <2>. HIDE DEF N, u, L, A, R, from
  <2>1. /\ u[last] \in Nat /\ u[last] = u[last - 1] + L(last) /\ L(last) \in 1 .. R
        /\ u[last - 1] \in Nat /\ u[last - 1] - A < R
    BY <1>1, <1>8, <1>13
  <2>2. A <= u[last]
    <3>1. from - 1 \in 0 .. N /\ last \in 0 .. N /\ from - 1 <= last /\ last - (from - 1) \in Nat
      BY <1>1, <1>4, <1>8, <1>13
    <3>2. u[last] - u[from - 1] >= last - (from - 1)
      BY <3>1, <1>1
    <3>. QED  BY <2>1, <3>1, <3>2, <1>6
  <2>3. CASE u[last] - A >= R
    <3>1. bh = u[last] - A - R /\ bl = 0
      BY <2>1, <2>3, <1>1, <1>6, <1>9 DEF bh, bl, Larger
    <3>. QED  BY <2>1, <2>3, <3>1, <1>1, <1>6
  <2>4. CASE u[last] - A < R
    <3>1. bh = 0 /\ bl = R - (u[last] - A)
      BY <2>1, <2>4, <1>1, <1>6, <1>9 DEF bh, bl, Larger
    <3>. QED  BY <2>1, <2>2, <2>4, <3>1, <1>1, <1>6, <1>8
  <2>. QED  BY <2>1, <2>3, <2>4, <1>1, <1>6
<1>17. Shown(x)
  BY <1>11, <1>12, <1>13, <1>14, <1>16 DEF Shown, AtEnd, SameButView
<1>. QED  BY <1>5, <1>11, <1>14, <1>15, <1>17

\* The screen is Good when lines are left of its top message.
LEMMA RedrawGood ==
    ASSUME MessagesFit, NEW w \in WinType, Placed(w), w.v.top_hidden < LinesOf(w, w.v.top),
           w.v.top_hidden = 0 \/ w.v.top < Newest(w),
           NEW a, a = LinesUpTo(w)[w.v.top - 1] + w.v.top_hidden,
           a = 0 \/ OneLines(w) \/ a + w.rows <= LinesUpTo(w)[Newest(w)]
    PROVE  /\ Redraw(w) \in WinType /\ SameButView(Redraw(w), w) /\ Redraw(w).v.ok = w.v.ok
           /\ Good(Redraw(w)) /\ Above(Redraw(w)) = a
           /\ Redraw(w).v.top = w.v.top /\ Redraw(w).v.top_hidden = w.v.top_hidden
<1> DEFINE x == Redraw(w)
           N == Newest(w)
<1>1. /\ x \in WinType /\ SameButView(x, w) /\ x.v.ok = w.v.ok
      /\ x.v.top = w.v.top /\ x.v.top_hidden = w.v.top_hidden
      /\ Placed(x) /\ Shown(x) /\ Above(x) = a
  BY RedrawShows
<1>. HIDE DEF x
<1>2. /\ Newest(x) = N /\ (OneLines(x) <=> OneLines(w)) /\ LinesUpTo(x)[N] = LinesUpTo(w)[N] /\ LinesUpTo(w)[N] \in Nat
      /\ LinesOf(x, w.v.top) = LinesOf(w, w.v.top) /\ LinesOf(w, w.v.top) \in Nat
  <2>1. N \in Nat /\ N \in 0 .. N /\ w.v.top \in 1 .. N
    BY Layout DEF Placed
  <2>. HIDE DEF N
  <2>2. /\ (OneLines(x) <=> OneLines(w)) /\ \A k \in 1 .. N : LinesOf(x, k) = LinesOf(w, k)
        /\ \A k \in 0 .. N : LinesUpTo(x)[k] = LinesUpTo(w)[k]
    BY <1>1, SameBuffer DEF SameButView, N
  <2>3. (\A k \in 0 .. N : LinesUpTo(w)[k] \in Nat) /\ \A k \in 1 .. N : LinesOf(w, k) \in Nat
    BY Layout DEF N
  <2>4. Newest(x) = N
    BY <1>1 DEF SameButView, Newest, N
  <2>. QED  BY <2>1, <2>2, <2>3, <2>4
<1>3. /\ DownTo(x) = a + w.rows - x.v.bottom_blank /\ a \in Nat
      /\ AtEnd(x) => DownTo(x) = LinesUpTo(w)[N]
      /\ x.v.bottom_blank > 0 => AtEnd(x)
  BY <1>1, <1>2, Screen DEF SameButView
<1>4. x.v.bottom_blank > 0 => a = 0 \/ OneLines(x)
  <2>1. w.rows \in Nat /\ x.v.bottom_blank \in Nat
    BY <1>1, Layout DEF WinType
  <2>. QED  BY <2>1, <1>2, <1>3
<1>5. x.v.top_hidden # LinesOf(x, x.v.top)
  <2>1. w.v.top_hidden \in Nat
    BY DEF WinType
  <2>. QED  BY <2>1, <1>1, <1>2
<1>. QED  BY <1>1, <1>4, <1>5 DEF Good, x

\* The window with its screen moved to a place and drawn.
MovedTo(w, t, h) == Redraw([w EXCEPT !.v.top = t, !.v.top_hidden = h])

\* Moved to a place with lines left, the screen is Good once it is drawn.
LEMMA MoveTopGood ==
    ASSUME MessagesFit, NEW w \in WinType, NEW t \in 1 .. Newest(w), NEW h \in Nat,
           h < LinesOf(w, t), h = 0 \/ t < Newest(w),
           \/ LinesUpTo(w)[t - 1] + h = 0
           \/ OneLines(w)
           \/ LinesUpTo(w)[t - 1] + h + w.rows <= LinesUpTo(w)[Newest(w)]
    PROVE  /\ MovedTo(w, t, h) \in WinType /\ SameButView(MovedTo(w, t, h), w)
           /\ MovedTo(w, t, h).v.ok = w.v.ok
           /\ Good(MovedTo(w, t, h)) /\ Above(MovedTo(w, t, h)) = LinesUpTo(w)[t - 1] + h
<1> DEFINE y == [w EXCEPT !.v.top = t, !.v.top_hidden = h]
           N == Newest(w)
<1>1. N \in Nat /\ t \in Nat /\ LinesOf(w, t) \in Nat
  BY Layout
<1>2. y \in WinType /\ SameButView(y, w) /\ y.v.top = t /\ y.v.top_hidden = h /\ y.v.ok = w.v.ok
  BY <1>1 DEF WinType, SameButView
<1>. HIDE DEF y
<1>3. /\ Newest(y) = N /\ (OneLines(y) <=> OneLines(w)) /\ LinesOf(y, t) = LinesOf(w, t)
      /\ LinesUpTo(y)[N] = LinesUpTo(w)[N] /\ LinesUpTo(y)[t - 1] = LinesUpTo(w)[t - 1]
  <2>1. N \in 0 .. N /\ t - 1 \in 0 .. N /\ t \in 1 .. N
    BY <1>1
  <2>. HIDE DEF N
  <2>2. /\ Newest(y) = N /\ (OneLines(y) <=> OneLines(w)) /\ \A k \in 1 .. N : LinesOf(y, k) = LinesOf(w, k)
        /\ \A k \in 0 .. N : LinesUpTo(y)[k] = LinesUpTo(w)[k]
    BY <1>2, SameBuffer DEF SameButView, N
  <2>. QED  BY <2>1, <2>2
<1>4. Placed(y)
  BY <1>1, <1>2, <1>3 DEF Placed
<1>5. y.rows = w.rows
  BY <1>2 DEF SameButView
<1>6. /\ Redraw(y) \in WinType /\ SameButView(Redraw(y), y) /\ Redraw(y).v.ok = y.v.ok
      /\ Good(Redraw(y)) /\ Above(Redraw(y)) = LinesUpTo(w)[t - 1] + h
  BY <1>2, <1>3, <1>4, <1>5, RedrawGood
<1>7. SameButView(Redraw(y), w)
  BY <1>2, <1>6 DEF SameButView
<1>. QED  BY <1>2, <1>6, <1>7 DEF y, MovedTo

\* swindow_scroll_to_start
LEMMA StartGood ==
    ASSUME MessagesFit, NEW w \in WinType, Newest(w) # 0,
           w.v.top = 1 /\ w.v.top_hidden = 0 => Good(w)
    PROVE  /\ ScrollToStart(w) \in WinType /\ SameButView(ScrollToStart(w), w)
           /\ ScrollToStart(w).v.ok = w.v.ok /\ Good(ScrollToStart(w))
<1>1. CASE w.v.top = 1 /\ w.v.top_hidden = 0
  <2>1. ScrollToStart(w) = w
    BY <1>1 DEF ScrollToStart
  <2>. QED  BY <1>1, <2>1 DEF SameButView
<1>2. CASE ~(w.v.top = 1 /\ w.v.top_hidden = 0)
  <2> DEFINE x == MovedTo(w, 1, 0)
  <2>1. ScrollToStart(w) = x
    BY <1>2 DEF ScrollToStart, MovedTo
  <2>2. 1 \in 1 .. Newest(w) /\ 0 < LinesOf(w, 1) /\ LinesUpTo(w)[1 - 1] + 0 = 0
    BY SMTT(30), Layout
  <2>3. x \in WinType /\ SameButView(x, w) /\ x.v.ok = w.v.ok /\ Good(x)
    BY <2>2, MoveTopGood
  <2>. QED  BY <2>1, <2>3
<1>. QED  BY <1>1, <1>2

\* swindow_scroll_to_end
LEMMA EndGood ==
    ASSUME MessagesFit, NEW w \in WinType, Good(w)
    PROVE  /\ ScrollToEnd(w) \in WinType /\ SameButView(ScrollToEnd(w), w)
           /\ ScrollToEnd(w).v.ok = w.v.ok /\ Good(ScrollToEnd(w)) /\ AtEnd(ScrollToEnd(w))
           /\ Cleared(ScrollToEnd(w)) => AtEnd(w)
<1> DEFINE N == Newest(w)
           u == LinesUpTo(w)
           L(k) == LinesOf(w, k)
           R == w.rows
           Ln(k) == Lines(w, k, N)
           fills == {k \in 1 .. N : Ln(k) >= R}
           t == IF fills = {} THEN 1 ELSE CHOOSE i \in fills : \A j \in fills : i >= j
           h == Larger(0, Ln(t) - R)
           a == u[t - 1] + h
           x == MovedTo(w, t, h)
<1>1. /\ N \in Nat \ {0} /\ R \in Nat \ {0} /\ u[0] = 0
      /\ \A k \in 0 .. N : u[k] \in Nat
      /\ \A k \in 1 .. N : u[k] = u[k - 1] + L(k) /\ L(k) \in 1 .. R
      /\ \A k \in 1 .. N : Ln(k) = u[N] - u[k - 1]
  <2>1. Newest(w) # 0
    BY Layout DEF Good, Placed
  <2>2. ASSUME NEW k \in 1 .. N PROVE Ln(k) = u[N] - u[k - 1]
    <3>1. N \in Nat /\ k \in 1 .. N + 1 /\ N \in 0 .. N /\ k <= N + 1
      BY Layout
    <3>. QED  BY <3>1, LinesIs
  <2>. QED  BY <2>1, <2>2, Layout
<1>2. CASE AtEnd(w)
  <2>1. ScrollToEnd(w) = w
    BY <1>2 DEF ScrollToEnd
  <2>. QED  BY <1>2, <2>1 DEF SameButView
<1>3. CASE ~AtEnd(w)
  <2>1. ScrollToEnd(w) = x
    BY <1>1, <1>3 DEF ScrollToEnd, MovedTo
  <2>. HIDE DEF x
  <2>2. /\ t \in 1 .. N /\ h \in Nat /\ h < L(t) /\ (h = 0 \/ t < N)
        /\ (a = 0 \/ a + R = u[N]) /\ a + R >= u[N]
    <3>. HIDE DEF N, u, L, R, Ln
    <3>0. u[N] \in Nat
      BY <1>1
    <3>1. CASE fills = {}
      <4>1. t = 1 /\ 1 \in 1 .. N /\ 1 - 1 = 0
        BY <1>1, <3>1
      <4>2. Ln(1) = u[N] - u[0] /\ ~(Ln(1) >= R)
        BY <1>1, <3>1, <4>1
      <4>3. h = 0
        BY <1>1, <3>0, <4>1, <4>2 DEF Larger
      <4>. HIDE DEF t, h
      <4>. QED  BY <1>1, <3>0, <4>1, <4>2, <4>3
    <3>2. CASE fills # {}
      <4>1. t = CHOOSE i \in fills : \A j \in fills : i >= j
        BY <3>2
      <4>2. t \in fills /\ \A j \in fills : t >= j
        <5>1. fills \in SUBSET (0 .. N) /\ N \in Nat
          BY <1>1
        <5>. HIDE DEF fills, t
        <5>2. Max(fills) \in fills /\ \A y \in fills : y <= Max(fills)
          BY <3>2, <5>1, MaxOf
        <5>3. \A y \in fills : Max(fills) >= y
          BY <5>1, <5>2
        <5>. QED  BY <4>1, <5>2, <5>3
      <4>. HIDE DEF t
      <4>3. t \in 1 .. N /\ Ln(t) = u[N] - u[t - 1] /\ Ln(t) >= R
        BY <1>1, <4>2
      <4>4. u[t - 1] \in Nat /\ u[t] \in Nat /\ u[t] = u[t - 1] + L(t) /\ L(t) \in 1 .. R
        BY <1>1, <4>3
      <4>5. h = u[N] - u[t - 1] - R /\ h \in Nat
        BY <1>1, <3>0, <4>3, <4>4 DEF Larger
      <4>6. a + R = u[N]
        BY <1>1, <3>0, <4>4, <4>5
      <4>7. CASE t = N
        <5>1. u[N] = u[t - 1] + L(t)
          BY <4>4, <4>7
        <5>2. h = 0
          BY <1>1, <4>4, <4>5, <5>1
        <5>. HIDE DEF h
        <5>. QED  BY <1>1, <3>0, <4>3, <4>4, <4>6, <5>2
      <4>8. CASE t # N
        <5>1. t + 1 \in 1 .. N /\ (t + 1) - 1 = t /\ ~(t >= t + 1)
          BY <1>1, <4>3, <4>8
        <5>2. t + 1 \notin fills
          <6>. HIDE DEF fills
          <6>. QED  BY <4>2, <5>1
        <5>3. u[N] - u[t] < R
          <6>1. ~(Ln(t + 1) >= R) /\ Ln(t + 1) = u[N] - u[t]
            BY <1>1, <5>1, <5>2
          <6>. QED  BY <1>1, <3>0, <4>4, <6>1
        <5>4. t < N
          BY <1>1, <4>3, <4>8
        <5>. QED  BY <1>1, <3>0, <4>3, <4>4, <4>5, <4>6, <5>3, <5>4
      <4>. QED  BY <4>7, <4>8
    <3>. QED  BY <3>1, <3>2
  <2>. HIDE DEF t, h
  <2>3. a = 0 \/ a + R <= u[N]
    <3>1. u[N] \in Nat
      <4>. HIDE DEF N, u
      <4>. QED  BY <1>1
    <3>. HIDE DEF u, a, N
    <3>. QED  BY <2>2, <3>1
  <2>4. x \in WinType /\ SameButView(x, w) /\ x.v.ok = w.v.ok /\ Good(x) /\ Above(x) = a
    <3>. QED  BY <2>2, <2>3, MoveTopGood DEF x
  <2>5. AtEnd(x) /\ ~Cleared(x)
    <3>1. /\ DownTo(x) = a + R - x.v.bottom_blank
          /\ AtEnd(x) <=> DownTo(x) = LinesUpTo(x)[Newest(x)]
          /\ DownTo(x) <= LinesUpTo(x)[Newest(x)]
          /\ x.v.bottom_blank > 0 => AtEnd(x)
      BY <2>4, Screen DEF Good, SameButView
    <3>2. Newest(x) = N /\ LinesUpTo(x)[N] = u[N]
      <4>1. \A k \in 0 .. N : LinesUpTo(x)[k] = u[k]
        BY <2>4, SameBuffer DEF SameButView
      <4>2. N \in 0 .. N
        <5>. HIDE DEF N
        <5>. QED  BY <1>1
      <4>3. Newest(x) = N
        BY <2>4 DEF SameButView, Newest
      <4>. QED  BY <4>1, <4>2, <4>3
    <3>3. x.v.bottom_blank \in Nat /\ a \in Nat
      BY <2>4, Screen DEF WinType, Good
    <3>4. u[N] \in Nat
      <4>. HIDE DEF N, u
      <4>. QED  BY <1>1
    <3>5. R \in Nat /\ a + R >= u[N]
      BY <1>1, <2>2
    <3>. HIDE DEF a, R, u, N
    <3>6. ~(x.v.bottom_blank > 0) => x.v.bottom_blank = 0
      BY <3>3
    <3>7. AtEnd(x)
      BY SMTT(30), <3>1, <3>2, <3>3, <3>4, <3>5, <3>6
    <3>8. a = 0 \/ x.v.bottom_blank = 0
      BY SMTT(30), <2>2, <3>1, <3>2, <3>3, <3>4, <3>5, <3>7
    <3>. QED  BY <2>4, <3>3, <3>7, <3>8 DEF Cleared
  <2>. QED  BY <2>1, <2>4, <2>5
<1>. QED  BY <1>2, <1>3

\* swindow_scroll_up_by: the screen moves up n lines, or all there are.
LEMMA UpGood ==
    ASSUME MessagesFit, NEW w \in WinType, Good(w), NEW n \in Nat \ {0}
    PROVE  /\ ScrollUp(w, n) \in WinType /\ SameButView(ScrollUp(w, n), w)
           /\ ScrollUp(w, n).v.ok = w.v.ok /\ Good(ScrollUp(w, n))
           /\ Above(ScrollUp(w, n)) = Larger(0, Above(w) - n)
<1> DEFINE N == Newest(w)
           u == LinesUpTo(w)
           L(k) == LinesOf(w, k)
           R == w.rows
           A == Above(w)
           t == w.v.top
           h == w.v.top_hidden
           Ln(k) == Lines(w, k, t - 1)
           above(k) == h + Ln(k)
           fits == {k \in 1 .. t - 1 : above(k) >= n}
           k == CHOOSE i \in fits : \A j \in fits : i >= j
           x == ScrollUp(w, n)
<1>. SUFFICES /\ x \in WinType /\ SameButView(x, w)
              /\ x.v.ok = w.v.ok /\ Good(x) /\ Above(x) = Larger(0, A - n)
  OBVIOUS
<1>1. /\ N \in Nat /\ R \in Nat \ {0} /\ u[0] = 0
      /\ \A i \in 0 .. N : u[i] \in Nat
      /\ \A i \in 1 .. N : u[i] = u[i - 1] + L(i) /\ L(i) \in 1 .. R /\ (OneLines(w) => L(i) = 1)
  BY Layout
<1>2. /\ t \in 1 .. N /\ h \in 0 .. L(t) /\ w.v.bottom_blank \in Nat
      /\ (w.v.bottom_blank > 0 => A = 0 \/ OneLines(w))
  BY DEF Good, Placed, Shown, WinType
<1>3. /\ A = u[t - 1] + h /\ A \in Nat /\ (h > 0 /\ w.v.bottom_blank = 0 => t < N)
      /\ DownTo(w) \in Nat /\ DownTo(w) <= u[N] /\ DownTo(w) = A + R - w.v.bottom_blank
  BY Screen DEF Good
<1>4. \A i \in 1 .. t - 1 : Ln(i) = u[t - 1] - u[i - 1]
  <2>1. SUFFICES ASSUME NEW i \in 1 .. t - 1 PROVE Ln(i) = u[t - 1] - u[i - 1]
    OBVIOUS
  <2>2. i \in 1 .. N + 1 /\ t - 1 \in 0 .. N /\ i <= (t - 1) + 1
    <3>. HIDE DEF N, t
    <3>. QED  BY <1>1, <1>2
  <2>. QED  BY <2>2, LinesIs
<1>5. ASSUME NEW a \in Nat, a <= A PROVE a = 0 \/ OneLines(w) \/ a + R <= u[N]
  <2>. HIDE DEF N, u, A, R, t, h
  <2>1. CASE w.v.bottom_blank > 0
    BY <2>1, <1>2, <1>3, <1>5
  <2>2. CASE w.v.bottom_blank = 0
    <3>1. u[N] \in Nat
      BY <1>1
    <3>2. A + R <= u[N]
      BY <2>2, <3>1, <1>1, <1>3
    <3>. QED  BY <3>1, <3>2, <1>1, <1>3, <1>5
  <2>. QED  BY <2>1, <2>2, <1>2
<1>6. ASSUME NEW b \in 1 .. N, NEW g \in Nat, g < L(b), g = 0 \/ b < N,
             u[b - 1] + g = Larger(0, A - n), x = MovedTo(w, b, g)
      PROVE  /\ x \in WinType /\ SameButView(x, w)
             /\ x.v.ok = w.v.ok /\ Good(x) /\ Above(x) = Larger(0, A - n)
  <2>1. Larger(0, A - n) \in Nat /\ Larger(0, A - n) <= A
    <3>. HIDE DEF A
    <3>. QED  BY <1>3 DEF Larger
  <2>2. u[b - 1] + g = 0 \/ OneLines(w) \/ u[b - 1] + g + R <= u[N]
    BY <2>1, <1>5, <1>6
  <2>. HIDE DEF x, A
  <2>. QED  BY <1>6, <2>2, MoveTopGood
<1>7. u[t - 1] \in Nat /\ h \in Nat /\ h <= L(t) /\ L(t) \in 1 .. R
  BY <1>1, <1>2
<1>8. CASE t = 1 /\ h = 0
  <2>1. x = w
    BY <1>8 DEF ScrollUp
  <2>2. A = Larger(0, A - n)
    <3>. HIDE DEF A, u
    <3>. QED  BY <1>1, <1>3, <1>8 DEF Larger
  <2>. QED  BY <2>1, <2>2 DEF SameButView
<1>9. CASE ~(t = 1 /\ h = 0) /\ h >= n
  <2>1. x = MovedTo(w, t, h - n)
    <3>1. x = Redraw([w EXCEPT !.v.top_hidden = @ - n])
      BY <1>2, <1>9 DEF ScrollUp
    <3>2. [w EXCEPT !.v.top_hidden = @ - n] = [w EXCEPT !.v.top = t, !.v.top_hidden = h - n]
      BY DEF WinType
    <3>. QED  BY <3>1, <3>2 DEF MovedTo
  <2>2. h - n \in Nat /\ h - n < L(t) /\ u[t - 1] + (h - n) = Larger(0, A - n)
    <3>. HIDE DEF A, u, t, h, L, R
    <3>. QED  BY <1>3, <1>7, <1>9 DEF Larger
  <2>3. h - n = 0 \/ t < N
    <3>. HIDE DEF A, u, t, h, L, R, N
    <3>. QED  BY <1>1, <1>2, <1>3, <1>7, <1>9
  <2>. HIDE DEF A, u, t, h, L, R, N, x
  <2>. QED  BY <2>1, <2>2, <2>3, <1>2, <1>6
<1>10. CASE ~(t = 1 /\ h = 0) /\ h < n /\ fits # {}
  <2>1. x = MovedTo(w, k, above(k) - n)
    BY <1>2, <1>10 DEF ScrollUp, MovedTo
  <2>2. k \in fits /\ \A j \in fits : k >= j
    <3>1. fits \in SUBSET (0 .. N) /\ N \in Nat
      <4>. HIDE DEF N, t
      <4>. QED  BY <1>1, <1>2
    <3>. HIDE DEF fits, N
    <3>2. Max(fits) \in fits /\ \A y \in fits : y <= Max(fits)
      BY <1>10, <3>1, MaxOf
    <3>3. \A y \in fits : Max(fits) >= y
      BY <3>1, <3>2
    <3>. QED  BY <3>2, <3>3
  <2>. HIDE DEF N, u, L, R, A, t, h, Ln, k, x
  <2>3. k \in 1 .. t - 1 /\ above(k) >= n /\ k + 1 \notin fits
    <3>1. k \in 1 .. t - 1 /\ above(k) >= n
      BY <2>2
    <3>2. ~(k >= k + 1)
      BY <3>1, <1>1, <1>2
    <3>. HIDE DEF fits
    <3>. QED  BY <2>2, <3>1, <3>2
  <2>4. /\ k \in 1 .. N /\ k < N /\ k - 1 \in 0 .. N /\ k \in 0 .. N
        /\ u[k - 1] \in Nat /\ u[k] \in Nat /\ u[k] = u[k - 1] + L(k) /\ L(k) \in 1 .. R
    BY <2>3, <1>1, <1>2
  <2>5. above(k) = A - u[k - 1]
    BY <2>3, <2>4, <1>3, <1>4, <1>7
  <2>6. A - u[k] < n
    <3>1. CASE k + 1 = t
      <4>1. k = t - 1
        BY <3>1, <2>4, <1>1, <1>2
      <4>. QED  BY <4>1, <2>4, <1>3, <1>7, <1>10
    <3>2. CASE k + 1 # t
      <4>1. k + 1 \in 1 .. t - 1 /\ (k + 1) - 1 = k
        BY <3>2, <2>3, <2>4, <1>1, <1>2
      <4>2. ~(above(k + 1) >= n) /\ Ln(k + 1) = u[t - 1] - u[k]
        BY <4>1, <2>3, <1>4
      <4>3. above(k + 1) = A - u[k]
        BY <4>2, <2>4, <1>3, <1>7
      <4>. QED  BY <4>2, <4>3, <2>4, <1>3
    <3>. QED  BY <3>1, <3>2
  <2>7. /\ above(k) - n \in Nat /\ above(k) - n < L(k)
        /\ u[k - 1] + (above(k) - n) = Larger(0, A - n)
    <3>1. above(k) >= n
      BY <2>3
    <3>. HIDE DEF above
    <3>. QED  BY <3>1, <2>4, <2>5, <2>6, <1>3 DEF Larger
  <2>. HIDE DEF above
  <2>. QED  BY <2>1, <2>4, <2>7, <1>6
<1>11. CASE ~(t = 1 /\ h = 0) /\ h < n /\ fits = {}
  <2>1. x = MovedTo(w, 1, 0)
    BY <1>2, <1>11 DEF ScrollUp, MovedTo
  <2>. HIDE DEF N, u, L, R, A, t, h, Ln, x
  <2>2. A < n
    <3>1. CASE t = 1
      <4>1. t - 1 = 0
        BY <3>1
      <4>. QED  BY <4>1, <1>1, <1>3, <1>11, <1>7
    <3>2. CASE t # 1
      <4>1. 1 \in 1 .. t - 1 /\ 1 - 1 = 0
        BY <3>2, <1>1, <1>2
      <4>2. ~(above(1) >= n)
        BY <4>1, <1>11
      <4>3. Ln(1) = u[t - 1]
        BY <4>1, <1>1, <1>4, <1>7
      <4>. QED  BY <4>2, <4>3, <1>3, <1>7
    <3>. QED  BY <3>1, <3>2
  <2>3. 1 \in 1 .. N /\ 0 \in Nat /\ 0 < L(1) /\ u[1 - 1] + 0 = Larger(0, A - n)
    BY <2>2, <1>1, <1>2, <1>3 DEF Larger
  <2>. QED  BY <2>1, <2>3, <1>6
<1>. QED
  <2>1. h >= n \/ h < n
    <3>. HIDE DEF h
    <3>. QED  BY <1>7
  <2>. QED  BY <2>1, <1>8, <1>9, <1>10, <1>11

\* Drawn again, a Good screen is Good, and its top is where it was.
LEMMA RedrawKeeps ==
    ASSUME MessagesFit, NEW w \in WinType, Good(w)
    PROVE  /\ Redraw(w) \in WinType /\ SameButView(Redraw(w), w)
           /\ Redraw(w).v.ok = w.v.ok
           /\ Good(Redraw(w)) /\ Above(Redraw(w)) = Above(w)
<1> DEFINE x == Redraw(w)
           N == Newest(w)
           T == LinesUpTo(w)[N]
           A == Above(w)
           h == w.v.top_hidden
           t == w.v.top
           L == LinesOf(w, t)
           R == w.rows
<1>1. /\ N \in Nat /\ R \in Nat \ {0} /\ T \in Nat /\ t \in 1 .. N /\ h \in 0 .. L /\ L \in 1 .. R
      /\ R < Word /\ Word \in Nat
  <2>1. N \in 0 .. N /\ t \in 1 .. N /\ h \in 0 .. L
    BY Layout DEF Good, Placed
  <2>. QED  BY <2>1, Layout
<1>2. /\ A = LinesUpTo(w)[t - 1] + h /\ A \in Nat
      /\ DownTo(w) = A + R - w.v.bottom_blank /\ DownTo(w) <= T
      /\ AtEnd(w) => DownTo(w) = T
      /\ w.v.bottom_blank \in Nat
  BY Screen DEF Good, WinType
<1>3. /\ h = L => AtEnd(w) /\ OneLines(w)
      /\ w.v.bottom_blank > 0 => A = 0 \/ OneLines(w)
  BY DEF Good
<1>4. CASE h = 0 \/ t < N
  <2>1. /\ x \in WinType /\ SameButView(x, w) /\ x.v.ok = w.v.ok
        /\ x.v.top = t /\ x.v.top_hidden = h
        /\ Placed(x) /\ Shown(x) /\ Above(x) = A
    BY <1>2, <1>4, RedrawShows DEF Good
  <2>. HIDE DEF x
  <2>2. (OneLines(x) <=> OneLines(w)) /\ LinesOf(x, t) = L /\ Newest(x) = N /\ LinesUpTo(x)[N] = T
    <3>1. /\ (OneLines(x) <=> OneLines(w)) /\ \A k \in 1 .. N : LinesOf(x, k) = LinesOf(w, k)
          /\ \A k \in 0 .. N : LinesUpTo(x)[k] = LinesUpTo(w)[k]
      BY <2>1, SameBuffer DEF SameButView
    <3>2. Newest(x) = N
      BY <2>1 DEF SameButView, Newest
    <3>. HIDE DEF N, t
    <3>. QED  BY <1>1, <3>1, <3>2
  <2>3. /\ DownTo(x) = A + R - x.v.bottom_blank /\ DownTo(x) <= T
        /\ (AtEnd(x) <=> DownTo(x) = T) /\ (x.v.bottom_blank > 0 => AtEnd(x))
        /\ x.v.bottom_blank \in Nat
    BY <2>1, <2>2, Screen DEF SameButView, WinType
  <2>. HIDE DEF T, N, A, h, t, L, R
  <2>4. h = L => AtEnd(x) /\ OneLines(x)
    BY <1>1, <1>2, <1>3, <2>2, <2>3
  <2>5. x.v.bottom_blank > 0 => A = 0 \/ OneLines(x)
    BY <1>1, <1>2, <1>3, <2>2, <2>3
  <2>. QED  BY <2>1, <2>2, <2>4, <2>5 DEF Good, x, A, t, h, L
<1>5. CASE ~(h = 0 \/ t < N)
  <2>1. t = N /\ h > 0 /\ h <= L
    <3>. HIDE DEF N, h, t, L
    <3>. QED  BY <1>1, <1>5
  <2>2. (L - h) % Word = L - h /\ L - h < R /\ h # 0 /\ t # 0 /\ ~(L - h > R) /\ ~(t + 1 <= N)
    <3>. HIDE DEF N, h, t, L, R
    <3>. QED  BY SMTT(30), <1>1, <2>1
  <2>3. x = w
    BY <2>2 DEF Redraw
  <2>. QED  BY <2>3 DEF SameButView
<1>. QED  BY <1>4, <1>5

\* One turn of the loop moves the whole screen a line down.
LEMMA DownOneGood ==
    ASSUME MessagesFit, NEW w \in WinType, Good(w), ~AtEnd(w)
    PROVE  /\ ~LastLineGoes(w)
           /\ DownOne(w) \in WinType /\ SameButView(DownOne(w), w) /\ DownOne(w).v.ok = w.v.ok
           /\ Good(DownOne(w)) /\ Above(DownOne(w)) = Above(w) + 1
           /\ w.v.bottom_blank = 0 /\ DownOne(w).v.bottom_blank = 0
<1> DEFINE N == Newest(w)
           u == LinesUpTo(w)
           L(k) == LinesOf(w, k)
           A == Above(w)
           D == DownTo(w)
           R == w.rows
           t == w.v.top
           h == w.v.top_hidden
           b == w.v.bot
           g == w.v.bottom_hidden
           t1 == IF h + 1 = L(t) THEN t + 1 ELSE t
           h1 == IF h + 1 = L(t) THEN 0 ELSE h + 1
           b1 == IF g > 0 THEN b ELSE b + 1
           g1 == IF g > 0 THEN g - 1 ELSE L(b + 1) - 1
           x == DownOne(w)
<1>1. /\ N \in Nat /\ R \in Nat \ {0}
      /\ \A k \in 0 .. N : u[k] \in Nat
      /\ \A k \in 1 .. N : u[k] = u[k - 1] + L(k) /\ L(k) \in 1 .. R
      /\ \A i, j \in 0 .. N : i <= j => u[j] - u[i] >= j - i
  BY Layout
<1>2. /\ t \in 1 .. N /\ h \in 0 .. L(t) /\ h # L(t)
      /\ b \in 1 .. N /\ g \in Nat
      /\ (b = N => g # 0) /\ w.v.bottom_blank \in 0 .. R
  BY DEF Good, Placed, Shown, AtEnd
<1>3. /\ A = u[t - 1] + h /\ A \in Nat /\ D = u[b] - g /\ D \in Nat /\ D <= u[N] /\ D # u[N]
      /\ D = A + R - w.v.bottom_blank /\ w.v.bottom_blank = 0
  <2>1. ~(w.v.bottom_blank > 0)
    BY Screen DEF Good
  <2>2. w.v.bottom_blank = 0
    <3>. HIDE DEF R
    <3>. QED  BY <1>1, <1>2, <2>1
  <2>. QED  BY <2>2, Screen DEF Good
<1>. HIDE DEF N, u, L, A, D, R, t, h, b, g
<1>4. u[N] \in Nat /\ A + R < u[N]
  <2>1. u[N] \in Nat
    BY <1>1
  <2>. QED  BY <2>1, <1>1, <1>3
<1>5. ~(t = N /\ h + 1 = L(t))
  <2>1. SUFFICES ASSUME t = N, h + 1 = L(t) PROVE FALSE
    OBVIOUS
  <2>2. u[N] = u[t - 1] + L(t) /\ u[t - 1] \in Nat
    BY <2>1, <1>1, <1>2
  <2>. QED  BY <2>1, <2>2, <1>1, <1>2, <1>3, <1>4
<1>6. /\ t1 \in 1 .. N /\ h1 \in 0 .. L(t1) - 1 /\ L(t1) \in 1 .. R /\ u[t1 - 1] + h1 = A + 1
  <2>1. u[t - 1] \in Nat /\ u[t] = u[t - 1] + L(t) /\ L(t) \in 1 .. R
    BY <1>1, <1>2
  <2>2. CASE h + 1 = L(t)
    <3>1. t + 1 \in 1 .. N /\ (t + 1) - 1 = t
      BY <2>2, <1>1, <1>2, <1>5
    <3>2. L(t + 1) \in 1 .. R
      BY <3>1, <1>1
    <3>3. t1 = t + 1 /\ h1 = 0
      BY <2>2
    <3>4. u[t] + 0 = A + 1
      BY <2>1, <2>2, <1>2, <1>3
    <3>. HIDE DEF t1, h1
    <3>. QED  BY <3>1, <3>2, <3>3, <3>4, <1>1
  <2>3. CASE h + 1 # L(t)
    <3>1. t1 = t /\ h1 = h + 1
      BY <2>3
    <3>2. h + 1 \in 0 .. L(t) - 1 /\ u[t - 1] + (h + 1) = A + 1
      BY <2>1, <2>3, <1>2, <1>3
    <3>. HIDE DEF t1, h1
    <3>. QED  BY <2>1, <3>1, <3>2, <1>2
  <2>. QED  BY <2>2, <2>3
<1>7. b1 \in 1 .. N /\ g1 \in Nat /\ u[b1] - g1 = D + 1
  <2>1. CASE g > 0
    <3>1. u[b] \in Nat
      BY <1>1, <1>2
    <3>2. b1 = b /\ g1 = g - 1
      BY <2>1
    <3>3. g - 1 \in Nat /\ u[b] - (g - 1) = D + 1
      BY <2>1, <3>1, <1>2, <1>3
    <3>. HIDE DEF b1, g1
    <3>. QED  BY <3>1, <3>2, <3>3, <1>2
  <2>2. CASE ~(g > 0)
    <3>2. g = 0 /\ b + 1 \in 1 .. N /\ (b + 1) - 1 = b /\ b \in 0 .. N
      BY <2>2, <1>1, <1>2
    <3>3. u[b + 1] = u[b] + L(b + 1) /\ L(b + 1) \in 1 .. R /\ u[b] \in Nat
      BY <3>2, <1>1
    <3>4. b1 = b + 1 /\ g1 = L(b + 1) - 1
      BY <2>2
    <3>5. L(b + 1) - 1 \in Nat /\ u[b + 1] - (L(b + 1) - 1) = D + 1
      <4>1. D = u[b]
        BY <3>2, <3>3, <1>3
      <4>2. L(b + 1) \in Nat \ {0}
        BY <3>3, <1>1
      <4>. QED  BY <4>1, <4>2, <3>3
    <3>. HIDE DEF b1, g1
    <3>. QED  BY <3>2, <3>3, <3>4, <3>5
  <2>. QED  BY <2>1, <2>2
<1>8. t1 \in Nat /\ h1 \in Nat /\ b1 \in Nat /\ g1 \in Nat
  <2>. HIDE DEF t1, h1, b1, g1
  <2>. QED  BY <1>1, <1>6, <1>7
<1> DEFINE y == IF g > 0 THEN [w EXCEPT !.v.bottom_hidden = @ - 1]
                ELSE [w EXCEPT !.v.bot = @ + 1, !.v.bottom_hidden = L(b + 1) - 1]
<1>9. /\ y \in WinType /\ SameButView(y, w) /\ y.v.ok = w.v.ok
      /\ y.v.top = t /\ y.v.top_hidden = h /\ y.v.bot = b1 /\ y.v.bottom_hidden = g1
      /\ y.v.bottom_blank = w.v.bottom_blank
  <2>1. CASE g > 0
    BY <2>1, <1>8 DEF WinType, SameButView, t, h, b, g
  <2>2. CASE ~(g > 0)
    BY <2>2, <1>8 DEF WinType, SameButView, t, h, b, g
  <2>. QED  BY <2>1, <2>2
<1>10. /\ x \in WinType /\ SameButView(x, w) /\ x.v.ok = w.v.ok
       /\ x.v.top = t1 /\ x.v.top_hidden = h1 /\ x.v.bot = b1 /\ x.v.bottom_hidden = g1
       /\ x.v.bottom_blank = w.v.bottom_blank
  <2>1. x = IF h + 1 = L(t) THEN [y EXCEPT !.v.top = @ + 1, !.v.top_hidden = 0]
            ELSE [y EXCEPT !.v.top_hidden = @ + 1]
    BY DEF DownOne, t, h, b, g, L
  <2>. HIDE DEF x, y, b1, g1
  <2>2. CASE h + 1 = L(t)
    BY <2>1, <2>2, <1>8, <1>9 DEF WinType, SameButView
  <2>3. CASE h + 1 # L(t)
    BY <2>1, <2>3, <1>8, <1>9 DEF WinType, SameButView
  <2>. QED  BY <2>2, <2>3
<1>. HIDE DEF x, y, t1, h1, b1, g1
<1>11. /\ Newest(x) = N /\ (\A k \in 1 .. N : LinesOf(x, k) = L(k))
       /\ \A k \in 0 .. N : LinesUpTo(x)[k] = u[k]
  BY <1>10, SameBuffer DEF SameButView, N, L, u
<1>12. Above(x) = A + 1 /\ DownTo(x) = D + 1
  <2>1. t1 - 1 \in 0 .. N /\ b1 \in 0 .. N
    BY <1>1, <1>6, <1>7
  <2>. QED  BY <2>1, <1>6, <1>7, <1>10, <1>11, Marks
<1>13. Placed(x)
  <2>1. h1 \in 0 .. L(t1)
    BY <1>1, <1>6
  <2>. QED  BY <2>1, <1>6, <1>10, <1>11 DEF Placed
<1>14. Shown(x)
  <2>1. (D + 1) - (A + 1) + 0 = R
    <3>1. A \in Nat /\ R \in Nat /\ D = A + R - 0
      BY <1>1, <1>3
    <3>. QED  BY <3>1
  <2>2. x.rows = R /\ x.v.bottom_blank = 0 /\ 0 \in 0 .. R
    BY <1>1, <1>3, <1>10 DEF SameButView, R
  <2>. QED  BY <2>1, <2>2, <1>7, <1>10, <1>11, <1>12 DEF Shown
<1>15. Good(x)
  <2>1. h1 # L(t1)
    BY <1>1, <1>6
  <2>2. LinesOf(x, x.v.top) = L(t1)
    BY <1>6, <1>10, <1>11
  <2>. QED  BY <2>1, <2>2, <1>3, <1>10, <1>13, <1>14 DEF Good
<1>16. ~LastLineGoes(w)
  BY <1>5 DEF LastLineGoes, t, h, N, L
<1>. QED  BY <1>3, <1>10, <1>12, <1>15, <1>16 DEF x, A

\* The turns of the loop follow one another.
LEMMA DownTurnsDef ==
    ASSUME NEW w, NEW n \in Nat
    PROVE  DownTurns(w, n) =
              [i \in 0 .. n |-> IF i = 0 THEN w ELSE DownTurn(DownTurns(w, n)[i - 1])]
<1> DEFINE Turns(s, m) == s = [i \in 0 .. m |-> IF i = 0 THEN w ELSE DownTurn(s[i - 1])]
           T == {m \in Nat : ~\E s : Turns(s, m)}
<1>1. T = {}
  <2>1. SUFFICES ASSUME T # {} PROVE FALSE
    OBVIOUS
  <2>2. PICK m \in T : \A y \in T : m <= y
    BY <2>1, LeastNumber
  <2>3. CASE m = 0
    <3> DEFINE s == [i \in 0 .. 0 |-> w]
    <3>1. Turns(s, 0)
      OBVIOUS
    <3>. QED  BY <2>2, <2>3, <3>1
  <2>4. CASE m # 0
    <3>1. m \in Nat /\ m - 1 \in Nat
      BY <2>4
    <3>2. m - 1 \notin T
      <4>. HIDE DEF T
      <4>. QED  BY <2>2, <3>1
    <3>3. PICK r : Turns(r, m - 1)
      <4>. HIDE DEF Turns
      <4>. QED  BY <3>1, <3>2
    <3> DEFINE s == [i \in 0 .. m |-> IF i < m THEN r[i] ELSE DownTurn(r[m - 1])]
    <3>4. ASSUME NEW i \in 0 .. m PROVE s[i] = IF i = 0 THEN w ELSE DownTurn(s[i - 1])
      <4>1. CASE i < m
        BY <3>1, <3>3, <4>1
      <4>2. CASE i = m
        BY <2>4, <3>1, <4>2
      <4>. QED  BY <3>1, <4>1, <4>2
    <3>5. Turns(s, m)
      BY <3>4
    <3>. QED  BY <2>2, <3>5
  <2>. QED  BY <2>3, <2>4
<1>2. \E s : Turns(s, n)
  <2>. HIDE DEF Turns
  <2>. QED  BY <1>1
<1>3. DownTurns(w, n) = CHOOSE s : Turns(s, n)
  BY DEF DownTurns
<1>4. Turns(DownTurns(w, n), n)
  <2>. HIDE DEF Turns
  <2>. QED  BY <1>2, <1>3
<1>. QED  BY <1>4

\* swindow_scroll_down_by: the screen moves down n lines, or to the end.
LEMMA DownGood ==
    ASSUME MessagesFit, NEW w \in WinType, Good(w), NEW n \in Nat \ {0}
    PROVE  /\ ScrollDown(w, n) \in WinType /\ SameButView(ScrollDown(w, n), w)
           /\ ScrollDown(w, n).v.ok = w.v.ok /\ Good(ScrollDown(w, n))
           /\ ~AtEnd(w) =>
                 Above(ScrollDown(w, n)) =
                    Smaller(Above(w) + n, LinesUpTo(w)[Newest(w)] - w.rows)
<1> DEFINE down == DownTurns(w, n)
           E == LinesUpTo(w)[Newest(w)] - w.rows
           A == Above(w)
           P(i) == /\ down[i] \in WinType /\ SameButView(down[i], w) /\ down[i].v.ok = w.v.ok
                   /\ Good(down[i]) /\ down[i].v.bottom_blank = 0
                   /\ Above(down[i]) = Smaller(A + i, E)
           x == ScrollDown(w, n)
<1>1. CASE AtEnd(w)
  <2>1. w.v.top # 0
    BY Layout DEF Good, Placed
  <2>2. ScrollDown(w, n) = w
    BY <1>1, <2>1 DEF ScrollDown
  <2>. QED  BY <1>1, <2>2 DEF SameButView
<1>2. CASE ~AtEnd(w)
  <2>1. \A i \in 0 .. n : down[i] = IF i = 0 THEN w ELSE DownTurn(down[i - 1])
    BY DownTurnsDef
  <2>2. LinesUpTo(w)[Newest(w)] \in Nat /\ w.rows \in Nat \ {0} /\ E \in Int /\ A \in Nat
    <3>1. Newest(w) \in 0 .. Newest(w)
      BY Layout
    <3>. QED  BY <3>1, Layout, Screen DEF Good
  <2>3. \A y \in WinType : SameButView(y, w) /\ Good(y) /\ y.v.bottom_blank = 0 =>
           Above(y) \in Nat /\ Above(y) <= E /\ (AtEnd(y) <=> Above(y) = E)
    <3>1. SUFFICES ASSUME NEW y \in WinType, SameButView(y, w), Good(y), y.v.bottom_blank = 0
                   PROVE  Above(y) \in Nat /\ Above(y) <= E /\ (AtEnd(y) <=> Above(y) = E)
      OBVIOUS
    <3>2. /\ Above(y) \in Nat /\ DownTo(y) <= LinesUpTo(y)[Newest(y)]
          /\ AtEnd(y) <=> DownTo(y) = LinesUpTo(y)[Newest(y)]
          /\ DownTo(y) = Above(y) + y.rows - y.v.bottom_blank
      BY <3>1, Screen DEF Good
    <3>3. Newest(y) = Newest(w) /\ LinesUpTo(y)[Newest(w)] = LinesUpTo(w)[Newest(w)]
      <4>1. Newest(w) \in 0 .. Newest(w)
        BY Layout
      <4>. QED  BY <3>1, <4>1, SameBuffer DEF SameButView
    <3>4. y.rows = w.rows
      BY <3>1 DEF SameButView
    <3>. QED  BY <3>1, <3>2, <3>3, <3>4, <2>2
  <2>4. P(0)
    <3>1. down[0] = w
      BY <2>1
    <3>2. w.v.bottom_blank = 0
      BY <1>2, DownOneGood
    <3>3. A <= E
      BY <2>3, <3>2 DEF SameButView
    <3>4. A = Smaller(A + 0, E)
      <4>. HIDE DEF A, E
      <4>. QED  BY <2>2, <3>3 DEF Smaller
    <3>. QED  BY <3>1, <3>2, <3>4 DEF SameButView
  <2>5. ASSUME NEW i \in 1 .. n, P(i - 1) PROVE P(i)
    <3> DEFINE y == down[i - 1]
               z == down[i]
    <3>1. z = DownTurn(y) /\ i - 1 \in Nat
      BY <2>1
    <3>2. /\ y \in WinType /\ SameButView(y, w) /\ y.v.ok = w.v.ok
          /\ Good(y) /\ y.v.bottom_blank = 0 /\ Above(y) = Smaller(A + (i - 1), E)
      BY <2>5
    <3>3. Above(y) \in Nat /\ Above(y) <= E /\ (AtEnd(y) <=> Above(y) = E)
      BY <2>3, <3>2
    <3>. HIDE DEF y, z
    <3>4. CASE AtEnd(y)
      <4>1. z = y
        BY <3>1, <3>4 DEF DownTurn
      <4>2. Smaller(A + (i - 1), E) = Smaller(A + i, E)
        <5>. HIDE DEF A, E
        <5>. QED  BY <2>2, <3>1, <3>2, <3>3, <3>4 DEF Smaller
      <4>. QED  BY <3>2, <4>1, <4>2 DEF z
    <3>5. CASE ~AtEnd(y)
      <4>1. /\ ~LastLineGoes(y) /\ DownOne(y) \in WinType /\ SameButView(DownOne(y), y)
            /\ DownOne(y).v.ok = y.v.ok /\ Good(DownOne(y)) /\ Above(DownOne(y)) = Above(y) + 1
            /\ DownOne(y).v.bottom_blank = 0
        BY <3>2, <3>5, DownOneGood
      <4>2. z = DownOne(y)
        BY <3>1, <3>5, <4>1 DEF DownTurn
      <4>3. Above(y) + 1 = Smaller(A + i, E)
        <5>. HIDE DEF A, E
        <5>. QED  BY <2>2, <3>1, <3>2, <3>3, <3>5 DEF Smaller
      <4>4. SameButView(z, w)
        BY <3>2, <4>1, <4>2 DEF SameButView
      <4>. QED  BY <3>2, <4>1, <4>2, <4>3, <4>4 DEF z
    <3>. QED  BY <3>4, <3>5
  <2>6. \A i \in 0 .. n : P(i)
    <3> DEFINE T == {i \in 0 .. n : ~P(i)}
    <3>. HIDE DEF P
    <3>1. SUFFICES ASSUME T # {} PROVE FALSE
      OBVIOUS
    <3>2. PICK m \in T : \A y \in T : m <= y
      <4>1. T \in SUBSET Nat
        OBVIOUS
      <4>. HIDE DEF T
      <4>. QED  BY <3>1, <4>1, LeastNumber
    <3>3. m # 0
      BY <2>4, <3>2
    <3>4. m \in 1 .. n /\ m - 1 \in 0 .. n /\ ~(m <= m - 1)
      BY <3>2, <3>3
    <3>5. m - 1 \notin T
      <4>. HIDE DEF T
      <4>. QED  BY <3>2, <3>4
    <3>6. P(m - 1)
      BY <3>4, <3>5
    <3>. QED  BY <2>5, <3>2, <3>4, <3>6
  <2>7. P(n) /\ P(n - 1)
    <3>. HIDE DEF P
    <3>. QED  BY <2>6
  <2>8. x = Redraw(down[n])
    <3>1. w.v.top # 0
      BY Layout DEF Good, Placed
    <3>2. ~(~AtEnd(down[n - 1]) /\ LastLineGoes(down[n - 1]))
      BY <2>7, DownOneGood
    <3>. QED  BY <1>2, <3>1, <3>2 DEF ScrollDown
  <2>. HIDE DEF x, A, E
  <2>9. /\ x \in WinType /\ SameButView(x, down[n]) /\ x.v.ok = w.v.ok
        /\ Good(x) /\ Above(x) = Smaller(A + n, E)
    BY <2>7, <2>8, RedrawKeeps
  <2>10. SameButView(x, w)
    BY <2>7, <2>9 DEF SameButView
  <2>. QED  BY <2>9, <2>10 DEF x, A, E
<1>. QED  BY <1>1, <1>2

\* A message more: the lines of those before it are what they were.
LEMMA Grown ==
    ASSUME MessagesFit, NEW w \in WinType, NEW x \in WinType, NEW len \in TextLens,
           x.buf = Append(w.buf, len), x.cols = w.cols, x.wrap = w.wrap
    PROVE  /\ Newest(x) = Newest(w) + 1
           /\ \A k \in 1 .. Newest(w) : LinesOf(x, k) = LinesOf(w, k)
           /\ \A k \in 0 .. Newest(w) : LinesUpTo(x)[k] = LinesUpTo(w)[k]
<1> DEFINE N == Newest(w)
<1>1. N \in Nat /\ N = Len(w.buf) /\ w.buf \in Seq(TextLens)
  BY WinFacts DEF WinType
<1>2. Newest(x) = N + 1
  BY <1>1 DEF Newest
<1>3. ASSUME NEW k \in 1 .. N PROVE LinesOf(x, k) = LinesOf(w, k)
  <2>1. x.buf[k] = w.buf[k]
    BY <1>1
  <2>. QED  BY <2>1 DEF LinesOf
<1>4. ASSUME NEW k \in 1 .. N PROVE LinesOf(x, k) = LinesOf(w, 0 + k)
  <2>1. 0 + k = k
    BY <1>1
  <2>. QED  BY <1>3, <2>1
<1>5. N \in Nat /\ N <= Newest(x) /\ 0 + N <= Newest(w)
  BY <1>1, <1>2
<1>. HIDE DEF N
<1>6. \A k \in 0 .. N : LinesUpTo(x)[k] = LinesUpTo(w)[0 + k] - LinesUpTo(w)[0]
  BY <1>4, <1>5, UpToSame
<1>7. ASSUME NEW k \in 0 .. N PROVE LinesUpTo(x)[k] = LinesUpTo(w)[k]
  <2>1. 0 + k = k
    BY <1>1
  <2>2. LinesUpTo(w)[k] \in Nat /\ LinesUpTo(w)[0] = 0
    BY Layout DEF N
  <2>. QED  BY <1>6, <2>1, <2>2
<1>. QED  BY <1>2, <1>3, <1>7 DEF N

\* The first n messages dropped: the lines of the others are what they were.
LEMMA Cut ==
    ASSUME MessagesFit, NEW w \in WinType, NEW x \in WinType, NEW n \in 0 .. Newest(w),
           x.buf = SubSeq(w.buf, n + 1, Newest(w)), x.cols = w.cols, x.wrap = w.wrap
    PROVE  /\ Newest(x) = Newest(w) - n
           /\ \A k \in 1 .. Newest(w) - n : LinesOf(x, k) = LinesOf(w, n + k)
           /\ \A k \in 0 .. Newest(w) - n :
                 LinesUpTo(x)[k] = LinesUpTo(w)[n + k] - LinesUpTo(w)[n]
<1> DEFINE N == Newest(w)
           m == N - n
<1>1. N \in Nat /\ N = Len(w.buf) /\ w.buf \in Seq(TextLens) /\ n \in 0 .. Len(w.buf)
  BY WinFacts DEF WinType
<1>2. Len(x.buf) = m /\ \A k \in 1 .. m : x.buf[k] = w.buf[n + k]
  BY SMTT(30), <1>1, SplitSeq
<1>3. Newest(x) = m
  BY <1>2 DEF Newest
<1>4. ASSUME NEW k \in 1 .. m PROVE LinesOf(x, k) = LinesOf(w, n + k)
  BY <1>2 DEF LinesOf
<1>5. m \in Nat /\ m <= Newest(x) /\ n \in Nat /\ n + m <= Newest(w)
  BY <1>1, <1>3
<1>. HIDE DEF m
<1>6. \A k \in 0 .. m : LinesUpTo(x)[k] = LinesUpTo(w)[n + k] - LinesUpTo(w)[n]
  BY <1>4, <1>5, UpToSame
<1>. QED  BY <1>3, <1>4, <1>6 DEF m

\* The lines below a screen: those of the message bot points to, where that is the
\* newest one.
LEMMA BelowIs ==
    ASSUME MessagesFit, NEW w \in WinType, Good(w)
    PROVE  /\ Below(w) = LinesUpTo(w)[Newest(w)] - DownTo(w) /\ Below(w) \in Nat
           /\ AtEnd(w) <=> Below(w) = 0
           /\ w.v.bot = Newest(w) => Below(w) = w.v.bottom_hidden
<1> DEFINE N == Newest(w)
           T == LinesUpTo(w)[N]
           D == DownTo(w)
<1>1. N \in Nat /\ T \in Nat /\ Lines(w, 1, N) = T - 0
  <2>1. N \in Nat /\ w.v.top \in 1 .. N
    BY WinFacts DEF Good, Placed
  <2>2. 1 \in 1 .. N + 1 /\ N \in 0 .. N /\ 1 <= N + 1 /\ 1 - 1 = 0
    <3>. HIDE DEF N
    <3>. QED  BY <2>1
  <2>3. LinesUpTo(w)[0] = 0 /\ T \in Nat
    BY <2>2, Layout
  <2>4. Lines(w, 1, N) = T - LinesUpTo(w)[1 - 1]
    BY <2>2, LinesIs
  <2>. QED  BY <2>1, <2>2, <2>3, <2>4
<1>2. D \in Nat /\ D <= T /\ (AtEnd(w) <=> D = T) /\ D = LinesUpTo(w)[w.v.bot] - w.v.bottom_hidden
  BY Screen DEF Good
<1>3. w.v.bottom_hidden \in Nat
  BY DEF WinType
<1>4. Below(w) = T - D
  <2>. HIDE DEF T, D
  <2>. QED  BY <1>1, <1>2 DEF Below, N, D
<1>5. w.v.bot = N => D = T - w.v.bottom_hidden
  BY <1>2
<1>. HIDE DEF T, D
<1>6. T - D \in Nat /\ (AtEnd(w) <=> T - D = 0)
  BY <1>1, <1>2
<1>7. w.v.bot = N => T - D = w.v.bottom_hidden
  BY <1>1, <1>2, <1>3, <1>5
<1>. QED  BY <1>4, <1>6, <1>7 DEF N, T, D

\* The same window but for its messages and its view.
SameFrame(x, w) == x.rows = w.rows /\ x.cols = w.cols /\ x.wrap = w.wrap /\ x.max = w.max

\* swindow_prune drops nothing of the screen.
LEMMA PruneGood ==
    ASSUME MessagesFit, NEW w \in WinType, Good(w), w.max >= w.rows
    PROVE  /\ Prune(w) \in WinType /\ SameFrame(Prune(w), w) /\ Prune(w).v.ok = w.v.ok
           /\ Good(Prune(w)) /\ (AtEnd(w) => AtEnd(Prune(w)) /\ Bounded(Prune(w)))
           /\ Newest(Prune(w)) <= Newest(w)
           /\ w.v.bot = Newest(w) => Prune(w).v.bot = Newest(Prune(w))
           /\ Prune(w).v.bottom_hidden = w.v.bottom_hidden
           /\ Cleared(Prune(w)) => Cleared(w)
<1> DEFINE N == Newest(w)
           u == LinesUpTo(w)
           L(k) == LinesOf(w, k)
           A == Above(w)
           D == DownTo(w)
           R == w.rows
           t == w.v.top
           h == w.v.top_hidden
           b == w.v.bot
           g == w.v.bottom_hidden
           blank == w.v.bottom_blank
           over == Larger(0, N - w.max)
           n == Smaller(over, t - 1)
           x == Prune(w)
<1>1. /\ N \in Nat /\ R \in Nat \ {0}
      /\ \A k \in 0 .. N : u[k] \in Nat
      /\ \A k \in 1 .. N : u[k] = u[k - 1] + L(k) /\ L(k) \in 1 .. R
      /\ \A i, j \in 0 .. N : i <= j => u[j] - u[i] >= j - i
  BY Layout
<1>2. /\ t \in 1 .. N /\ h \in 0 .. L(t) /\ b \in 1 .. N /\ g \in Nat /\ blank \in 0 .. R
      /\ w.max \in Nat /\ w.max >= R
      /\ (h = L(t) => AtEnd(w) /\ OneLines(w)) /\ (blank > 0 => A = 0 \/ OneLines(w))
      /\ (AtEnd(w) <=> b = N /\ g = 0)
  BY DEF Good, Placed, Shown, WinType, AtEnd
<1>3. /\ A = u[t - 1] + h /\ A \in Nat /\ D = u[b] - g /\ D \in Nat
      /\ (AtEnd(w) <=> D = u[N]) /\ t <= b
      /\ D = A + R - blank /\ (blank > 0 => AtEnd(w))
  BY Screen DEF Good
<1>0. /\ N \in Nat /\ R \in Nat \ {0} /\ t \in Nat /\ 1 <= t /\ b \in Nat /\ 1 <= b /\ t <= b
      /\ L(t) \in Nat /\ h \in Nat /\ h <= L(t) /\ blank \in Nat /\ w.max \in Nat /\ R <= w.max
  <2>. HIDE DEF N, t, b, R, h, L, blank
  <2>1. L(t) \in Nat
    BY <1>1, <1>2
  <2>. QED  BY <2>1, <1>1, <1>2, <1>3
<1>4. over \in Nat /\ n \in 0 .. t - 1 /\ (n = over \/ n = t - 1) /\ n <= over
  <2>. HIDE DEF N, t
  <2>1. over \in Nat
    BY <1>1, <1>2 DEF Larger
  <2>. HIDE DEF over
  <2>. QED  BY <2>1, <1>1, <1>2 DEF Smaller
<1>5. x = [w EXCEPT !.buf = SubSeq(w.buf, n + 1, N), !.v.top = t - n, !.v.bot = b - n]
  <2>1. t # 0 /\ b # 0 /\ ~(n > 0 /\ (t <= n \/ b <= n))
    <3>. HIDE DEF N, t, b, n, h, L, R, blank, over
    <3>. QED  BY <1>0, <1>4
  <2>. QED  BY <1>3, <2>1 DEF Prune
<1>. HIDE DEF x, n
<1>6. t - n \in 1 .. N - n /\ b - n \in 1 .. N - n /\ n \in 0 .. N /\ (t - n) - 1 \in 0 .. N - n
  <2>. HIDE DEF N, t, b
  <2>. QED  BY <1>1, <1>2, <1>3, <1>4
<1>7. SubSeq(w.buf, n + 1, N) \in Seq(TextLens)
  <2>1. w.buf \in Seq(TextLens) /\ N = Len(w.buf)
    BY DEF WinType, Newest
  <2>. HIDE DEF N
  <2>. QED  BY <1>6, <2>1, SplitSeq
<1>8. /\ x \in WinType /\ x.buf = SubSeq(w.buf, n + 1, N) /\ SameFrame(x, w) /\ x.v.ok = w.v.ok
      /\ x.v.top = t - n /\ x.v.top_hidden = h /\ x.v.bot = b - n /\ x.v.bottom_hidden = g
      /\ x.v.bottom_blank = blank
  <2>1. t - n \in Nat /\ b - n \in Nat
    <3>. HIDE DEF N, t, b
    <3>. QED  BY <1>1, <1>6
  <2>. QED  BY <1>5, <1>7, <2>1 DEF WinType, SameFrame
<1>9. /\ Newest(x) = N - n
      /\ \A k \in 1 .. N - n : LinesOf(x, k) = L(n + k)
      /\ \A k \in 0 .. N - n : LinesUpTo(x)[k] = u[n + k] - u[n]
  BY <1>6, <1>8, Cut DEF SameFrame
<1>10. Above(x) = A - u[n] /\ DownTo(x) = D - u[n] /\ A - u[n] \in Nat
  <2>1. Above(x) = LinesUpTo(x)[(t - n) - 1] + h /\ DownTo(x) = LinesUpTo(x)[b - n] - g
    BY <1>6, <1>8, <1>9, Marks
  <2>2. LinesUpTo(x)[(t - n) - 1] = u[t - 1] - u[n] /\ LinesUpTo(x)[b - n] = u[b] - u[n]
    <3>1. n + ((t - n) - 1) = t - 1 /\ n + (b - n) = b /\ b - n \in 0 .. N - n
      <4>. HIDE DEF N, t, b
      <4>. QED  BY <1>1, <1>2, <1>6
    <3>2. LinesUpTo(x)[(t - n) - 1] = u[n + ((t - n) - 1)] - u[n]
      BY <1>6, <1>9
    <3>3. LinesUpTo(x)[b - n] = u[n + (b - n)] - u[n]
      BY <3>1, <1>9
    <3>. QED  BY <3>1, <3>2, <3>3
  <2>3. LinesUpTo(x)[(t - n) - 1] \in Nat
    BY <1>6, <1>8, <1>9, Layout
  <2>4. u[n] \in Nat /\ u[b] \in Nat /\ u[t - 1] \in Nat
    <3>1. n \in 0 .. N /\ b \in 0 .. N /\ t - 1 \in 0 .. N
      <4>. HIDE DEF N, t, b
      <4>. QED  BY <1>1, <1>2, <1>6
    <3>. QED  BY <3>1, <1>1
  <2>. HIDE DEF N, u, L, A, D, t, h, b, g
  <2>. QED  BY <2>1, <2>2, <2>3, <2>4, <1>1, <1>2, <1>3
<1>11. LinesOf(x, t - n) = L(t) /\ LinesOf(x, b - n) = L(b)
  <2>1. n + (t - n) = t /\ n + (b - n) = b
    <3>. HIDE DEF N, t, b
    <3>. QED  BY <1>1, <1>2, <1>6
  <2>. QED  BY <2>1, <1>6, <1>9
<1>12. AtEnd(w) <=> AtEnd(x)
  <2>1. b = N <=> b - n = N - n
    <3>. HIDE DEF N, b
    <3>. QED  BY <1>1, <1>2, <1>6
  <2>. QED  BY <2>1, <1>8, <1>9 DEF AtEnd
<1>13. Placed(x)
  BY <1>2, <1>6, <1>8, <1>9, <1>11 DEF Placed
<1>14. Shown(x)
  <2>1. (D - u[n]) - (A - u[n]) + blank = R
    <3>1. u[n] \in Nat
      BY <1>1, <1>6
    <3>. HIDE DEF D, A, u, R, blank
    <3>. QED  BY <3>1, <1>1, <1>2, <1>3
  <2>2. x.rows = R
    BY <1>8 DEF SameFrame
  <2>. QED
    BY <2>1, <2>2, <1>2, <1>3, <1>6, <1>8, <1>9, <1>10, <1>11, <1>12 DEF Shown
<1>15. Good(x)
  <2>1. A = 0 => A - u[n] = 0
    <3>1. u[n] \in Nat
      BY <1>1, <1>6
    <3>. HIDE DEF A, u
    <3>. QED  BY <3>1, <1>10
  <2>2. ASSUME OneLines(w) PROVE OneLines(x)
    <3>1. \A k \in 1 .. N - n : n + k \in 1 .. N
      <4>. HIDE DEF N
      <4>. QED  BY <1>1, <1>6
    <3>2. \A k \in 1 .. N : L(k) = 1
      BY <2>2 DEF OneLines
    <3>. QED  BY <1>9, <3>1, <3>2 DEF OneLines
  <2>. QED  BY <2>1, <2>2, <1>2, <1>8, <1>10, <1>11, <1>12, <1>13, <1>14 DEF Good
<1>16. ASSUME AtEnd(w) PROVE Bounded(x)
  <2>. HIDE DEF N, u, L, A, D, R, t, h, b, g, blank
  <2>1. CASE n = over
    <3>1. N - n <= w.max
      BY <2>1, <1>1, <1>2, <1>4 DEF over, Larger
    <3>. QED  BY <3>1, <1>8, <1>9 DEF Bounded, SameFrame
  <2>2. CASE n = t - 1
    <3>1. u[N] - u[t] >= N - t /\ u[N] \in Nat /\ u[t] \in Nat /\ u[t - 1] \in Nat
      BY <1>1, <1>2
    <3>2. u[t] = u[t - 1] + L(t) /\ L(t) \in 1 .. R
      BY <1>1, <1>2
    <3>3. u[N] = u[t - 1] + h + R - blank
      BY <1>3, <1>16
    <3>4. N - t <= h - L(t) + R - blank
      BY <3>1, <3>2, <3>3, <1>1, <1>2
    <3>5. N - n = N - t + 1
      BY <2>2, <1>1, <1>2
    <3>6. N - n <= w.max \/ (N - n = w.max + 1 /\ h = L(t))
      <4>1. N - n \in Int /\ N - n <= h - L(t) + R - blank + 1
        BY <3>4, <3>5, <1>0
      <4>2. h < L(t) \/ h = L(t)
        BY <1>0
      <4>. QED  BY <4>1, <4>2, <1>0
    <3>. QED  BY <3>6, <1>8, <1>9, <1>11 DEF Bounded, SameFrame
  <2>. QED  BY <2>1, <2>2, <1>4
<1>17. Newest(x) <= N
  <2>. HIDE DEF N
  <2>. QED  BY <1>1, <1>6, <1>9
<1>18. b = N => x.v.bot = Newest(x)
  BY <1>8, <1>9
<1>19. Cleared(x) => Cleared(w)
  <2>1. A = 0 => A - u[n] = 0
    <3>1. u[n] \in Nat
      BY <1>1, <1>6
    <3>. HIDE DEF A, u
    <3>. QED  BY <3>1, <1>10
  <2>. QED  BY <2>1, <1>8, <1>10 DEF Cleared
<1>. QED  BY <1>8, <1>12, <1>15, <1>16, <1>17, <1>18, <1>19 DEF x

\* swindow_adjust_top moves the top n lines down, when there are more than n.
LEMMA AdjustGood ==
    ASSUME MessagesFit, NEW w \in WinType, Placed(w), NEW n \in Nat \ {0},
           LinesUpTo(w)[w.v.top - 1] + w.v.top_hidden + n < LinesUpTo(w)[Newest(w)]
    PROVE  /\ AdjustTop(w, n) \in WinType /\ SameButView(AdjustTop(w, n), w)
           /\ AdjustTop(w, n).v.top \in 1 .. Newest(w)
           /\ AdjustTop(w, n).v.top_hidden \in 0 .. LinesOf(w, AdjustTop(w, n).v.top) - 1
           /\ LinesUpTo(w)[AdjustTop(w, n).v.top - 1] + AdjustTop(w, n).v.top_hidden
                = LinesUpTo(w)[w.v.top - 1] + w.v.top_hidden + n
           /\ AdjustTop(w, n).v.bot = w.v.bot
           /\ AdjustTop(w, n).v.bottom_hidden = w.v.bottom_hidden
           /\ AdjustTop(w, n).v.bottom_blank = w.v.bottom_blank
           /\ AdjustTop(w, n).v.ok = w.v.ok
<1> DEFINE N == Newest(w)
           u == LinesUpTo(w)
           L(k) == LinesOf(w, k)
           R == w.rows
           t == w.v.top
           h == w.v.top_hidden
           A == u[t - 1] + h
           Ln(k) == Lines(w, t + 1, k)
           shown(k) == ((L(t) - h) % Word) + Ln(k)
           reach == {k \in t .. N : shown(k) >= n}
           k == CHOOSE i \in reach : \A j \in reach : i <= j
           rest == shown(k) - n
           t1 == IF rest = 0 THEN k + 1 ELSE k
           h1 == IF rest = 0 THEN 0 ELSE (L(k) - rest) % Word
           x == AdjustTop(w, n)
<1>1. /\ N \in Nat /\ R \in Nat \ {0} /\ R < Word /\ Word \in Nat
      /\ \A i \in 0 .. N : u[i] \in Nat
      /\ \A i \in 1 .. N : u[i] = u[i - 1] + L(i) /\ L(i) \in 1 .. R
  BY Layout
<1>2. t \in 1 .. N /\ h \in 0 .. L(t) /\ A + n < u[N]
  BY DEF Placed
<1>3. u[t - 1] \in Nat /\ u[t] = u[t - 1] + L(t) /\ L(t) \in 1 .. R /\ u[N] \in Nat /\ A \in Nat
  <2>1. t - 1 \in 0 .. N /\ N \in 0 .. N
    <3>. HIDE DEF N, t
    <3>. QED  BY <1>1, <1>2
  <2>2. u[t - 1] \in Nat /\ u[t] = u[t - 1] + L(t) /\ L(t) \in 1 .. R /\ u[N] \in Nat
    <3>. HIDE DEF N, u, t, L
    <3>. QED  BY <1>1, <1>2, <2>1
  <2>. HIDE DEF u, t, L, h, N
  <2>. QED  BY <1>2, <2>2
<1>4. \A i \in t .. N : shown(i) = u[i] - A /\ u[i] \in Nat
  <2>1. SUFFICES ASSUME NEW i \in t .. N PROVE shown(i) = u[i] - A /\ u[i] \in Nat
    OBVIOUS
  <2>2. t + 1 \in 1 .. N + 1 /\ i \in 0 .. N /\ t + 1 <= i + 1 /\ (t + 1) - 1 = t
    <3>. HIDE DEF N, t
    <3>. QED  BY <1>1, <1>2
  <2>3. Ln(i) = u[i] - u[t]
    <3>1. Ln(i) = u[i] - u[(t + 1) - 1]
      BY <2>2, LinesIs
    <3>. QED  BY <2>2, <3>1
  <2>4. (L(t) - h) % Word = L(t) - h
    <3>. HIDE DEF L, t, h, R, u, N
    <3>1. L(t) - h \in 0 .. R
      BY <1>1, <1>2, <1>3
    <3>. QED  BY <1>1, <3>1
  <2>5. u[i] \in Nat
    BY <1>1, <2>2
  <2>. HIDE DEF N, u, L, t, h, Ln
  <2>. QED  BY <1>2, <1>3, <2>3, <2>4, <2>5
<1>5. N \in reach
  <2>1. N \in t .. N
    <3>. HIDE DEF N, t
    <3>. QED  BY <1>1, <1>2
  <2>. HIDE DEF shown, A, u, N, t
  <2>2. shown(N) = u[N] - A
    BY <1>4, <2>1
  <2>. QED  BY <1>2, <1>3, <2>1, <2>2
<1>6. k \in t .. N /\ shown(k) >= n /\ \A i \in t .. N : shown(i) >= n => k <= i
  <2>1. k \in reach /\ \A y \in reach : k <= y
    <3>1. reach \in SUBSET Nat
      <4>. HIDE DEF N, t
      <4>. QED  BY <1>1, <1>2
    <3>. HIDE DEF reach
    <3>2. \E i \in reach : \A j \in reach : i <= j
      BY <1>5, <3>1, LeastNumber
    <3>. QED  BY <3>2
  <2>. HIDE DEF k, shown
  <2>. QED  BY <2>1
<1>7. x = IF rest = 0 THEN [w EXCEPT !.v.top = IF k = N THEN 0 ELSE k + 1, !.v.top_hidden = 0]
          ELSE [w EXCEPT !.v.top = k, !.v.top_hidden = h1]
  <2>1. t # 0
    <3>. HIDE DEF N, t
    <3>. QED  BY <1>1, <1>2
  <2>2. reach # {}
    <3>. HIDE DEF reach
    <3>. QED  BY <1>5
  <2> DEFINE y == [w EXCEPT !.v.top = IF k = N THEN 0 ELSE k + 1, !.v.top_hidden = 0]
             z == [w EXCEPT !.v.top = k, !.v.top_hidden = (L(k) - rest) % Word]
  <2>3. x = CASE t = 0 \/ reach = {} -> Bad(w)
              [] t # 0 /\ reach # {} /\ rest = 0 -> y
              [] OTHER -> z
    BY DEF AdjustTop
  <2>4. rest # 0 => z = [w EXCEPT !.v.top = k, !.v.top_hidden = h1]
    <3>. HIDE DEF rest, k
    <3>. QED  OBVIOUS
  <2>. HIDE DEF x, y, z, t, reach, rest, k, h1, N
  <2>5. x = IF rest = 0 THEN y ELSE z
    BY <2>1, <2>2, <2>3
  <2>. QED  BY <2>4, <2>5 DEF y
<1>. HIDE DEF x, k, shown
<1>8. shown(k) = u[k] - A /\ u[k] \in Nat /\ k \in Nat
  <2>1. k \in Nat
    <3>. HIDE DEF N, t
    <3>. QED  BY <1>1, <1>2, <1>6
  <2>. HIDE DEF u, A
  <2>. QED  BY <1>4, <1>6, <2>1
<1>9. k \in 1 .. N /\ u[k] = u[k - 1] + L(k) /\ L(k) \in 1 .. R /\ u[k - 1] \in Nat /\ k - 1 \in 0 .. N
  <2>. HIDE DEF N, u, L, R, t
  <2>1. k \in 1 .. N /\ k - 1 \in 0 .. N
    BY <1>1, <1>2, <1>6
  <2>. QED  BY <1>1, <2>1
<1>10. rest \in Nat /\ rest = u[k] - A - n
  <2>. HIDE DEF A, u
  <2>. QED  BY <1>3, <1>6, <1>8
<1>. HIDE DEF rest
<1>11. k = N => rest # 0
  <2>. HIDE DEF A, u, N
  <2>. QED  BY <1>2, <1>3, <1>10
<1>12. rest < L(k)
  <2>1. CASE k = t
    <3>. HIDE DEF u, L, R, h, t
    <3>. QED  BY <2>1, <1>2, <1>3, <1>10 DEF A
  <2>2. CASE k # t
    <3>1. k - 1 \in t .. N /\ ~(k <= k - 1)
      <4>. HIDE DEF t, N
      <4>. QED  BY <2>2, <1>1, <1>2, <1>6, <1>8
    <3>2. ~(shown(k - 1) >= n) /\ shown(k - 1) = u[k - 1] - A
      <4>. HIDE DEF t, N, u, A
      <4>. QED  BY <3>1, <1>4, <1>6
    <3>. HIDE DEF u, L, R, A
    <3>. QED  BY <3>2, <1>3, <1>9, <1>10
  <2>. QED  BY <2>1, <2>2
<1>13. /\ t1 \in 1 .. N /\ h1 \in 0 .. L(t1) - 1 /\ u[t1 - 1] + h1 = A + n
       /\ x = [w EXCEPT !.v.top = t1, !.v.top_hidden = h1]
  <2>1. CASE rest = 0
    <3>1. k # N /\ k + 1 \in 1 .. N /\ (k + 1) - 1 = k
      <4>1. k # N
        BY <2>1, <1>11
      <4>. HIDE DEF N
      <4>. QED  BY <4>1, <1>1, <1>9
    <3>2. L(k + 1) \in 1 .. R
      BY <3>1, <1>1
    <3>3. u[k] = A + n
      <4>. HIDE DEF u, A
      <4>. QED  BY <2>1, <1>3, <1>8, <1>10
    <3>4. t1 = k + 1 /\ h1 = 0 /\ x = [w EXCEPT !.v.top = k + 1, !.v.top_hidden = 0]
      BY <2>1, <3>1, <1>7
    <3>5. 0 \in 0 .. L(k + 1) - 1 /\ u[k] + 0 = A + n
      <4>. HIDE DEF u, A, L, R
      <4>. QED  BY <3>2, <3>3, <1>1, <1>3
    <3>. HIDE DEF t1, h1, u, A, L, R, N
    <3>. QED  BY <3>1, <3>4, <3>5
  <2>2. CASE rest # 0
    <3>1. L(k) - rest \in 0 .. L(k) - 1 /\ (L(k) - rest) % Word = L(k) - rest
      <4>. HIDE DEF L, R
      <4>1. L(k) - rest \in 0 .. L(k) - 1 /\ L(k) - rest < Word
        BY <2>2, <1>1, <1>9, <1>10, <1>12
      <4>. QED  BY <4>1, <1>1
    <3>2. t1 = k /\ h1 = L(k) - rest /\ x = [w EXCEPT !.v.top = k, !.v.top_hidden = h1]
      BY <2>2, <3>1, <1>7
    <3>3. u[k - 1] + (L(k) - rest) = A + n
      <4>. HIDE DEF L, R, u, A
      <4>. QED  BY <1>1, <1>3, <1>9, <1>10
    <3>. HIDE DEF t1, h1, u, A, L, R, N
    <3>. QED  BY <3>1, <3>2, <3>3, <1>9
  <2>. QED  BY <2>1, <2>2
<1>. HIDE DEF t1, h1
<1>14. t1 \in Nat /\ h1 \in Nat
  <2>1. L(t1) \in Nat
    BY <1>1, <1>13
  <2>. HIDE DEF N, L
  <2>. QED  BY <2>1, <1>1, <1>13
<1>15. /\ x \in WinType /\ SameButView(x, w) /\ x.v.top = t1 /\ x.v.top_hidden = h1
       /\ x.v.bot = w.v.bot /\ x.v.bottom_hidden = w.v.bottom_hidden
       /\ x.v.bottom_blank = w.v.bottom_blank /\ x.v.ok = w.v.ok
  BY <1>13, <1>14 DEF WinType, SameButView
<1>. QED  BY <1>13, <1>15 DEF x

\* A message written to an empty window, or to one whose bot is the newest message,
\* which swindow_add takes for a window at its end.
Written(w, len) ==
    LET new  == [w EXCEPT !.buf = Append(@, len),
                          !.v.top = IF Newest(w) = 0 THEN 1 ELSE @]
        last == [new EXCEPT !.v.bot = Newest(new)]
        h    == LinesOf(new, Newest(new))
    IN  IF h <= w.v.bottom_blank THEN [last EXCEPT !.v.bottom_blank = @ - h]
        ELSE AdjustTop([last EXCEPT !.v.bottom_blank = 0], h - w.v.bottom_blank)

LEMMA WrittenGood ==
    ASSUME MessagesFit, NEW w \in WinType, NEW len \in TextLens,
           Empty(w) \/ (Good(w) /\ w.v.bot = Newest(w)),
           Cleared(w) => Height(len, w.cols, w.wrap) = 1
    PROVE  /\ Written(w, len) \in WinType /\ SameFrame(Written(w, len), w)
           /\ Written(w, len).v.ok = w.v.ok /\ Newest(Written(w, len)) = Newest(w) + 1
           /\ Good(Written(w, len)) /\ Written(w, len).v.bot = Newest(Written(w, len))
           /\ Written(w, len).v.bottom_hidden = w.v.bottom_hidden
           /\ Cleared(Written(w, len)) => Cleared(w)
<1> DEFINE N == Newest(w)
           u == LinesUpTo(w)
           blank == w.v.bottom_blank
           R == w.rows
           h == w.v.top_hidden
           t == IF N = 0 THEN 1 ELSE w.v.top
           new == [w EXCEPT !.buf = Append(@, len), !.v.top = IF Newest(w) = 0 THEN 1 ELSE @]
           last == [new EXCEPT !.v.bot = Newest(new)]
           H == LinesOf(new, Newest(new))
           s == Written(w, len)
           g == w.v.bottom_hidden
           A == u[t - 1] + h
<1>1. N \in Nat /\ w.buf \in Seq(TextLens) /\ N = Len(w.buf) /\ R \in Nat \ {0} /\ blank \in Nat
      /\ g \in Nat
  BY Layout DEF WinType, Newest
<1>2. /\ new \in WinType /\ new.buf = Append(w.buf, len) /\ SameFrame(new, w)
      /\ new.v.top = t /\ new.v.top_hidden = h /\ new.v.bot = w.v.bot
      /\ new.v.bottom_hidden = g /\ new.v.bottom_blank = blank
      /\ new.v.ok = w.v.ok
  <2>1. Append(w.buf, len) \in Seq(TextLens)
    BY <1>1
  <2>2. t \in Nat
    BY DEF WinType
  <2>. QED  BY <2>1, <2>2 DEF WinType, SameFrame
<1>. HIDE DEF new
<1>3. /\ Newest(new) = N + 1
      /\ \A k \in 1 .. N : LinesOf(new, k) = LinesOf(w, k)
      /\ \A k \in 0 .. N : LinesUpTo(new)[k] = u[k]
  BY <1>2, Grown DEF SameFrame
<1>4. /\ H \in 1 .. R /\ LinesUpTo(new)[N + 1] = u[N] + H /\ u[N] \in Nat
  <2>1. N + 1 \in 1 .. N + 1 /\ N \in 0 .. N /\ (N + 1) - 1 = N
    <3>. HIDE DEF N
    <3>. QED  BY <1>1
  <2>2. LinesUpTo(new)[N + 1] = LinesUpTo(new)[N] + LinesOf(new, N + 1)
    BY <1>2, <1>3, <2>1, Layout
  <2>3. LinesOf(new, N + 1) \in 1 .. R
    BY <1>2, <1>3, <2>1, Layout DEF SameFrame
  <2>4. u[N] \in Nat
    BY <2>1, Layout
  <2>. QED  BY <1>3, <2>1, <2>2, <2>3, <2>4
<1>11. H = Height(len, w.cols, w.wrap)
  <2>1. Append(w.buf, len)[Len(w.buf) + 1] = len
    BY <1>1
  <2>. QED  BY <2>1, <1>1, <1>2, <1>3 DEF LinesOf, SameFrame
<1>12. ASSUME OneLines(w), H = 1 PROVE OneLines(new)
  <2>1. \A k \in 1 .. N + 1 : k \in 1 .. N \/ k = N + 1
    <3>. HIDE DEF N
    <3>. QED  BY <1>1
  <2>. QED  BY <2>1, <1>3, <1>12 DEF OneLines
<1>. HIDE DEF H
\* The screen before.
<1>5. /\ t \in 1 .. N + 1 /\ h \in 0 .. LinesOf(new, t) /\ LinesOf(new, t) \in 1 .. R
      /\ h = LinesOf(new, t) /\ blank > 0 => OneLines(new) /\ g = 0
      /\ A \in Nat /\ LinesUpTo(new)[t - 1] + h = A /\ u[N] - g = A + R - blank /\ blank <= R
      /\ blank > 0 => (A = 0 \/ OneLines(new)) /\ g = 0
      /\ blank > 0 /\ A # 0 => Cleared(w)
      /\ w.v.bot = N
  <2>1. CASE Empty(w)
    <3>1. N = 0 /\ h = 0 /\ blank = R /\ w.v.bot = 0 /\ g = 0
      BY <2>1, <1>1 DEF Empty
    <3>2. t = 1 /\ t - 1 = 0
      BY <3>1
    <3>3. u[0] = 0 /\ LinesUpTo(new)[0] = 0
      BY <1>2, Layout
    <3>4. LinesOf(new, 1) \in 1 .. R
      BY <1>2, <1>3, <3>1, Layout DEF SameFrame
    <3>. HIDE DEF N, u, R, h, blank, t, g
    <3>5. A = 0
      BY <3>1, <3>2, <3>3
    <3>6. /\ t \in 1 .. N + 1 /\ h \in 0 .. LinesOf(new, t) /\ LinesOf(new, t) \in 1 .. R
          /\ h # LinesOf(new, t)
      BY <3>1, <3>2, <3>4, <1>1
    <3>7. LinesUpTo(new)[t - 1] + h = A /\ u[N] - g = A + R - blank /\ blank <= R
      BY <3>1, <3>2, <3>3, <3>5, <1>1
    <3>. HIDE DEF A
    <3>. QED  BY <3>1, <3>5, <3>6, <3>7
  <2>2. CASE Good(w) /\ w.v.bot = N
    <3>1. N # 0 /\ w.v.top \in 1 .. N /\ h \in 0 .. LinesOf(w, w.v.top)
      <4>1. w.v.top \in 1 .. N /\ h \in 0 .. LinesOf(w, w.v.top)
        BY <2>2 DEF Good, Placed
      <4>. HIDE DEF N
      <4>. QED  BY <1>1, <4>1
    <3>2. t = w.v.top /\ t - 1 \in 0 .. N /\ t \in 1 .. N + 1
      <4>1. t = w.v.top
        BY <3>1
      <4>. HIDE DEF N, t
      <4>. QED  BY <1>1, <3>1, <4>1
    <3>3. LinesOf(new, t) = LinesOf(w, t) /\ LinesUpTo(new)[t - 1] = u[t - 1]
      BY <1>3, <3>1, <3>2
    <3>4. /\ A = Above(w) /\ A \in Nat /\ u[N] - g = A + R - blank /\ blank <= R
      <4>1. /\ Above(w) = u[w.v.top - 1] + h /\ Above(w) \in Nat
            /\ DownTo(w) = u[N] - g /\ DownTo(w) = Above(w) + R - blank
        BY <2>2, Screen DEF Good
      <4>2. blank \in 0 .. R
        BY <2>2 DEF Good, Shown
      <4>3. A = Above(w)
        BY <3>2, <4>1
      <4>. HIDE DEF A, blank, R, u, N, g
      <4>. QED  BY <1>1, <4>1, <4>2, <4>3
    <3>8. blank > 0 /\ A # 0 => Cleared(w)
      BY <3>4 DEF Cleared
    <3>9. blank > 0 => (A = 0 \/ OneLines(w)) /\ g = 0
      BY <2>2, <3>4 DEF Good, Shown, AtEnd
    <3>10. h = LinesOf(new, t) => A # 0
      <4>1. LinesOf(w, t) \in 1 .. R /\ u[t - 1] \in Nat
        BY <3>1, <3>2, Layout
      <4>. HIDE DEF t, h, u, R
      <4>. QED  BY <1>1, <3>3, <4>1
    <3>5. /\ h = LinesOf(new, t) /\ blank > 0 => OneLines(new) /\ g = 0
          /\ blank > 0 => (A = 0 \/ OneLines(new)) /\ g = 0
      <4>. HIDE DEF A, blank, t, h, g
      <4>. QED  BY <3>8, <3>9, <3>10, <1>11, <1>12
    <3>6. w.v.bot = N
      BY <2>2
    <3>7. LinesOf(w, t) \in 1 .. R
      BY <3>1, <3>2, Layout
    <3>. QED  BY <3>1, <3>2, <3>3, <3>4, <3>5, <3>6, <3>7, <3>8
  <2>. QED  BY <2>1, <2>2
<1>. HIDE DEF t, A, N, u, R, h, blank, g
<1> DEFINE U == u[N]
<1>10. /\ A \in Nat /\ blank \in Nat /\ R \in Nat /\ g \in Nat /\ H \in Nat /\ U \in Nat
       /\ U - g = A + R - blank /\ blank <= R /\ 0 < R /\ 0 < H
  BY <1>1, <1>4, <1>5
<1>. HIDE DEF U
<1>6. ASSUME NEW y \in WinType, SameButView(y, new)
      PROVE  /\ SameFrame(y, w) /\ Newest(y) = N + 1 /\ (OneLines(y) <=> OneLines(new))
             /\ \A k \in 1 .. N + 1 : LinesOf(y, k) = LinesOf(new, k)
             /\ \A k \in 0 .. N + 1 : LinesUpTo(y)[k] = LinesUpTo(new)[k]
  <2>1. SameFrame(y, w)
    BY <1>2, <1>6 DEF SameButView, SameFrame
  <2>. QED  BY SMTT(30), <1>2, <1>3, <1>6, <2>1, SameBuffer DEF SameButView
\* Any screen whose bot is the new message, and whose rows add up.
<1>7. ASSUME NEW y \in WinType, SameButView(y, new), y.v.top \in 1 .. N + 1,
             y.v.top_hidden \in 0 .. LinesOf(new, y.v.top),
             y.v.top_hidden = LinesOf(new, y.v.top) => OneLines(new) /\ g = 0,
             y.v.bot = N + 1, y.v.bottom_hidden = g, y.v.bottom_blank \in 0 .. R,
             NEW a \in Nat, LinesUpTo(new)[y.v.top - 1] + y.v.top_hidden = a,
             ((u[N] + H) - g) - a + y.v.bottom_blank = R,
             y.v.bottom_blank > 0 => (a = 0 \/ OneLines(new)) /\ g = 0
      PROVE  Good(y) /\ y.v.bot = Newest(y) /\ Above(y) = a
  <2>1. /\ Newest(y) = N + 1 /\ LinesOf(y, y.v.top) = LinesOf(new, y.v.top)
        /\ LinesOf(y, N + 1) \in 1 .. R /\ N + 1 \in 1 .. N + 1
        /\ (OneLines(y) <=> OneLines(new))
    <3>1. N + 1 \in 1 .. N + 1 /\ LinesOf(new, N + 1) \in 1 .. R
      BY <1>1, <1>3, <1>4 DEF H
    <3>. QED  BY <1>6, <1>7, <3>1
  <2>2. Above(y) = a /\ DownTo(y) = (u[N] + H) - g
    <3>1. y.v.top - 1 \in 0 .. N + 1 /\ N + 1 \in 0 .. N + 1
      BY <1>1, <1>7
    <3>2. /\ LinesUpTo(y)[y.v.top - 1] = LinesUpTo(new)[y.v.top - 1]
          /\ LinesUpTo(y)[N + 1] = LinesUpTo(new)[N + 1]
      BY <1>6, <1>7, <3>1
    <3>3. Above(y) = LinesUpTo(y)[y.v.top - 1] + y.v.top_hidden
      BY <1>7, <2>1, Marks
    <3>4. DownTo(y) = LinesUpTo(y)[N + 1] - g
      BY <1>7, <2>1, Marks
    <3>. QED  BY <1>4, <1>7, <3>2, <3>3, <3>4
  <2>3. y.v.bot = Newest(y) /\ (g = 0 => AtEnd(y))
    BY <1>7, <2>1 DEF AtEnd
  <2>4. Placed(y)
    BY <1>7, <2>1 DEF Placed
  <2>5. y.rows = R
    BY <1>2, <1>7 DEF SameButView, SameFrame, R
  <2>7. Shown(y)
    <3>1. DownTo(y) - Above(y) + y.v.bottom_blank = y.rows
      <4>1. ((u[N] + H) - g) - a + y.v.bottom_blank = R
        BY <1>7
      <4>2. DownTo(y) - Above(y) = ((u[N] + H) - g) - a
        BY <2>2
      <4>. QED  BY <2>5, <4>1, <4>2
    <3>2. y.v.bot \in 1 .. Newest(y) /\ y.v.bottom_hidden \in Nat
      BY <1>1, <1>7, <2>1
    <3>. QED  BY <1>7, <2>3, <2>5, <3>1, <3>2 DEF Shown
  <2>. QED  BY <1>7, <2>1, <2>2, <2>3, <2>4, <2>7 DEF Good
<1>8. CASE H <= blank
  <2> DEFINE y == [last EXCEPT !.v.bottom_blank = @ - H]
  <2>1. s = y
    BY <1>8 DEF Written, H, new, blank
  <2>2. blank - H \in Nat /\ blank - H \in 0 .. R /\ N + 1 \in Nat
    <3>1. blank - H \in Nat /\ blank - H <= R
      BY <1>8, <1>10
    <3>. QED  BY <1>1, <1>10, <3>1
  <2>3. /\ y \in WinType /\ SameButView(y, new) /\ y.v.ok = w.v.ok
        /\ y.v.top = t /\ y.v.top_hidden = h /\ y.v.bot = N + 1 /\ y.v.bottom_hidden = g
        /\ y.v.bottom_blank = blank - H
    BY <1>2, <1>3, <1>5, <2>2 DEF WinType, SameButView
  <2>. HIDE DEF y
  <2>4. /\ ((u[N] + H) - g) - A + (blank - H) = R
        /\ blank - H > 0 => (A = 0 \/ OneLines(new)) /\ g = 0
        /\ h = LinesOf(new, t) => OneLines(new) /\ g = 0
        /\ blank - H > 0 /\ A # 0 => Cleared(w)
    <3>1. ((U + H) - g) - A + (blank - H) = R
      BY <1>10
    <3>2. blank > 0
      BY <1>8, <1>10
    <3>. QED  BY <3>1, <3>2, <1>5 DEF U
  <2>5. Good(y) /\ y.v.bot = Newest(y) /\ Above(y) = A
    BY <1>5, <1>7, <2>2, <2>3, <2>4
  <2>6. Cleared(y) => Cleared(w)
    BY <2>3, <2>4, <2>5 DEF Cleared
  <2>. QED  BY <1>6, <2>1, <2>3, <2>5, <2>6 DEF N, g
<1>9. CASE ~(H <= blank)
  <2> DEFINE z == [last EXCEPT !.v.bottom_blank = 0]
             y == AdjustTop(z, H - blank)
  <2>1. s = y
    BY <1>9 DEF Written, H, new, blank
  <2>2. H - blank \in Nat \ {0} /\ N + 1 \in Nat
    BY <1>1, <1>4, <1>9
  <2>3. /\ z \in WinType /\ SameButView(z, new) /\ z.v.ok = w.v.ok
        /\ z.v.top = t /\ z.v.top_hidden = h /\ z.v.bot = N + 1 /\ z.v.bottom_hidden = g
        /\ z.v.bottom_blank = 0
    BY <1>2, <1>3, <1>5, <2>2 DEF WinType, SameButView
  <2>. HIDE DEF z
  <2>4. /\ Newest(z) = N + 1 /\ (\A k \in 1 .. N + 1 : LinesOf(z, k) = LinesOf(new, k))
        /\ \A k \in 0 .. N + 1 : LinesUpTo(z)[k] = LinesUpTo(new)[k]
    BY <1>6, <2>3
  <2>5. Placed(z)
    BY <1>5, <2>3, <2>4 DEF Placed
  <2>6. /\ LinesUpTo(z)[t - 1] = LinesUpTo(new)[t - 1]
        /\ LinesUpTo(z)[N + 1] = u[N] + H
    <3>1. t - 1 \in 0 .. N + 1 /\ N + 1 \in 0 .. N + 1
      BY <1>1, <1>5
    <3>. QED  BY <1>4, <2>4, <3>1
  <2>7. LinesUpTo(z)[t - 1] + h + (H - blank) = A + (H - blank) /\ A + (H - blank) < u[N] + H
    <3>1. A + (H - blank) < U + H
      BY <1>10
    <3>2. LinesUpTo(z)[t - 1] + h = A
      BY <1>5, <2>6
    <3>. QED  BY <3>1, <3>2 DEF U
  <2>8. /\ y \in WinType /\ SameButView(y, z)
        /\ y.v.top \in 1 .. N + 1 /\ y.v.top_hidden \in 0 .. LinesOf(z, y.v.top) - 1
        /\ LinesUpTo(z)[y.v.top - 1] + y.v.top_hidden = A + (H - blank)
        /\ y.v.bot = z.v.bot /\ y.v.bottom_hidden = z.v.bottom_hidden
        /\ y.v.bottom_blank = z.v.bottom_blank /\ y.v.ok = z.v.ok
    BY <2>2, <2>3, <2>4, <2>5, <2>6, <2>7, AdjustGood
  <2>. HIDE DEF y
  <2>9. SameButView(y, new)
    BY <2>3, <2>8 DEF SameButView
  <2>10. y.v.top_hidden \in 0 .. LinesOf(new, y.v.top) /\ y.v.top_hidden # LinesOf(new, y.v.top)
    <3>1. LinesOf(z, y.v.top) = LinesOf(new, y.v.top) /\ LinesOf(new, y.v.top) \in Nat
      BY <1>2, <1>3, <2>4, <2>8, Layout
    <3>. QED  BY <2>8, <3>1
  <2>11. LinesUpTo(new)[y.v.top - 1] + y.v.top_hidden = A + (H - blank)
    <3>1. y.v.top - 1 \in 0 .. N + 1
      BY <1>1, <2>8
    <3>. QED  BY <2>4, <2>8, <3>1
  <2>12. A + (H - blank) \in Nat /\ ((u[N] + H) - g) - (A + (H - blank)) + 0 = R /\ 0 \in 0 .. R
    <3>1. ((U + H) - g) - (A + (H - blank)) + 0 = R
      BY <1>10
    <3>2. A + (H - blank) \in Nat /\ 0 \in 0 .. R
      BY <1>10, <2>2
    <3>. QED  BY <3>1, <3>2 DEF U
  <2>13. Good(y) /\ y.v.bot = Newest(y)
    <3>1. y.v.bot = N + 1 /\ y.v.bottom_hidden = g /\ y.v.bottom_blank = 0
      BY <2>3, <2>8
    <3>. QED  BY <1>7, <2>8, <2>9, <2>10, <2>11, <2>12, <3>1
  <2>14. ~Cleared(y)
    BY <2>3, <2>8 DEF Cleared
  <2>. QED  BY <1>6, <2>1, <2>3, <2>8, <2>9, <2>13, <2>14 DEF N, g
<1>. QED  BY <1>8, <1>9

\* swindow_add, after its scroll: the window goes on showing its end, in a buffer
\* that stays bounded, or what it shows stays.
LEMMA AppendGood ==
    ASSUME MessagesFit, NEW w \in WinType, w.v.ok, w.max >= w.rows, NEW len \in TextLens,
           Empty(w) \/ Good(w), Cleared(w) => Height(len, w.cols, w.wrap) = 1,
           NEW x, x = AppendMessage(w, len)
    PROVE  /\ x \in WinType /\ SameFrame(x, w) /\ x.v.ok /\ Good(x)
           /\ AtEnd(w) => AtEnd(x) /\ Bounded(x)
           /\ ~AtEnd(w) => Below(x) >= Below(w)
           /\ Cleared(x) => Cleared(w)
<1> DEFINE N == Newest(w)
           s == Written(w, len)
           new == [w EXCEPT !.buf = Append(@, len), !.v.top = IF Newest(w) = 0 THEN 1 ELSE @]
<1>1. CASE w.v.bot = N
  <2>1. x = IF Newest(s) > s.max /\ s.v.ok THEN Prune(s) ELSE s
    BY <1>1 DEF AppendMessage, Written
  <2>2. /\ s \in WinType /\ SameFrame(s, w) /\ s.v.ok /\ Good(s) /\ s.v.bot = Newest(s)
        /\ s.v.bottom_hidden = w.v.bottom_hidden /\ (Cleared(s) => Cleared(w))
    BY <1>1, WrittenGood, WinFacts
  <2>. HIDE DEF s
  <2>3. s.max >= s.rows
    BY <2>2 DEF SameFrame
  \* What is common to a buffer that is pruned and one that is not.
  <2>4. ASSUME x \in WinType, Good(x), x.v.bot = Newest(x), x.v.bottom_hidden = w.v.bottom_hidden
        PROVE  /\ AtEnd(w) => AtEnd(x)
               /\ ~AtEnd(w) => Below(x) >= Below(w)
    <3>1. AtEnd(w) => AtEnd(x)
      BY <2>4 DEF AtEnd
    <3>2. ASSUME ~AtEnd(w) PROVE Below(x) >= Below(w)
      <4>1. Good(w)
        BY <3>2 DEF Empty, AtEnd, Newest
      <4>2. Below(w) = w.v.bottom_hidden /\ Below(x) = w.v.bottom_hidden /\ Below(w) \in Nat
        BY <1>1, <2>4, <4>1, BelowIs
      <4>. QED  BY <4>2
    <3>. QED  BY <3>1, <3>2
  <2>. HIDE DEF N
  <2>5. CASE Newest(s) > s.max
    <3>1. x = Prune(s)
      BY <2>1, <2>2, <2>5
    <3>2. /\ x \in WinType /\ SameFrame(x, s) /\ x.v.ok /\ Good(x) /\ x.v.bot = Newest(x)
          /\ x.v.bottom_hidden = w.v.bottom_hidden /\ (AtEnd(s) => Bounded(x))
          /\ (Cleared(x) => Cleared(s))
      BY <2>2, <2>3, <3>1, PruneGood
    <3>3. SameFrame(x, w)
      BY <2>2, <3>2 DEF SameFrame
    <3>4. AtEnd(w) => AtEnd(s)
      BY <2>2 DEF AtEnd
    <3>. QED  BY <2>2, <2>4, <3>2, <3>3, <3>4
  <2>6. CASE ~(Newest(s) > s.max)
    <3>1. x = s
      BY <2>1, <2>6
    <3>2. Newest(s) \in Nat /\ s.max \in Nat
      BY <2>2, WinFacts DEF WinType
    <3>3. Bounded(s)
      BY <2>6, <3>2 DEF Bounded
    <3>. QED  BY <2>2, <2>4, <3>1, <3>3
  <2>. QED  BY <2>5, <2>6
<1>2. CASE w.v.bot # N
  <2>1. x = new
    BY <1>2 DEF AppendMessage
  <2>2. Good(w) /\ ~AtEnd(w)
    BY <1>2 DEF Empty, Newest, AtEnd
  <2>3. N \in Nat /\ w.buf \in Seq(TextLens) /\ w.v.top \in 1 .. N
    BY <2>2, WinFacts DEF WinType, Good, Placed
  <2>4. N # 0
    <3>. HIDE DEF N
    <3>. QED  BY <2>3
  <2>5. /\ x \in WinType /\ SameFrame(x, w) /\ x.buf = Append(w.buf, len) /\ x.v = w.v
    <3>1. Append(w.buf, len) \in Seq(TextLens)
      BY <2>3
    <3>. QED  BY ZenonT(60), <2>1, <2>4, <3>1 DEF WinType, SameFrame
  <2>6. /\ Newest(x) = N + 1
        /\ \A k \in 1 .. N : LinesOf(x, k) = LinesOf(w, k)
        /\ \A k \in 0 .. N : LinesUpTo(x)[k] = LinesUpTo(w)[k]
    BY <2>5, Grown DEF SameFrame
  <2>7. /\ w.v.top \in 1 .. N /\ w.v.top_hidden \in 0 .. LinesOf(w, w.v.top)
        /\ w.v.bot \in 1 .. N /\ w.v.bottom_hidden \in Nat
        /\ w.v.bottom_blank \in 0 .. w.rows /\ ~(w.v.bottom_blank > 0)
        /\ w.v.top_hidden # LinesOf(w, w.v.top)
        /\ DownTo(w) - Above(w) + w.v.bottom_blank = w.rows
    BY <1>2, <2>2 DEF Good, Placed, Shown
  <2>8. /\ w.v.top \in 1 .. N + 1 /\ w.v.bot \in 1 .. N + 1 /\ w.v.bot # N + 1
        /\ w.v.top - 1 \in 0 .. N /\ w.v.bot \in 0 .. N
    <3>. HIDE DEF N
    <3>. QED  BY <2>3, <2>7
  <2>9. Above(x) = Above(w) /\ DownTo(x) = DownTo(w)
    <3>1. /\ Above(w) = LinesUpTo(w)[w.v.top - 1] + w.v.top_hidden
          /\ DownTo(w) = LinesUpTo(w)[w.v.bot] - w.v.bottom_hidden
      BY <2>7, Marks
    <3>2. /\ Above(x) = LinesUpTo(x)[x.v.top - 1] + x.v.top_hidden
          /\ DownTo(x) = LinesUpTo(x)[x.v.bot] - x.v.bottom_hidden
      BY <2>5, <2>6, <2>8, Marks
    <3>. QED  BY <2>5, <2>6, <2>8, <3>1, <3>2
  <2>. HIDE DEF N, new
  <2>10. ~AtEnd(x)
    BY <2>5, <2>6, <2>8 DEF AtEnd
  <2>11. Placed(x)
    BY <2>5, <2>6, <2>7, <2>8 DEF Placed
  <2>12. Shown(x)
    BY <2>5, <2>6, <2>7, <2>8, <2>9 DEF Shown, SameFrame
  <2>13. Good(x)
    BY <2>5, <2>6, <2>7, <2>11, <2>12 DEF Good
  <2>14. Below(x) >= Below(w)
    <3> DEFINE H == LinesOf(x, N + 1)
               T == LinesUpTo(w)[N]
               D == DownTo(w)
    <3>1. N + 1 \in 1 .. N + 1 /\ N \in 0 .. N /\ (N + 1) - 1 = N
      BY <2>3
    <3>2. LinesUpTo(x)[N + 1] = LinesUpTo(x)[N] + H /\ H \in 1 .. x.rows /\ x.rows \in Nat
      BY <2>5, <2>6, <3>1, Layout
    <3>3. Below(x) = (T + H) - D /\ Below(w) = T - D
      BY <2>2, <2>5, <2>6, <2>9, <2>13, <3>1, <3>2, BelowIs DEF N
    <3>4. T \in Nat /\ D \in Nat
      BY <2>2, <3>1, Layout, Screen DEF Good, N
    <3>. HIDE DEF T, H, D
    <3>. QED  BY <3>2, <3>3, <3>4
  <2>15. ~Cleared(x)
    BY <2>5, <2>7 DEF Cleared
  <2>. QED  BY <2>2, <2>5, <2>13, <2>14, <2>15
<1>. QED  BY <1>1, <1>2

\* What a message added to the window w may not change in the window x.
Kept(w, x, follow) ==
    /\ AtEnd(w) => AtEnd(x)
    /\ AtEnd(w) \/ follow => Bounded(x)
    /\ ~AtEnd(w) /\ ~follow => Below(x) >= Below(w)

\* swindow_add: as before, after a scroll to the end if the output is followed.
LEMMA AddGood ==
    ASSUME MessagesFit, NEW w \in WinType, w.v.ok, w.max >= w.rows, NEW len \in TextLens,
           Empty(w) \/ Good(w), Cleared(w) => Height(len, w.cols, w.wrap) = 1,
           NEW follow \in BOOLEAN,
           NEW x, x = Add(w, len, follow)
    PROVE  /\ x \in WinType /\ SameFrame(x, w) /\ x.v.ok /\ Good(x) /\ Kept(w, x, follow)
           /\ Cleared(x) => Cleared(w)
<1>1. Empty(w) => AtEnd(w)
  BY DEF Empty, AtEnd, Newest
<1>2. CASE ~AtEnd(w) /\ follow
  <2> DEFINE e == ScrollToEnd(w)
  <2>1. x = AppendMessage(e, len)
    BY <1>2 DEF Add
  <2>2. e \in WinType /\ SameButView(e, w) /\ e.v.ok /\ Good(e) /\ AtEnd(e) /\ ~Cleared(e)
    BY <1>1, <1>2, EndGood
  <2>. HIDE DEF e
  <2>3. e.max >= e.rows
    BY <2>2 DEF SameButView
  <2>4. /\ x \in WinType /\ SameFrame(x, e) /\ x.v.ok /\ Good(x) /\ AtEnd(x) /\ Bounded(x)
        /\ ~Cleared(x)
    BY <2>1, <2>2, <2>3, AppendGood
  <2>. QED  BY <1>2, <2>2, <2>4 DEF Kept, SameFrame, SameButView
<1>3. CASE ~(~AtEnd(w) /\ follow)
  <2>1. x = AppendMessage(w, len)
    BY <1>3 DEF Add
  <2>2. /\ x \in WinType /\ SameFrame(x, w) /\ x.v.ok /\ Good(x)
        /\ AtEnd(w) => AtEnd(x) /\ Bounded(x)
        /\ ~AtEnd(w) => Below(x) >= Below(w)
        /\ Cleared(x) => Cleared(w)
    BY <2>1, AppendGood
  <2>. QED  BY <1>3, <2>2 DEF Kept
<1>. QED  BY <1>2, <1>3

\* A window that is not empty has a Good screen when its top is a place in it and
\* it is moved to the start and to the end.
LEMMA StartEndGood ==
    ASSUME MessagesFit, NEW w \in WinType, Newest(w) # 0,
           w.v.top = 1 /\ w.v.top_hidden = 0 => Good(w),
           NEW x, x = ScrollToEnd(ScrollToStart(w))
    PROVE  x \in WinType /\ SameButView(x, w) /\ x.v.ok = w.v.ok /\ Good(x)
<1> DEFINE s == ScrollToStart(w)
<1>1. s \in WinType /\ SameButView(s, w) /\ s.v.ok = w.v.ok /\ Good(s)
  BY StartGood
<1>2. x = ScrollToEnd(s)
  OBVIOUS
<1>. HIDE DEF s
<1>3. x \in WinType /\ SameButView(x, s) /\ x.v.ok = s.v.ok /\ Good(x)
  BY <1>1, <1>2, EndGood
<1>. QED  BY <1>1, <1>3 DEF SameButView

\* swindow_redraw never moves the top, wherever in the message at the top it is.
LEMMA RedrawLeavesTop ==
    ASSUME MessagesFit, NEW w \in WinType, w.v.top \in 1 .. Newest(w), NEW x, x = Redraw(w)
    PROVE  /\ x \in WinType /\ SameButView(x, w) /\ x.v.ok = w.v.ok
           /\ x.v.top = w.v.top /\ x.v.top_hidden = w.v.top_hidden
<1> DEFINE N == Newest(w)
           Ln(i, j) == Lines(w, i, j)
           t == w.v.top
           h == w.v.top_hidden
           R == w.rows
           first == IF h = 0 THEN 0 ELSE (LinesOf(w, t) - h) % Word
           from == IF h = 0 THEN t ELSE t + 1
           cum(k) == first + Ln(from, k)
           ends  == {k \in from .. N : cum(k) >= R}
           last  == IF ends = {} THEN N ELSE CHOOSE k \in ends : \A j \in ends : k <= j
           bh == Larger(0, cum(last) - R)
           bl == Larger(0, R - cum(last))
           x1 == [w EXCEPT !.v.bot = t, !.v.bottom_hidden = first - R, !.v.bottom_blank = 0]
           x2 == [w EXCEPT !.v.bot = last, !.v.bottom_hidden = bh, !.v.bottom_blank = bl]
<1>1. /\ N \in Nat /\ R \in Nat \ {0} /\ Word \in Nat \ {0} /\ LinesOf(w, t) \in Nat
      /\ \A k \in 0 .. N : LinesUpTo(w)[k] \in Nat
      /\ \A i \in 1 .. N + 1, j \in 0 .. N :
            i <= j + 1 => Ln(i, j) = LinesUpTo(w)[j] - LinesUpTo(w)[i - 1]
  BY Layout
<1>2. t \in 1 .. N /\ h \in Nat
  BY DEF WinType
\* Only the bottom of the screen is assigned.
<1> DEFINE Goal == /\ x \in WinType /\ SameButView(x, w) /\ x.v.ok = w.v.ok
                   /\ x.v.top = w.v.top /\ x.v.top_hidden = w.v.top_hidden
<1>3. ASSUME NEW b \in Nat, NEW g \in Nat, NEW c \in Nat,
             x = [w EXCEPT !.v.bot = b, !.v.bottom_hidden = g, !.v.bottom_blank = c]
      PROVE  Goal
  <2> DEFINE y == [w EXCEPT !.v.bot = b, !.v.bottom_hidden = g, !.v.bottom_blank = c]
  <2>1. /\ y \in WinType /\ SameButView(y, w) /\ y.v.ok = w.v.ok
        /\ y.v.top = w.v.top /\ y.v.top_hidden = w.v.top_hidden
    BY DEF WinType, SameButView
  <2>2. x = y
    BY <1>3
  <2>. HIDE DEF y
  <2>. QED  BY <2>1, <2>2
<1>4. /\ t # 0
      /\ \/ x = w \/ (first > R /\ x = x1) \/ (from <= N /\ x = x2)
  <2>1. t # 0
    BY <1>1, <1>2
  <2>2. x = CASE t = 0 -> w
              [] t # 0 /\ first > R -> x1
              [] t # 0 /\ first < R /\ from <= N -> x2
              [] OTHER -> w
    <3>1. x1 = [w EXCEPT !.v.bot = t, !.v.bottom_blank = 0, !.v.bottom_hidden = first - R]
      BY ZenonT(60) DEF WinType
    <3>. QED  BY <3>1 DEF Redraw
  <2>. HIDE DEF N, Ln, R, t, h, first, from, last, x1, x2
  <2>3. CASE first > R
    BY <2>1, <2>2, <2>3, <1>1
  <2>4. CASE ~(first > R) /\ first < R /\ from <= N
    BY <2>1, <2>2, <2>4
  <2>5. CASE ~(first > R) /\ ~(first < R /\ from <= N)
    BY <2>1, <2>2, <2>5
  <2>. QED  BY <2>1, <2>3, <2>4, <2>5
<1>. HIDE DEF N, Ln, R, t, h
<1>5. first \in Nat /\ from \in 1 .. N + 1
  BY <1>1, <1>2
<1>. HIDE DEF first
<1>6. CASE x = w
  BY <1>6 DEF SameButView
<1>7. CASE first > R /\ x = x1
  <2>1. first - R \in Nat /\ t \in Nat
    BY <1>1, <1>2, <1>5, <1>7
  <2>. HIDE DEF Goal
  <2>2. Goal
    BY <1>7, <1>3, <2>1
  <2>. QED  BY <2>2 DEF Goal
<1>8. CASE from <= N /\ x = x2
  <2>1. last \in from .. N
    <3>1. CASE ends = {}
      <4>1. N \in from .. N
        BY <1>1, <1>5, <1>8
      <4>. HIDE DEF ends, from
      <4>. QED  BY <3>1, <4>1
    <3>2. CASE ends # {}
      <4>1. ends \in SUBSET Nat /\ ends \in SUBSET (from .. N)
        BY <1>5
      <4>. HIDE DEF ends, from
      <4>2. \E k \in ends : \A j \in ends : k <= j
        BY <3>2, <4>1, LeastNumber
      <4>3. last = CHOOSE k \in ends : \A j \in ends : k <= j
        BY <3>2
      <4>4. last \in ends
        <5>. HIDE DEF last
        <5>. QED  BY <4>2, <4>3
      <4>. QED  BY <4>1, <4>4
    <3>. QED  BY <3>1, <3>2
  <2>. HIDE DEF last
  <2>2. Ln(from, last) \in Int
    <3>. HIDE DEF from
    <3>1. last \in 0 .. N /\ from <= last + 1 /\ from - 1 \in 0 .. N
      BY <1>1, <1>5, <2>1
    <3>. QED  BY <1>1, <1>5, <3>1
  <2>3. bh \in Nat /\ bl \in Nat /\ last \in Nat
    <3>. HIDE DEF from
    <3>. QED  BY <1>1, <1>5, <2>1, <2>2 DEF Larger
  <2>. HIDE DEF bh, bl
  <2>. HIDE DEF Goal, last
  <2>4. Goal
    BY <1>8, <1>3, <2>3
  <2>. QED  BY <2>4 DEF Goal
<1>. QED  BY <1>4, <1>6, <1>7, <1>8

\* swindow_recalculate changes at most where in its first message the screen starts.
LEMMA RecalculateLeaves ==
    ASSUME NEW w \in WinType, NEW old \in WinType, w.v.top # 0
    PROVE  /\ Recalculate(w, old) \in WinType /\ SameButView(Recalculate(w, old), w)
           /\ Recalculate(w, old).v.ok = w.v.ok /\ Recalculate(w, old).v.top = w.v.top
<1> DEFINE y == Recalculate(w, old)
           h == (old.cols * w.v.top_hidden) \div w.cols
           z == [w EXCEPT !.v.top_hidden = h]
<1>1. y = w \/ y = z
  BY DEF Recalculate
<1>2. h \in Nat
  <2>1. old.cols \in Nat \ {0} /\ w.cols \in Nat \ {0} /\ w.v.top_hidden \in Nat
    BY SwindowAssumption DEF WinType
  <2>2. old.cols * w.v.top_hidden \in Nat
    BY <2>1
  <2>. QED  BY <2>1, <2>2
<1>. HIDE DEF h
<1>3. /\ z \in WinType /\ SameButView(z, w) /\ z.v.ok = w.v.ok /\ z.v.top = w.v.top
  BY <1>2 DEF WinType, SameButView
<1>. HIDE DEF y, z
<1>4. y \in WinType /\ SameButView(y, w) /\ y.v.ok = w.v.ok /\ y.v.top = w.v.top
  BY <1>1, <1>3 DEF SameButView
<1>. QED  BY <1>4 DEF y

\* imwindow_resize: at a new size the window shows its end.
LEMMA ResizeGood ==
    ASSUME MessagesFit, NEW old \in WinType, Empty(old) \/ Good(old),
           NEW w \in WinType, w.buf = old.buf, w.v = old.v,
           NEW x, x = ScrollToEnd(ScrollToStart(Redraw(Recalculate(w, old))))
    PROVE  x \in WinType /\ SameButView(x, w) /\ x.v.ok = w.v.ok /\ (Empty(x) \/ Good(x))
<1>1. CASE Empty(old)
  <2> DEFINE y == [w EXCEPT !.v.bottom_blank = w.rows]
  <2>1. /\ w.buf = <<>> /\ w.v.top = 0 /\ w.v.bot = 0 /\ w.rows \in Nat
        /\ w.v.top_hidden = 0 /\ w.v.bottom_hidden = 0
    BY <1>1, WinFacts DEF Empty
  <2>2. Recalculate(w, old) = y
    BY <2>1 DEF Recalculate
  <2>3. /\ y \in WinType /\ SameButView(y, w) /\ y.v.ok = w.v.ok
        /\ y.v.top = 0 /\ y.v.bot = 0 /\ y.v.top_hidden = 0 /\ y.v.bottom_hidden = 0
        /\ y.v.bottom_blank = w.rows
    BY SMTT(30), <2>1 DEF WinType, SameButView
  <2>. HIDE DEF y
  <2>4. Newest(y) = 0 /\ Empty(y)
    BY <2>1, <2>3 DEF Newest, SameButView, Empty
  <2>5. Redraw(y) = y
    BY ZenonT(60), <2>3 DEF Redraw
  <2>6. ScrollToStart(y) = y /\ ScrollToEnd(y) = y
    BY <2>4 DEF ScrollToStart, ScrollToEnd
  <2>7. x = y
    BY <2>2, <2>5, <2>6
  <2>. QED  BY <2>3, <2>4, <2>7
<1>2. CASE Good(old)
  <2> DEFINE y == Recalculate(w, old)
             r == Redraw(y)
  <2>1. w.v.top \in 1 .. Newest(w) /\ Newest(w) \in Nat /\ w.v.top \in Nat
    BY <1>2, WinFacts DEF Good, Placed, Newest
  <2>5. y \in WinType /\ SameButView(y, w) /\ y.v.ok = w.v.ok /\ y.v.top = w.v.top
    BY <2>1, RecalculateLeaves
  <2>. HIDE DEF y
  <2>6. Newest(y) = Newest(w)
    BY <2>5 DEF Newest, SameButView
  <2>7. /\ r \in WinType /\ SameButView(r, y) /\ r.v.ok = y.v.ok
        /\ r.v.top = y.v.top /\ r.v.top_hidden = y.v.top_hidden
    BY <2>1, <2>5, <2>6, RedrawLeavesTop
  <2>8. ASSUME r.v.top = 1, r.v.top_hidden = 0 PROVE Good(r)
    <3>1. LinesOf(y, 1) \in Nat \ {0} /\ LinesUpTo(y)[1 - 1] + 0 = 0
      BY SMTT(30), <2>1, <2>5, <2>6, <2>7, <2>8, Layout
    <3>2. y.v.top = 1 /\ y.v.top_hidden = 0
      BY <2>7, <2>8
    <3>3. Placed(y) /\ 0 < LinesOf(y, 1)
      BY <2>1, <2>5, <2>6, <3>1, <3>2 DEF Placed
    <3>. QED  BY <2>5, <3>1, <3>2, <3>3, RedrawGood
  <2>9. Newest(r) # 0 /\ x = ScrollToEnd(ScrollToStart(r))
    BY <2>1, <2>6, <2>7 DEF Newest, SameButView, y
  <2>. HIDE DEF r
  <2>10. x \in WinType /\ SameButView(x, r) /\ x.v.ok = r.v.ok /\ Good(x)
    BY <2>7, <2>8, <2>9, StartEndGood
  <2>. QED  BY <2>5, <2>7, <2>10 DEF SameButView
<1>. QED  BY <1>1, <1>2

\* swindow_set_wordwrap, of messages that go on taking as many lines: nothing moves.
LEMMA WrapGood ==
    ASSUME MessagesFit, NEW old \in WinType, Empty(old) \/ Good(old),
           NEW w \in WinType, w.buf = old.buf, w.v = old.v, w.rows = old.rows,
           \A k \in 1 .. Newest(old) : LinesOf(w, k) = LinesOf(old, k),
           NEW x, x = Redraw(Recalculate(w, old))
    PROVE  x \in WinType /\ SameButView(x, w) /\ x.v.ok = w.v.ok /\ (Empty(x) \/ Good(x))
<1>1. CASE Empty(old)
  <2>1. /\ Empty(w) /\ w.v.top = 0 /\ w.v.bottom_blank = w.rows
    BY <1>1 DEF Empty
  <2>2. Recalculate(w, old) = w
    BY SMTT(30), <2>1 DEF Recalculate, WinType
  <2>3. Redraw(w) = w
    BY <2>1 DEF Redraw
  <2>. QED  BY <2>1, <2>2, <2>3 DEF SameButView
<1>2. CASE Good(old)
  <2>1. /\ Newest(w) = Newest(old) /\ Newest(w) \in Nat /\ (OneLines(w) <=> OneLines(old))
        /\ \A k \in 1 .. Newest(old) : LinesOf(w, k) = LinesOf(old, k)
        /\ \A k \in 0 .. Newest(old) : LinesUpTo(w)[k] = LinesUpTo(old)[k]
    BY SameBuffer, WinFacts
  <2>2. /\ old.v.top \in 1 .. Newest(old) /\ old.v.bot \in 1 .. Newest(old)
        /\ old.v.top - 1 \in 0 .. Newest(old) /\ old.v.bot \in 0 .. Newest(old)
    BY <1>2, <2>1 DEF Good, Placed, Shown
  <2>3. Recalculate(w, old) = w
    BY <2>1, <2>2 DEF Recalculate
  <2>4. Above(w) = Above(old) /\ DownTo(w) = DownTo(old)
    BY <2>1, <2>2, Marks
  <2>5. Good(w)
    BY <1>2, <2>1, <2>2, <2>4 DEF Good, Placed, Shown, AtEnd
  <2>. QED  BY <2>3, <2>5, RedrawKeeps
<1>. QED  BY <1>1, <1>2

\* swindow_clear, of messages of one line: all rows are blank.
LEMMA ClearGood ==
    ASSUME MessagesFit, NEW w \in WinType, OneLines(w), Newest(w) # 0,
           NEW x, x = [w EXCEPT !.v = [top |-> Newest(w), bot |-> Newest(w),
                                       top_hidden |-> LinesOf(w, Newest(w)),
                                       bottom_hidden |-> 0, bottom_blank |-> w.rows,
                                       ok |-> TRUE]]
    PROVE  x \in WinType /\ SameButView(x, w) /\ Good(x)
<1> DEFINE N == Newest(w)
           u == LinesUpTo(w)
<1>1. /\ N \in Nat \ {0} /\ w.rows \in Nat \ {0} /\ N \in 1 .. N /\ N - 1 \in 0 .. N
      /\ LinesOf(w, N) = 1 /\ u[N] = u[N - 1] + LinesOf(w, N)
      /\ u[N] \in Nat /\ u[N - 1] \in Nat
  <2>1. N \in Nat \ {0} /\ N \in 1 .. N /\ N - 1 \in 0 .. N /\ N \in 0 .. N
    BY Layout
  <2>. QED  BY <2>1, Layout
<1>2. /\ x \in WinType /\ SameButView(x, w) /\ x.v.top = N /\ x.v.bot = N
      /\ x.v.top_hidden = LinesOf(w, N) /\ x.v.bottom_hidden = 0 /\ x.v.bottom_blank = w.rows
  <2> DEFINE r == [top |-> N, bot |-> N, top_hidden |-> LinesOf(w, N), bottom_hidden |-> 0,
                   bottom_blank |-> w.rows, ok |-> TRUE]
             T == [top : Nat, bot : Nat, top_hidden : Nat, bottom_hidden : Nat,
                   bottom_blank : Nat, ok : BOOLEAN]
             y == [w EXCEPT !.v = r]
  <2>1. x = y
    OBVIOUS
  <2>. HIDE DEF N
  <2>2. r \in T
    BY <1>1
  <2>3. /\ r.top = N /\ r.bot = N /\ r.top_hidden = LinesOf(w, N) /\ r.bottom_hidden = 0
        /\ r.bottom_blank = w.rows
    OBVIOUS
  <2>. HIDE DEF r
  <2>4. y \in WinType /\ SameButView(y, w) /\ y.v = r
    BY <2>2 DEF WinType, SameButView
  <2>. HIDE DEF y
  <2>. QED  BY <2>1, <2>3, <2>4
<1>3. /\ Newest(x) = N /\ OneLines(x) /\ LinesOf(x, N) = LinesOf(w, N)
      /\ LinesUpTo(x)[N - 1] = u[N - 1] /\ LinesUpTo(x)[N] = u[N]
  <2>1. /\ Newest(x) = N /\ OneLines(x)
        /\ \A k \in 1 .. N : LinesOf(x, k) = LinesOf(w, k)
        /\ \A k \in 0 .. N : LinesUpTo(x)[k] = u[k]
    BY <1>2, SameBuffer DEF SameButView
  <2>2. N \in 1 .. N /\ N - 1 \in 0 .. N /\ N \in 0 .. N
    <3>. HIDE DEF N
    <3>. QED  BY <1>1
  <2>. QED  BY <2>1, <2>2
<1>4. Above(x) = u[N] /\ DownTo(x) = u[N] - 0
  BY <1>1, <1>2, <1>3, Marks
<1>5. AtEnd(x)
  BY <1>2, <1>3 DEF AtEnd
<1>6. Placed(x)
  BY <1>1, <1>2, <1>3 DEF Placed
<1>7. Shown(x)
  BY <1>1, <1>2, <1>3, <1>4, <1>5 DEF Shown, SameButView
<1>. QED  BY <1>2, <1>3, <1>5, <1>6, <1>7 DEF Good

\* A window with the same messages, lines and view shows the same.
LEMMA SameView ==
    ASSUME MessagesFit, NEW w \in WinType, NEW x \in WinType,
           x.buf = w.buf, x.rows = w.rows, x.v = w.v,
           x.cols = w.cols, x.wrap = w.wrap
    PROVE  /\ AtEnd(x) <=> AtEnd(w)
           /\ Good(w) => Good(x) /\ Above(x) = Above(w) /\ DownTo(x) = DownTo(w)
           /\ Empty(w) => Empty(x)
<1>1. /\ Newest(x) = Newest(w) /\ Newest(w) \in Nat /\ (OneLines(x) <=> OneLines(w))
      /\ \A k \in 1 .. Newest(w) : LinesOf(x, k) = LinesOf(w, k)
      /\ \A k \in 0 .. Newest(w) : LinesUpTo(x)[k] = LinesUpTo(w)[k]
  BY SameBuffer, WinFacts
<1>2. AtEnd(x) <=> AtEnd(w)
  BY <1>1 DEF AtEnd
<1>3. ASSUME Good(w) PROVE Good(x) /\ Above(x) = Above(w) /\ DownTo(x) = DownTo(w)
  <2>1. w.v.top \in 1 .. Newest(w) /\ w.v.bot \in 1 .. Newest(w)
    BY <1>3 DEF Good, Placed, Shown
  <2>2. w.v.top - 1 \in 0 .. Newest(w) /\ w.v.bot \in 0 .. Newest(w)
    BY <1>1, <2>1
  <2>3. Above(x) = Above(w) /\ DownTo(x) = DownTo(w)
    BY <1>1, <2>1, <2>2, Marks
  <2>. QED  BY <1>1, <1>2, <1>3, <2>1, <2>3 DEF Good, Placed, Shown
<1>. QED  BY <1>2, <1>3 DEF Empty

\* The messages swindow_print_matching looks at follow one another.
LEMMA PrintTurnsDef ==
    ASSUME NEW S, Len(buf) \in Nat
    PROVE  PrintTurns(S) =
              [i \in 0 .. Len(buf) |-> IF i = 0 THEN [w |-> Win, added |-> 0]
                                       ELSE PrintTurn(S, PrintTurns(S)[i - 1], i)]
<1> DEFINE start == [w |-> Win, added |-> 0]
           n == Len(buf)
           Turns(s, m) == s = [i \in 0 .. m |-> IF i = 0 THEN start
                                                ELSE PrintTurn(S, s[i - 1], i)]
           T == {m \in Nat : ~\E s : Turns(s, m)}
<1>. HIDE DEF start
<1>1. T = {}
  <2>1. SUFFICES ASSUME T # {} PROVE FALSE
    OBVIOUS
  <2>2. PICK m \in T : \A y \in T : m <= y
    BY <2>1, LeastNumber
  <2>3. CASE m = 0
    <3> DEFINE s == [i \in 0 .. 0 |-> start]
    <3>1. Turns(s, 0)
      OBVIOUS
    <3>. QED  BY <2>2, <2>3, <3>1
  <2>4. CASE m # 0
    <3>1. m \in Nat /\ m - 1 \in Nat
      BY <2>4
    <3>2. m - 1 \notin T
      <4>. HIDE DEF T
      <4>. QED  BY <2>2, <3>1
    <3>3. PICK r : Turns(r, m - 1)
      <4>. HIDE DEF Turns
      <4>. QED  BY <3>1, <3>2
    <3> DEFINE s == [i \in 0 .. m |-> IF i < m THEN r[i] ELSE PrintTurn(S, r[m - 1], m)]
    <3>4. ASSUME NEW i \in 0 .. m
          PROVE  s[i] = IF i = 0 THEN start ELSE PrintTurn(S, s[i - 1], i)
      <4>1. CASE i < m
        BY <3>1, <3>3, <4>1
      <4>2. CASE i = m
        BY <2>4, <3>1, <3>3, <4>2
      <4>. QED  BY <3>1, <4>1, <4>2
    <3>5. Turns(s, m)
      BY <3>4
    <3>. QED  BY <2>2, <3>5
  <2>. QED  BY <2>3, <2>4
<1>2. \E s : Turns(s, n)
  <2>. HIDE DEF Turns, n
  <2>1. n \in Nat
    BY DEF n
  <2>. QED  BY <1>1, <2>1
<1>3. PrintTurns(S) = CHOOSE s : Turns(s, n)
  BY DEF PrintTurns, start
<1>4. Turns(PrintTurns(S), n)
  <2>. HIDE DEF Turns
  <2>. QED  BY <1>2, <1>3
<1>. QED  BY <1>4 DEF start

\* What /lastlog has made of the window when it has looked at i messages.
Printed(S, i, m) ==
    /\ m \in [w : WinType, added : Nat] /\ SameFrame(m.w, Win)
    /\ \/ m.w = Win /\ \A j \in 1 .. i : j \notin S
       \/ m.w.v.ok => /\ Good(m.w) /\ Kept(Win, m.w, scroll_on_output)
                      /\ Cleared(m.w) => Cleared(Win)

LEMMA PrintTurnGood ==
    ASSUME MessagesFit, Win \in WinType, scrollbuf_max >= rows, view.ok, Empty(Win) \/ Good(Win),
           scroll_on_output \in BOOLEAN,
           NEW S, NEW i \in 1 .. Len(buf), NEW m, Printed(S, i - 1, m)
    PROVE  Printed(S, i, PrintTurn(S, m, i))
<1>1. /\ Win.buf = buf /\ Win.v = view /\ Win.max = scrollbuf_max /\ Win.rows = rows
  BY DEF Win
<1>. HIDE DEF Win
<1>2. m.w \in WinType /\ SameFrame(m.w, Win) /\ m.added \in Nat
  BY DEF Printed
<1>3. CASE ~(i \in S /\ m.w.v.ok)
  <2>1. PrintTurn(S, m, i) = m
    BY <1>3 DEF PrintTurn
  <2>2. ASSUME m.w = Win, \A j \in 1 .. i - 1 : j \notin S PROVE \A j \in 1 .. i : j \notin S
    <3>1. i \notin S
      BY <1>1, <1>3, <2>2
    <3>2. i \in Nat /\ \A j \in 1 .. i : j = i \/ j \in 1 .. i - 1
      <4>1. Len(buf) \in Nat
        BY <1>1 DEF WinType
      <4>. QED  BY <4>1
    <3>. QED  BY <2>2, <3>1, <3>2
  <2>. QED  BY <2>1, <2>2 DEF Printed
<1>4. CASE i \in S /\ m.w.v.ok /\ i <= Len(buf) + m.added - Newest(m.w)
  <2> DEFINE y == Bad(m.w)
             n == [m EXCEPT !.w = y]
  <2>1. PrintTurn(S, m, i) = n
    BY <1>4 DEF PrintTurn, PrintMatch
  <2>2. y \in WinType /\ SameFrame(y, m.w) /\ ~y.v.ok
    BY <1>2 DEF WinType, Bad, SameFrame
  <2>. HIDE DEF y
  <2>3. n \in [w : WinType, added : Nat] /\ n.w = y
    BY <2>2 DEF Printed
  <2>. HIDE DEF n
  <2>. QED  BY <1>2, <2>1, <2>2, <2>3 DEF Printed, SameFrame
<1>5. CASE i \in S /\ m.w.v.ok /\ ~(i <= Len(buf) + m.added - Newest(m.w))
  <2> DEFINE x == Add(m.w, buf[i], scroll_on_output)
             n == [w |-> x, added |-> m.added + 1]
  <2>1. PrintTurn(S, m, i) = n
    BY <1>5 DEF PrintTurn, PrintMatch
  <2>2. buf[i] \in TextLens
    <3>1. buf \in Seq(TextLens)
      BY <1>1 DEF WinType
    <3>. QED  BY <3>1
  <2>3. m.w.max >= m.w.rows /\ (Empty(m.w) \/ Good(m.w)) /\ (Cleared(m.w) => Cleared(Win))
    BY <1>1, <1>2, <1>5 DEF SameFrame, Printed
  <2>7. ASSUME Cleared(Win) PROVE Height(buf[i], m.w.cols, m.w.wrap) = 1
    <3>1. Good(Win)
      BY <1>1 DEF Empty
    <3>2. LinesOf(Win, i) = 1
      BY <1>1, <2>7, <3>1 DEF Good, Cleared, OneLines, Newest
    <3>. QED  BY <1>1, <1>2, <3>2 DEF LinesOf, SameFrame
  <2>4. /\ x \in WinType /\ SameFrame(x, m.w) /\ x.v.ok /\ Good(x)
        /\ Kept(m.w, x, scroll_on_output) /\ (Cleared(x) => Cleared(Win))
    BY <1>2, <1>5, <2>2, <2>3, <2>7, AddGood
  <2>. HIDE DEF x
  <2>5. Kept(Win, x, scroll_on_output)
    <3>1. CASE m.w = Win
      BY <2>4, <3>1
    <3>2. CASE m.w # Win
      <4>1. Good(m.w) /\ Kept(Win, m.w, scroll_on_output)
        BY <1>5, <3>2 DEF Printed
      <4>2. ASSUME ~AtEnd(Win), ~scroll_on_output PROVE Below(x) >= Below(Win)
        <5>1. Good(Win)
          BY <4>2 DEF Empty, AtEnd, Newest
        <5>2. /\ Below(x) \in Nat /\ Below(m.w) \in Nat /\ Below(Win) \in Nat
              /\ (AtEnd(m.w) <=> Below(m.w) = 0) /\ (AtEnd(Win) <=> Below(Win) = 0)
          BY <1>2, <2>4, <4>1, <5>1, BelowIs
        <5>3. Below(m.w) >= Below(Win)
          BY <4>1, <4>2 DEF Kept
        <5>4. ~AtEnd(m.w)
          BY <4>2, <5>2, <5>3
        <5>5. Below(x) >= Below(m.w)
          BY <2>4, <4>2, <5>4 DEF Kept
        <5>. QED  BY <5>2, <5>3, <5>5
      <4>. QED  BY <2>4, <4>1, <4>2 DEF Kept
    <3>. QED  BY <3>1, <3>2
  <2>6. n \in [w : WinType, added : Nat] /\ n.w = x
    BY <1>2, <2>4
  <2>. HIDE DEF n
  <2>. QED  BY <1>2, <2>1, <2>4, <2>5, <2>6 DEF Printed, SameFrame
<1>. QED  BY <1>3, <1>4, <1>5

\* swindow_print_matching, whatever the matches are.
LEMMA PrintGood ==
    ASSUME MessagesFit, Win \in WinType, scrollbuf_max >= rows, view.ok, Empty(Win) \/ Good(Win),
           scroll_on_output \in BOOLEAN,
           NEW S \in (SUBSET (1 .. Len(buf))) \ {{}}, NEW x, x = PrintMatching(S)
    PROVE  /\ x \in WinType /\ SameFrame(x, Win)
           /\ x.v.ok => Good(x) /\ Kept(Win, x, scroll_on_output)
<1> DEFINE n == Len(buf)
           p == PrintTurns(S)
           T == {i \in 0 .. n : ~Printed(S, i, p[i])}
<1>1. n \in Nat
  <2>1. buf \in Seq(TextLens)
    BY DEF WinType, Win
  <2>. QED  BY <2>1
<1>2. /\ p[0] = [w |-> Win, added |-> 0]
      /\ \A i \in 1 .. n : p[i] = PrintTurn(S, p[i - 1], i)
  <2>1. p = [i \in 0 .. n |-> IF i = 0 THEN [w |-> Win, added |-> 0]
                              ELSE PrintTurn(S, p[i - 1], i)]
    BY <1>1, PrintTurnsDef
  <2>. HIDE DEF p, n
  <2>2. \A i \in 0 .. n : p[i] = IF i = 0 THEN [w |-> Win, added |-> 0]
                                 ELSE PrintTurn(S, p[i - 1], i)
    BY <2>1
  <2>3. 0 \in 0 .. n /\ \A i \in 1 .. n : i \in 0 .. n /\ i # 0
    BY <1>1
  <2>. QED  BY <2>2, <2>3
<1>. HIDE DEF p
<1>3. Printed(S, 0, p[0])
  <2>1. [w |-> Win, added |-> 0] \in [w : WinType, added : Nat] /\ SameFrame(Win, Win)
    BY DEF SameFrame
  <2>. HIDE DEF Win
  <2>. QED  BY <1>2, <2>1 DEF Printed
<1>4. T = {}
  <2>1. SUFFICES ASSUME T # {} PROVE FALSE
    OBVIOUS
  <2>2. T \in SUBSET Nat
    <3>. HIDE DEF n
    <3>. QED  BY <1>1
  <2>3. PICK i \in T : \A y \in T : i <= y
    <3>. HIDE DEF T
    <3>. QED  BY <2>1, <2>2, LeastNumber
  <2>4. i \in 1 .. n /\ i - 1 \in 0 .. n /\ i - 1 < i
    <3>. HIDE DEF n
    <3>. QED  BY <1>1, <1>3, <2>3
  <2>5. i - 1 \notin T
    <3>. HIDE DEF T, n
    <3>. QED  BY <1>1, <2>3, <2>4
  <2>6. Printed(S, i - 1, p[i - 1])
    BY <2>4, <2>5
  <2>7. Printed(S, i, p[i])
    <3>1. p[i] = PrintTurn(S, p[i - 1], i)
      BY <1>2, <2>4
    <3>. QED  BY <2>4, <2>6, <3>1, PrintTurnGood
  <2>. QED  BY <2>3, <2>7
<1>5. Printed(S, n, p[n])
  <2>1. n \in 0 .. n
    <3>. HIDE DEF n
    <3>. QED  BY <1>1
  <2>. QED  BY <1>4, <2>1
<1>6. x = p[n].w
  BY DEF PrintMatching, p
<1>7. \E j \in 1 .. n : j \in S
  OBVIOUS
<1>. QED  BY <1>5, <1>6, <1>7 DEF Printed

-----------------------------------------------------------------------------
(***************************************************************************)
(* The inductive invariant.                                                *)
(***************************************************************************)

\* The window after a step is the one that was installed.
LEMMA WinIs ==
    ASSUME NEW x \in WinType, rows' = x.rows, cols' = x.cols, wordwrap' = x.wrap,
           scrollbuf_max' = x.max, buf' = x.buf, view' = x.v
    PROVE  Win' = x
<1>1. x = [buf |-> x.buf, rows |-> x.rows, cols |-> x.cols, wrap |-> x.wrap,
           max |-> x.max, v |-> x.v]
  BY DEF WinType
<1>. QED  BY <1>1 DEF Win

\* What the invariant says of the window and the options.
LEMMA InvFacts ==
    ASSUME MessagesFit, IInv
    PROVE  /\ Win \in WinType /\ Win.max >= Win.rows /\ (view.ok => Empty(Win) \/ Good(Win))
           /\ scroll_on_output \in BOOLEAN
           /\ Win.buf = buf /\ Win.rows = rows /\ Win.cols = cols /\ Win.wrap = wordwrap
           /\ Win.max = scrollbuf_max /\ Win.v = view
           /\ buf \in Seq(TextLens) /\ Newest(Win) = Len(buf)
<1>1. /\ Win.buf = buf /\ Win.rows = rows /\ Win.cols = cols /\ Win.wrap = wordwrap
      /\ Win.max = scrollbuf_max /\ Win.v = view
  BY DEF Win
<1>2. Win \in WinType /\ Win.max >= Win.rows /\ (view.ok => Empty(Win) \/ Good(Win))
  BY <1>1 DEF IInv, Fine
<1>3. scroll_on_output \in BOOLEAN
  BY SwindowAssumption DEF IInv
<1>4. buf \in Seq(TextLens)
  BY <1>1, <1>2 DEF WinType
<1>. QED  BY <1>1, <1>2, <1>3, <1>4 DEF Newest

LEMMA InitGood == Init => IInv
<1>. SUFFICES ASSUME Init PROVE IInv
  OBVIOUS
<1>1. PICK n \in BufLens : scrollbuf_max = Larger(n, rows)
  BY DEF Init
<1>2. scrollbuf_max \in Nat /\ scrollbuf_max >= rows /\ rows \in Nat
  BY <1>1, SwindowAssumption DEF Init, Larger
<1>3. /\ view \in [top : Nat, bot : Nat, top_hidden : Nat, bottom_hidden : Nat,
                   bottom_blank : Nat, ok : BOOLEAN]
      /\ view.top = 0 /\ view.bot = 0 /\ view.top_hidden = 0 /\ view.bottom_hidden = 0
      /\ view.bottom_blank = rows
  BY <1>2 DEF Init, EmptyView
<1>4. buf = <<>> /\ buf \in Seq(TextLens)
  BY DEF Init
<1>5. Win \in WinType
  BY <1>2, <1>3, <1>4 DEF Win, WinType, Init
<1>6. Empty(Win) /\ Win.max >= Win.rows
  BY <1>2, <1>3, <1>4 DEF Win, Empty
<1>. QED  BY <1>5, <1>6 DEF IInv, Fine, Init

\* A message is added to the window the invariant describes.
LEMMA AddStep ==
    ASSUME MessagesFit, IInv, AddMessage, RegularStep
    PROVE  IInv' /\ Kept(Win, Win', scroll_on_output)
<1>1. PICK len \in TextLens : Write(len)
  BY DEF AddMessage
<1> DEFINE x == Add(Win, len, scroll_on_output)
<1>2. view.ok /\ buf' = x.buf /\ view' = x.v /\ UNCHANGED optVars
  BY <1>1 DEF Install, Write
<1>7. Cleared(Win) => Height(len, Win.cols, Win.wrap) = 1
  BY <1>1, InvFacts DEF RegularStep
<1>3. /\ x \in WinType /\ SameFrame(x, Win) /\ x.v.ok /\ Good(x)
      /\ Kept(Win, x, scroll_on_output)
  BY <1>2, <1>7, InvFacts, AddGood
<1>. HIDE DEF x
<1>4. Win' = x
  BY <1>2, <1>3, InvFacts, WinIs DEF SameFrame, optVars
<1>5. x.max >= x.rows
  BY <1>3, InvFacts DEF SameFrame
<1>6. Fine(Win') /\ scroll_on_output' \in ScrollOnOutput
  BY <1>2, <1>3, <1>4, <1>5 DEF Fine, IInv, optVars
<1>. QED  BY <1>2, <1>3, <1>4, <1>6 DEF IInv

\* Any window installed with the options as they are.
LEMMA InstallStep ==
    ASSUME MessagesFit, IInv, UNCHANGED optVars, NEW x \in WinType, SameFrame(x, Win), Install(x),
           x.v.ok => Empty(x) \/ Good(x)
    PROVE  IInv' /\ Win' = x
<1>1. buf' = x.buf /\ view' = x.v
  BY DEF Install
<1>2. Win' = x
  BY <1>1, InvFacts, WinIs DEF SameFrame, optVars
<1>3. x.max >= x.rows
  BY InvFacts DEF SameFrame
<1>4. Fine(Win') /\ scroll_on_output' \in ScrollOnOutput
  BY <1>2, <1>3 DEF Fine, IInv, optVars
<1>. QED  BY <1>2, <1>4 DEF IInv

\* Scrolling moves the screen in the same buffer.
LEMMA ScrollSteps ==
    ASSUME MessagesFit, IInv, ScrollEnd \/ ScrollStart \/ ScrollDownBy \/ ScrollUpBy
    PROVE  IInv'
<1>1. /\ Win \in WinType /\ view.ok /\ (Empty(Win) \/ Good(Win)) /\ UNCHANGED optVars
      /\ Win.buf = buf /\ Newest(Win) = Len(buf)
  BY InvFacts DEF ScrollEnd, ScrollStart, ScrollDownBy, ScrollUpBy, Install
<1>2. ASSUME NEW x \in WinType, SameButView(x, Win), Install(x), Empty(x) \/ Good(x)
      PROVE  IInv'
  <2>1. SameFrame(x, Win)
    BY <1>1, <1>2 DEF SameButView, SameFrame, Install
  <2>. QED  BY <1>1, <1>2, <2>1, InstallStep
<1>3. Empty(Win) => Newest(Win) = 0 /\ Lines(Win, 1, Newest(Win)) = 0
  BY DEF Empty, Newest, Lines
<1>4. Good(Win) => Newest(Win) # 0
  BY WinFacts, <1>1 DEF Good, Placed
<1>5. rows \in Nat /\ Win.rows = rows
  BY <1>1, WinFacts, InvFacts
<1>. HIDE DEF Win
<1>6. CASE ScrollEnd
  <2> DEFINE x == ScrollToEnd(Win)
  <2>1. Install(x)
    BY <1>6 DEF ScrollEnd
  <2>2. CASE Empty(Win)
    <3>1. x = Win
      BY <1>3, <2>2 DEF ScrollToEnd
    <3>. HIDE DEF x
    <3>. QED  BY <1>1, <1>2, <2>1, <2>2, <3>1 DEF SameButView
  <2>3. CASE Good(Win)
    <3>1. x \in WinType /\ SameButView(x, Win) /\ Good(x)
      BY <1>1, <2>3, EndGood
    <3>. HIDE DEF x
    <3>. QED  BY <1>2, <2>1, <3>1
  <2>. QED  BY <1>1, <2>2, <2>3
<1>7. CASE ScrollStart
  <2> DEFINE x == ScrollToStart(Win)
  <2>1. Install(x)
    BY <1>7 DEF ScrollStart
  <2>2. CASE Empty(Win)
    <3>1. x = Win
      BY <1>3, <2>2 DEF ScrollToStart
    <3>. HIDE DEF x
    <3>. QED  BY <1>1, <1>2, <2>1, <2>2, <3>1 DEF SameButView
  <2>3. CASE Good(Win)
    <3>1. x \in WinType /\ SameButView(x, Win) /\ Good(x)
      BY <1>1, <1>4, <2>3, StartGood
    <3>. HIDE DEF x
    <3>. QED  BY <1>2, <2>1, <3>1
  <2>. QED  BY <1>1, <2>2, <2>3
<1>8. CASE CanScroll(Win) /\ \E n \in Steps : Install(ScrollDown(Win, n))
  <2>1. Good(Win)
    BY <1>1, <1>3, <1>5, <1>8 DEF CanScroll
  <2>2. PICK n \in Steps : Install(ScrollDown(Win, n))
    BY <1>8
  <2>3. n \in Nat \ {0}
    BY SwindowAssumption
  <2> DEFINE x == ScrollDown(Win, n)
  <2>4. x \in WinType /\ SameButView(x, Win) /\ Good(x) /\ Install(x)
    BY <1>1, <2>1, <2>2, <2>3, DownGood
  <2>. HIDE DEF x
  <2>. QED  BY <1>2, <2>4
<1>9. CASE CanScroll(Win) /\ \E n \in Steps : Install(ScrollUp(Win, n))
  <2>1. Good(Win)
    BY <1>1, <1>3, <1>5, <1>9 DEF CanScroll
  <2>2. PICK n \in Steps : Install(ScrollUp(Win, n))
    BY <1>9
  <2>3. n \in Nat \ {0}
    BY SwindowAssumption
  <2> DEFINE x == ScrollUp(Win, n)
  <2>4. x \in WinType /\ SameButView(x, Win) /\ Good(x) /\ Install(x)
    BY <1>1, <2>1, <2>2, <2>3, UpGood
  <2>. HIDE DEF x
  <2>. QED  BY <1>2, <2>4
<1>. QED  BY <1>6, <1>7, <1>8, <1>9 DEF ScrollDownBy, ScrollUpBy

\* Clearing leaves a Good screen of messages of one line; an erased window is a new one.
LEMMA ClearSteps ==
    ASSUME MessagesFit, IInv, Clear \/ Erase, RegularStep
    PROVE  IInv'
<1>1. /\ Win \in WinType /\ UNCHANGED optVars /\ Newest(Win) = Len(buf) /\ Win.rows = rows
      /\ Win.buf = buf /\ buf # <<>> /\ Len(buf) \in Nat \ {0} /\ rows \in Nat
  <2>1. Win \in WinType /\ Newest(Win) = Len(buf) /\ Win.rows = rows /\ Win.buf = buf
    BY InvFacts
  <2>2. UNCHANGED optVars /\ buf # <<>> /\ buf \in Seq(TextLens)
    BY InvFacts DEF Clear, Erase
  <2>3. rows \in Nat
    BY <2>1, WinFacts
  <2>4. Len(buf) \in Nat \ {0}
    BY <2>2
  <2>. QED  BY <2>1, <2>2, <2>3, <2>4
<1>2. CASE Clear
  <2> DEFINE x == [Win EXCEPT !.v = [top |-> Len(buf), bot |-> Len(buf),
                                  top_hidden |-> LinesOf(Win, Len(buf)),
                                  bottom_hidden |-> 0, bottom_blank |-> rows,
                                  ok |-> TRUE]]
  <2>1. Install(x)
    BY <1>2 DEF Clear
  <2>2. OneLines(Win)
    BY <1>2 DEF RegularStep
  <2>. HIDE DEF Win
  <2>3. x \in WinType /\ SameButView(x, Win) /\ Good(x)
    BY <1>1, <2>2, ClearGood
  <2>. HIDE DEF x
  <2>4. SameFrame(x, Win)
    BY <2>3 DEF SameButView, SameFrame
  <2>. QED  BY <1>1, <2>1, <2>3, <2>4, InstallStep
<1>3. CASE Erase
  <2> DEFINE x == [Win EXCEPT !.buf = <<>>, !.v = EmptyView(rows)]
  <2>1. Install(x)
    BY <1>3 DEF Erase
  <2>2. /\ EmptyView(rows) \in [top : Nat, bot : Nat, top_hidden : Nat, bottom_hidden : Nat,
                                bottom_blank : Nat, ok : BOOLEAN]
        /\ EmptyView(rows).top = 0 /\ EmptyView(rows).bot = 0
        /\ EmptyView(rows).top_hidden = 0 /\ EmptyView(rows).bottom_hidden = 0
        /\ EmptyView(rows).bottom_blank = rows
    BY <1>1 DEF EmptyView
  <2>. HIDE DEF Win
  <2>3. x \in WinType /\ SameFrame(x, Win) /\ x.buf = <<>> /\ x.v = EmptyView(rows)
    <3> DEFINE none == <<>>
               ev == EmptyView(rows)
    <3>1. none \in Seq(TextLens)
      OBVIOUS
    <3>. HIDE DEF none, ev
    <3>2. x = [Win EXCEPT !.buf = none, !.v = ev]
      BY DEF none, ev
    <3>3. x \in WinType /\ SameFrame(x, Win) /\ x.buf = none /\ x.v = ev
      BY <1>1, <2>2, <3>1, <3>2 DEF WinType, SameFrame, ev
    <3>. QED  BY <3>3 DEF none, ev
  <2>. HIDE DEF x
  <2>4. Empty(x)
    BY <1>1, <2>2, <2>3 DEF Empty, SameFrame
  <2>. QED  BY <1>1, <2>1, <2>3, <2>4, InstallStep
<1>. QED  BY <1>2, <1>3

\* The copies /lastlog adds are messages like any other.
LEMMA LastlogStep ==
    ASSUME MessagesFit, IInv, Lastlog
    PROVE  IInv' /\ (view'.ok => Kept(Win, Win', scroll_on_output))
<1>1. PICK S \in (SUBSET DOMAIN buf) \ {{}} : Install(PrintMatching(S))
  BY DEF Lastlog
<1> DEFINE x == PrintMatching(S)
<1>2. UNCHANGED optVars /\ view.ok
  BY <1>1 DEF Lastlog, Install
<1>3. /\ Win \in WinType /\ (Empty(Win) \/ Good(Win)) /\ scrollbuf_max >= rows
      /\ scroll_on_output \in BOOLEAN /\ Win.buf = buf /\ Win.v = view
      /\ S \in (SUBSET (1 .. Len(buf))) \ {{}}
  <2>1. buf \in Seq(TextLens)
    BY InvFacts
  <2>. QED  BY <1>2, <2>1, InvFacts
<1>. HIDE DEF Win
<1>4. /\ x \in WinType /\ SameFrame(x, Win) /\ Install(x)
      /\ x.v.ok => Good(x) /\ Kept(Win, x, scroll_on_output)
  BY <1>1, <1>2, <1>3, PrintGood
<1>. HIDE DEF x
<1>5. IInv' /\ Win' = x
  BY <1>2, <1>3, <1>4, InstallStep
<1>6. view' = x.v
  BY <1>4 DEF Install
<1>. QED  BY <1>4, <1>5, <1>6

\* A new size.
LEMMA ResizeStep ==
    ASSUME MessagesFit, IInv, Resize
    PROVE  IInv'
<1>1. /\ Win \in WinType /\ (Empty(Win) \/ Good(Win))
      /\ Win.buf = buf /\ Win.v = view /\ Win.max = scrollbuf_max /\ Win.wrap = wordwrap
  BY InvFacts DEF Resize, Install
<1>2. PICK r \in RowSizes, c \in ColSizes :
         /\ Install(ScrollToEnd(ScrollToStart(Redraw(Recalculate(
                                  [Win EXCEPT !.rows = r, !.cols = c], Win)))))
         /\ rows' = r /\ cols' = c /\ scrollbuf_max' = Larger(scrollbuf_max, r)
         /\ UNCHANGED <<wordwrap, scroll_on_output>>
  BY DEF Resize
<1> DEFINE w == [Win EXCEPT !.rows = r, !.cols = c]
           x == ScrollToEnd(ScrollToStart(Redraw(Recalculate(w, Win))))
           y == [x EXCEPT !.max = Larger(scrollbuf_max, r)]
<1>. HIDE DEF Win
<1>3. /\ w \in WinType /\ w.buf = buf /\ w.v = view /\ w.rows = r /\ w.cols = c
      /\ w.wrap = wordwrap
  BY <1>1 DEF WinType
<1>4. buf' = x.buf /\ view' = x.v
  BY <1>2 DEF Install
<1>. HIDE DEF w
<1>5. x \in WinType /\ SameButView(x, w) /\ (Empty(x) \/ Good(x))
  BY <1>1, <1>3, ResizeGood
<1>. HIDE DEF x
<1>6. Larger(scrollbuf_max, r) \in Nat /\ Larger(scrollbuf_max, r) >= r
  BY <1>1, SwindowAssumption DEF Larger, WinType
<1>7. /\ y \in WinType /\ y.buf = x.buf /\ y.v = x.v /\ y.rows = x.rows /\ y.cols = x.cols
      /\ y.wrap = x.wrap /\ y.max = Larger(scrollbuf_max, r)
  BY <1>5, <1>6 DEF WinType
<1>. HIDE DEF y
<1>8. Empty(y) \/ Good(y)
  BY <1>5, <1>7, SameView
<1>9. Win' = y
  BY <1>2, <1>3, <1>4, <1>5, <1>7, WinIs DEF SameButView
<1>10. y.max >= y.rows
  BY <1>3, <1>5, <1>6, <1>7 DEF SameButView
<1>11. Fine(Win') /\ scroll_on_output' \in ScrollOnOutput
  BY <1>2, <1>7, <1>8, <1>9, <1>10 DEF Fine, IInv
<1>. QED  BY <1>11 DEF IInv

\* Wrapping anew, with as many lines as before.
LEMMA WrapStep ==
    ASSUME MessagesFit, IInv, SetWordwrap, RegularStep
    PROVE  IInv'
<1>1. /\ Win \in WinType /\ (Empty(Win) \/ Good(Win)) /\ Win.max >= Win.rows
      /\ Win.buf = buf /\ Win.v = view /\ Win.max = scrollbuf_max
      /\ Win.rows = rows /\ Win.cols = cols
  BY InvFacts DEF SetWordwrap, Install
<1>2. PICK v \in BOOLEAN :
         /\ Install(Redraw(Recalculate([Win EXCEPT !.wrap = v], Win)))
         /\ wordwrap' = v /\ UNCHANGED <<rows, cols, scrollbuf_max, scroll_on_output>>
  BY DEF SetWordwrap
<1>3. \A i \in DOMAIN buf : LinesOf(Win, i)' = LinesOf(Win, i)
  BY DEF RegularStep
<1> DEFINE w == [Win EXCEPT !.wrap = v]
           x == Redraw(Recalculate(w, Win))
<1>. HIDE DEF Win
<1>4. /\ w \in WinType /\ w.buf = buf /\ w.v = view /\ w.rows = rows /\ w.cols = cols
      /\ w.wrap = v /\ w.max = scrollbuf_max
  BY <1>1 DEF WinType
<1>5. buf' = x.buf /\ view' = x.v
  BY <1>2 DEF Install
<1>10. \A k \in 1 .. Newest(Win) : LinesOf(w, k) = LinesOf(Win, k)
  <2>1. CASE Empty(Win)
    BY <2>1 DEF Empty, Newest
  <2>2. CASE Good(Win)
    <3> DEFINE y == Recalculate(w, Win)
    <3>1. w.v.top \in 1 .. Newest(w) /\ Newest(w) = Newest(Win) /\ Newest(w) \in Nat
      BY <1>1, <1>4, <2>2, WinFacts DEF Good, Placed, Newest
    <3>2. y \in WinType /\ SameButView(y, w) /\ y.v.top = w.v.top
      <4>1. w.v.top # 0
        BY <3>1
      <4>. QED  BY <1>1, <1>4, <4>1, RecalculateLeaves
    <3>. HIDE DEF y, w
    <3>3. y.v.top \in 1 .. Newest(y)
      BY <3>1, <3>2 DEF SameButView, Newest
    <3>4. x.buf = w.buf
      BY <3>2, <3>3, RedrawLeavesTop DEF y, SameButView
    <3>5. buf' = buf /\ cols' = cols /\ wordwrap' = v
      BY <1>2, <1>4, <1>5, <3>4
    <3>6. /\ Newest(Win) = Len(buf) /\ buf \in Seq(TextLens)
          /\ \A k \in 1 .. Len(buf) : LinesOf(Win, k)' = Height(buf[k], cols, v)
      <4>1. \A k \in 1 .. Len(buf) : LinesOf(Win, k)' = Height(buf'[k], cols', wordwrap')
        BY DEF LinesOf, Win
      <4>. QED  BY <1>1, <3>5, <4>1 DEF Newest, WinType
    <3>7. \A k \in 1 .. Len(buf) : LinesOf(w, k) = Height(buf[k], cols, v)
      BY <1>4 DEF LinesOf
    <3>. QED  BY <1>3, <3>6, <3>7
  <2>. QED  BY <1>1, <2>1, <2>2
<1>. HIDE DEF w
<1>6. x \in WinType /\ SameButView(x, w) /\ (Empty(x) \/ Good(x))
  BY <1>1, <1>4, <1>10, WrapGood
<1>. HIDE DEF x
<1>7. Win' = x
  BY <1>2, <1>4, <1>5, <1>6, WinIs DEF SameButView
<1>8. x.max >= x.rows
  BY <1>1, <1>4, <1>6 DEF SameButView
<1>9. Fine(Win') /\ scroll_on_output' \in ScrollOnOutput
  BY <1>2, <1>6, <1>7, <1>8 DEF Fine, IInv
<1>. QED  BY <1>9 DEF IInv

\* A new length of the buffer.
LEMMA LenStep ==
    ASSUME MessagesFit, IInv, SetScrollbufLen
    PROVE  IInv'
<1>1. /\ Win \in WinType /\ (Empty(Win) \/ Good(Win))
      /\ Win.buf = buf /\ Win.v = view /\ Win.wrap = wordwrap /\ Newest(Win) = Len(buf)
      /\ Win.rows = rows /\ Win.cols = cols
  BY InvFacts DEF SetScrollbufLen, Install
<1>2. PICK n \in BufLens :
         /\ scrollbuf_max' = Larger(n, rows)
         /\ Install(Prune([Win EXCEPT !.max = Larger(n, rows)]))
         /\ UNCHANGED <<rows, cols, wordwrap, scroll_on_output>>
  BY DEF SetScrollbufLen
<1> DEFINE w == [Win EXCEPT !.max = Larger(n, rows)]
           x == Prune(w)
<1>. HIDE DEF Win
<1>3. Larger(n, rows) \in Nat /\ Larger(n, rows) >= rows /\ rows \in Nat
  <2>1. rows \in RowSizes
    BY <1>1 DEF WinType
  <2>2. rows \in Nat /\ n \in Nat
    BY <2>1, SwindowAssumption
  <2>. QED  BY <2>2 DEF Larger
<1>4. /\ w \in WinType /\ w.buf = buf /\ w.v = view /\ w.rows = rows /\ w.cols = cols
      /\ w.wrap = wordwrap /\ w.max = Larger(n, rows) /\ w.max >= w.rows
  BY <1>1, <1>3 DEF WinType
<1>5. buf' = x.buf /\ view' = x.v
  BY <1>2 DEF Install
<1>. HIDE DEF w
<1>7. x \in WinType /\ SameFrame(x, w) /\ (x.v.ok => Good(x))
  <2>1. CASE Empty(Win)
    <3>1. x = Bad(w)
      BY <1>1, <1>4, <2>1 DEF Empty, Prune
    <3>2. Bad(w) \in WinType /\ SameFrame(Bad(w), w) /\ ~Bad(w).v.ok
      BY <1>4 DEF Bad, WinType, SameFrame
    <3>. QED  BY <3>1, <3>2
  <2>2. CASE Good(Win)
    <3>1. Good(w)
      BY <1>1, <1>4, <2>2, SameView
    <3>. QED  BY <1>4, <3>1, PruneGood
  <2>. QED  BY <1>1, <2>1, <2>2
<1>. HIDE DEF x
<1>8. Win' = x
  BY <1>2, <1>4, <1>5, <1>7, WinIs DEF SameFrame
<1>9. x.max >= x.rows
  BY <1>4, <1>7 DEF SameFrame
<1>10. Fine(Win') /\ scroll_on_output' \in ScrollOnOutput
  BY <1>2, <1>7, <1>8, <1>9 DEF Fine, IInv
<1>. QED  BY <1>10 DEF IInv

LEMMA NextGood ==
    ASSUME MessagesFit, IInv, [Next /\ RegularStep]_vars
    PROVE  IInv'
<1>1. CASE SetScrollOnOutput \/ UNCHANGED vars
  <2>1. /\ UNCHANGED <<buf, view, rows, cols, wordwrap, scrollbuf_max>>
        /\ scroll_on_output' \in ScrollOnOutput
    BY <1>1 DEF SetScrollOnOutput, vars, IInv
  <2>2. Win' = Win
    BY <2>1 DEF Win
  <2>. QED  BY <2>1, <2>2 DEF IInv
<1>. QED
  BY <1>1, AddStep, ScrollSteps, ClearSteps, LastlogStep, ResizeStep, WrapStep, LenStep
     DEF Next, Stopped

\* Messages that are added keep what they may not change.
LEMMA AddsKeep ==
    ASSUME MessagesFit, IInv, Adds, RegularStep
    PROVE  Kept(Win, Win', scroll_on_output)
  BY AddStep, LastlogStep DEF Adds

-----------------------------------------------------------------------------
(***************************************************************************)
(* The theorems.                                                           *)
(***************************************************************************)

\* The invariant holds: the window is Good, or it is empty.
THEOREM Invariance == ASSUME MessagesFit PROVE RegularSpec => []IInv
<1>1. Init => IInv
  BY InitGood
<1>2. IInv /\ [Next /\ RegularStep]_vars => IInv'
  BY NextGood
<1>. QED  BY <1>1, <1>2, PTL DEF RegularSpec

\* A window with messages is Good while the program has not crashed.
LEMMA UsableGood ==
    ASSUME MessagesFit, IInv, Usable
    PROVE  Win \in WinType /\ Good(Win) /\ Win.v = view /\ Win.rows = rows
<1>1. ~Empty(Win)
  BY InvFacts DEF Usable, Empty
<1>. QED  BY <1>1, InvFacts DEF Usable

\* swindow_redraw, swindow_add, swindow_prune and the scrolling functions, each
\* with arithmetic of its own, agree on one screen: the rows in use are the lines
\* from its top to its bottom, and rows are blank only below the newest message.
THEOREM OneScreenHolds == ASSUME MessagesFit PROVE RegularSpec => []OneScreen
<1>1. IInv => OneScreen
  <2>. SUFFICES ASSUME IInv, Usable PROVE OneScreen!2
    BY DEF OneScreen
  <2>1. Win \in WinType /\ Good(Win) /\ Win.v = view /\ Win.rows = rows
    BY UsableGood
  <2>2. Newest(Win) \in Nat
    BY <2>1, WinFacts
  <2>. HIDE DEF Win
  <2>. QED  BY <2>1, <2>2 DEF Good, Placed, Shown
<1>. QED  BY <1>1, Invariance, PTL

\* Scrolling up and down again by as many lines, swindow_scroll_up_by and
\* swindow_scroll_down_by, shows the same lines.
THEOREM UpAndDownHolds == ASSUME MessagesFit PROVE RegularSpec => []UpAndDown
<1>1. ASSUME IInv PROVE UpAndDown
  <2>. SUFFICES ASSUME NEW n \in Steps, Usable, CanScroll(Win), view.bottom_blank = 0,
                       Above(Win) >= n
       PROVE  /\ Above(ScrollDown(ScrollUp(Win, n), n)) = Above(Win)
              /\ DownTo(ScrollDown(ScrollUp(Win, n), n)) = DownTo(Win)
    BY DEF UpAndDown
  <2> DEFINE up == ScrollUp(Win, n)
             back == ScrollDown(up, n)
             T == LinesUpTo(Win)[Newest(Win)]
  <2>1. Win \in WinType /\ Good(Win) /\ Win.v = view /\ Win.rows = rows /\ n \in Nat \ {0}
    BY <1>1, UsableGood, SwindowAssumption
  <2>. HIDE DEF Win
  <2>2. /\ Above(Win) \in Nat /\ DownTo(Win) = Above(Win) + rows /\ DownTo(Win) <= T
        /\ T \in Nat /\ rows \in Nat
    <3>1. Newest(Win) \in 0 .. Newest(Win)
      BY <2>1, WinFacts
    <3>2. /\ Above(Win) \in Nat /\ DownTo(Win) <= T
          /\ DownTo(Win) = Above(Win) + Win.rows - view.bottom_blank
      BY <2>1, Screen DEF Good
    <3>3. T \in Nat /\ rows \in Nat
      BY <2>1, <3>1, Layout
    <3>. QED  BY <2>1, <3>2, <3>3
  <2>3. /\ up \in WinType /\ SameButView(up, Win) /\ Good(up)
        /\ Above(up) = Larger(0, Above(Win) - n)
    BY <2>1, UpGood
  <2>. HIDE DEF up
  <2>4. Above(up) = Above(Win) - n /\ Above(up) < Above(Win)
    BY <2>1, <2>2, <2>3 DEF Larger
  <2>5. up.rows = rows /\ Newest(up) = Newest(Win) /\ LinesUpTo(up)[Newest(up)] = T
    <3>1. Newest(Win) \in 0 .. Newest(Win)
      BY <2>1, WinFacts
    <3>. QED  BY <2>1, <2>3, <3>1, SameBuffer DEF SameButView
  <2>6. ~AtEnd(up)
    <3>1. /\ DownTo(up) = Above(up) + rows - up.v.bottom_blank /\ up.v.bottom_blank \in 0 .. rows
          /\ (AtEnd(up) <=> DownTo(up) = T)
      BY <2>3, <2>5, Screen DEF Good, Shown
    <3>2. n \in Nat
      BY <2>1
    <3>. HIDE DEF T
    <3>3. up.v.bottom_blank \in Nat
      BY <2>2, <3>1
    <3>4. DownTo(up) < T
      BY <2>2, <2>4, <3>1, <3>2, <3>3
    <3>. QED  BY <2>2, <3>1, <3>4
  <2>7. /\ back \in WinType /\ SameButView(back, up) /\ Good(back)
        /\ Above(back) = Smaller(Above(up) + n, T - rows)
    BY <2>1, <2>3, <2>5, <2>6, DownGood
  <2>. HIDE DEF back
  <2>8. Above(back) = Above(Win)
    BY <2>1, <2>2, <2>4, <2>7 DEF Smaller
  <2>9. back.rows = rows /\ LinesUpTo(back)[Newest(back)] = T
    <3>1. Newest(up) \in 0 .. Newest(up)
      BY <2>3, WinFacts
    <3>. QED  BY <2>3, <2>5, <2>7, <3>1, SameBuffer DEF SameButView
  <2>10. DownTo(back) = DownTo(Win)
    <3>1. /\ DownTo(back) = Above(back) + rows - back.v.bottom_blank
          /\ back.v.bottom_blank \in 0 .. rows
          /\ back.v.bottom_blank > 0 => DownTo(back) = T
      BY <2>7, <2>9, Screen DEF Good, Shown
    <3>. QED  BY <2>2, <2>8, <3>1
  <2>. QED  BY <2>8, <2>10 DEF back, up
<1>. QED  BY <1>1, Invariance, PTL

\* A window that shows the end of the buffer goes on showing it when messages are
\* added by swindow_add, however many are pruned.
THEOREM FollowsOutputHolds == ASSUME MessagesFit PROVE RegularSpec => FollowsOutput
<1>1. ASSUME IInv, [Next /\ RegularStep]_vars
      PROVE  [Adds /\ AtEnd(Win) => AtEnd(Win)']_vars
  <2>. SUFFICES ASSUME RegularStep, Adds, AtEnd(Win)
                PROVE  AtEnd(Win)'
    BY <1>1
  <2>1. AtEnd(Win')
    BY <1>1, AddsKeep DEF Kept
  <2>. QED  BY <2>1
<1>. QED  BY <1>1, Invariance, PTL DEF RegularSpec, FollowsOutput

\* A window scrolled back that does not follow its output stays scrolled back when
\* swindow_add adds messages, also where it takes the window for one at its end.
THEOREM StaysScrolledBackHolds == ASSUME MessagesFit PROVE RegularSpec => StaysScrolledBack
<1>1. ASSUME IInv, [Next /\ RegularStep]_vars
      PROVE  [Adds /\ ~AtEnd(Win) /\ ~scroll_on_output => Below(Win)' >= Below(Win)]_vars
  <2>. SUFFICES ASSUME RegularStep, Adds, ~AtEnd(Win), ~scroll_on_output
                PROVE  Below(Win)' >= Below(Win)
    BY <1>1
  <2>1. Below(Win') >= Below(Win)
    BY <1>1, AddsKeep DEF Kept
  <2>. QED  BY <2>1
<1>. QED  BY <1>1, Invariance, PTL DEF RegularSpec, StaysScrolledBack

\* swindow_prune bounds the buffer of a window that follows its output, also where
\* messages have piled up while it was scrolled back.
THEOREM BufferBoundedHolds == ASSUME MessagesFit PROVE RegularSpec => BufferBounded
<1>1. ASSUME IInv, [Next /\ RegularStep]_vars
      PROVE  [Adds /\ (AtEnd(Win) \/ scroll_on_output) => Bounded(Win)']_vars
  <2>. SUFFICES ASSUME RegularStep, Adds, (AtEnd(Win) \/ scroll_on_output)
                PROVE  Bounded(Win)'
    BY <1>1
  <2>1. Bounded(Win')
    BY <1>1, AddsKeep DEF Kept
  <2>. QED  BY <2>1
<1>. QED  BY <1>1, Invariance, PTL DEF RegularSpec, BufferBounded
=============================================================================
