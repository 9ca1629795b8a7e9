--------------------------- MODULE InputLineProofs ---------------------------
(***************************************************************************)
(* Proofs about InputLine, for every value of its constants: the place in  *)
(* the history is a line that is kept, one line back and one forward is    *)
(* where one was, the cursor is drawn on its character, words are words,   *)
(* completing a name again and again comes back to what was typed, and     *)
(* InputLine implements Editor.                                            *)
(*                                                                         *)
(* The handler of HISTORY_LEN takes the value for the number of lines      *)
(* there are, and some values make the history free the lines it points    *)
(* at.  HistLens is any set, but the theorems about the history are about  *)
(* the behaviours in which /win set HISTORY_LEN is not given such a value  *)
(* (MildHistLen), among them all in which it is not used.                  *)
(***************************************************************************)
EXTENDS InputLine, ListLemmas

\* A value of HISTORY_LEN that prunes nothing, and after which two lines are there
\* before the next one is pruned.  Of the values 0 .. 150 these are all up to 148
\* more than there are lines; 400, the default of the global option, is none.
Harmless(i, n) == n % Word <= MaxHistory /\ n % Word <= Len(i.hist) + (MaxHistory - 2)

\* HISTORY_LEN is set to no other value.
MildHistLen == \A n \in HistLens : inp' = ChangedHistlen(inp, n) => Harmless(inp, n)

LineType ==
    [text : Seq(Letters), cur : Nat, begin : Nat, prompt : Nat, width : Widths,
     hist : Seq(Seq(Letters)), hcur : Nat, hlen : Nat, head : BOOLEAN,
     ok : {"ok", "buffer", "freed"}]

\* A completion that was filled in starts in the text, before the cursor.
BeginOK(i) == i.begin = i.cur \/ (i.prompt <= i.begin /\ i.begin <= i.cur)

\* The lines are where the pointers say, and the count is not so far above
\* the lines there are that fewer than two are left when one is pruned.
KeptOK(i) ==
    /\ i.head /\ i.hcur <= Len(i.hist)
    /\ i.hlen <= MaxHistory /\ i.hlen <= Len(i.hist) + (MaxHistory - 2)

Line(i) == i \in LineType /\ BeginOK(i)
Kept2(i) == i.ok # "freed" /\ (i.ok = "ok" => KeptOK(i))

IInv == Line(inp) /\ Kept2(inp)

-----------------------------------------------------------------------------
(***************************************************************************)
(* The text on either side of the cursor                                   *)
(***************************************************************************)

\* As the refinement mapping of the module has it.
Spot(i) == IF InText(i) THEN At(i) ELSE Len(i.text)
B(i) == SubSeq(i.text, 1, Spot(i))
A(i) == SubSeq(i.text, Spot(i) + 1, Len(i.text))

EdStrings == Strings \cup {<<c>> : c \in Chars \cup {Slash}}
EdWords == AllNames \cup {<<Slash>> \o n : n \in AllNames}

\* What Editor allows to become of the text b before and a after the cursor.
TextStep(b, a, b2, a2) ==
    \/ b2 \o a2 = b \o a
    \/ a2 = a /\ \E s \in EdStrings : b2 = b \o s
    \/ a2 = a /\ \E k \in 0 .. Len(b) : b2 = SubSeq(b, 1, k)
    \/ b2 = b /\ \E k \in 0 .. Len(a) : a2 = SubSeq(a, k + 1, Len(a))
    \/ a2 = a /\ \E k \in 0 .. Len(b), w \in EdWords :
                    \E j \in 1 .. Len(w) + 1 : b2 = SubSeq(b, 1, k) \o SubSeq(w, j, Len(w))
    \/ b2 = <<>> /\ a2 = <<>>

\* An operation on the line alone.
Edited(i, j) ==
    /\ j \in LineType /\ BeginOK(j)
    /\ j.hist = i.hist /\ j.hcur = i.hcur /\ j.hlen = i.hlen /\ j.head = i.head
    /\ j.ok = i.ok \/ j.ok = "buffer"
    /\ TextStep(B(i), A(i), B(j), A(j))

\* Characters, strings and names are made of letters.
LEMMA LettersOf ==
    /\ \A s \in Strings : s \in Seq(Letters)
    /\ \A c \in Chars \cup {Slash} : c \in Letters /\ <<c>> \in Seq(Letters)
<1>1. Chars \subseteq Letters /\ Slash \in Letters
  BY DEF Letters
<1>2. \A s \in Strings : s \in Seq(Letters)
  <2>. SUFFICES ASSUME NEW s \in Strings PROVE s \in Seq(Letters)
    OBVIOUS
  <2>1. s \in Seq(Chars)
    BY InputAssumption
  <2>. QED  BY <1>1, <2>1
<1>3. \A c \in Letters : <<c>> \in Seq(Letters)
  OBVIOUS
<1>. QED  BY <1>1, <1>2, <1>3

\* The text is what stands on either side of the cursor.
LEMMA Sides ==
    ASSUME NEW i \in LineType
    PROVE  /\ Spot(i) \in 0 .. Len(i.text) /\ Len(i.text) \in Nat
           /\ B(i) \in Seq(Letters) /\ A(i) \in Seq(Letters)
           /\ B(i) \o A(i) = i.text /\ Len(B(i)) = Spot(i) /\ Len(A(i)) = Len(i.text) - Spot(i)
           /\ InText(i) => Before(i) = B(i) /\ After(i) = A(i) /\ At(i) = Spot(i)
<1>1. i.text \in Seq(Letters) /\ Len(i.text) \in Nat
  BY DEF LineType
<1>2. Spot(i) \in 0 .. Len(i.text)
  BY <1>1 DEF Spot, InText
<1>3. InText(i) => Before(i) = B(i) /\ After(i) = A(i) /\ At(i) = Spot(i)
  BY DEF Before, After, B, A, Spot
<1>4. /\ B(i) \in Seq(Letters) /\ Len(B(i)) = Spot(i) /\ A(i) \in Seq(Letters)
      /\ Len(A(i)) = Len(i.text) - Spot(i) /\ B(i) \o A(i) = i.text
  BY ZenonT(60), <1>1, <1>2, SplitSeq DEF A, B
<1>. QED  BY <1>1, <1>2, <1>3, <1>4

\* Nothing of the text changes: the cursor may move.
LEMMA SameText ==
    ASSUME NEW i \in LineType, NEW j \in LineType, j.text = i.text
    PROVE  TextStep(B(i), A(i), B(j), A(j))
  BY Sides DEF TextStep

\* A line that is put together of two parts has the cursor between them.
LEMMA PutLine ==
    ASSUME NEW i \in LineType, NEW b \in Seq(Letters), NEW a \in Seq(Letters)
    PROVE  /\ Put(i, b, a) \in LineType /\ BeginOK(Put(i, b, a))
           /\ Put(i, b, a).text = b \o a /\ Put(i, b, a).cur = Len(b) + i.prompt
           /\ Put(i, b, a).begin = Len(b) + i.prompt /\ Put(i, b, a).prompt = i.prompt
           /\ Put(i, b, a).hist = i.hist /\ Put(i, b, a).hcur = i.hcur
           /\ Put(i, b, a).hlen = i.hlen /\ Put(i, b, a).head = i.head
           /\ Put(i, b, a).ok = i.ok
           /\ InText(Put(i, b, a)) /\ B(Put(i, b, a)) = b /\ A(Put(i, b, a)) = a
<1> DEFINE z == Put(i, b, a)
           n == Len(b) + i.prompt
           t == b \o a
<1>1. t \in Seq(Letters) /\ Len(t) = Len(b) + Len(a) /\ Len(b) \in Nat /\ Len(a) \in Nat
  BY ConcatProperties
<1>2. i.prompt \in Nat /\ n \in Nat
  BY <1>1 DEF LineType
<1>3. z = [i EXCEPT !.text = t, !.cur = n, !.begin = n]
  BY DEF Put
<1>. HIDE DEF z, n, t
<1>4. /\ z \in LineType /\ z.text = t /\ z.cur = n /\ z.begin = n /\ z.prompt = i.prompt
      /\ z.hist = i.hist /\ z.hcur = i.hcur /\ z.hlen = i.hlen /\ z.head = i.head /\ z.ok = i.ok
  BY <1>1, <1>2, <1>3 DEF LineType
<1>5. At(z) = Len(b) /\ InText(z) /\ Spot(z) = Len(b)
  BY <1>1, <1>2, <1>4 DEF At, InText, Spot, n
<1>6. B(z) = b /\ A(z) = a
  <2>1. B(z) = SubSeq(t, 1, Len(b)) /\ A(z) = SubSeq(t, Len(b) + 1, Len(t))
    BY <1>4, <1>5 DEF A, B
  <2>. QED  BY <2>1, <1>1, ConcatSplit DEF t
<1>7. BeginOK(z)
  BY <1>4 DEF BeginOK
<1>. QED  BY <1>4, <1>5, <1>6, <1>7 DEF z, n, t

\* The cursor goes to a place.
LEMMA JumpLine ==
    ASSUME NEW i \in LineType, NEW n \in Nat
    PROVE  /\ Jump(i, n) \in LineType /\ Jump(i, n).cur = n /\ Jump(i, n).prompt = i.prompt
           /\ Jump(i, n).text = i.text /\ Jump(i, n).begin = n
           /\ Edited(i, Jump(i, n))
<1> DEFINE z == Jump(i, n)
<1>1. /\ z \in LineType /\ z.text = i.text /\ z.cur = n /\ z.begin = n /\ z.prompt = i.prompt
      /\ z.hist = i.hist /\ z.hcur = i.hcur /\ z.hlen = i.hlen /\ z.head = i.head /\ z.ok = i.ok
  BY DEF LineType, Jump
<1>. HIDE DEF z
<1>2. TextStep(B(i), A(i), B(z), A(z))
  BY <1>1, SameText
<1>3. BeginOK(z)
  BY <1>1 DEF BeginOK
<1>. QED  BY <1>1, <1>2, <1>3 DEF z, Edited

\* A byte outside of the buffer is touched.
LEMMA OutLine ==
    ASSUME NEW i, Line(i)
    PROVE  Edited(i, OutOfBuffer(i))
<1> DEFINE z == OutOfBuffer(i)
<1>1. i \in LineType /\ BeginOK(i)
  BY DEF Line
<1>2. /\ z \in LineType /\ z.text = i.text /\ z.cur = i.cur /\ z.begin = i.begin /\ z.prompt = i.prompt
      /\ z.hist = i.hist /\ z.hcur = i.hcur /\ z.hlen = i.hlen /\ z.head = i.head /\ z.ok = "buffer"
  BY <1>1 DEF LineType, OutOfBuffer
<1>. HIDE DEF z
<1>3. TextStep(B(i), A(i), B(z), A(z))
  BY <1>1, <1>2, SameText
<1>4. BeginOK(z)
  BY <1>1, <1>2 DEF BeginOK
<1>. QED  BY <1>2, <1>3, <1>4 DEF z, Edited

\* The line stays as it is.
LEMMA SameLine == ASSUME NEW i, Line(i) PROVE Edited(i, i)
  BY SameText DEF Line, Edited

\* The parts of the line change as Editor allows.
LEMMA PutEdits ==
    ASSUME NEW i \in LineType, NEW b \in Seq(Letters), NEW a \in Seq(Letters),
           TextStep(B(i), A(i), b, a)
    PROVE  Edited(i, Put(i, b, a))
  BY PutLine DEF Edited

\* A string that goes in at the cursor.
LEMMA PutString ==
    ASSUME NEW i \in LineType, NEW s \in EdStrings
    PROVE  Edited(i, Put(i, B(i) \o s, A(i))) /\ s \in Seq(Letters)
<1>1. s \in Seq(Letters) /\ B(i) \in Seq(Letters) /\ A(i) \in Seq(Letters)
  BY LettersOf, Sides DEF EdStrings
<1>2. B(i) \o s \in Seq(Letters)
  BY <1>1, ConcatProperties
<1>3. TextStep(B(i), A(i), B(i) \o s, A(i))
  BY DEF TextStep
<1>. QED  BY <1>1, <1>2, <1>3, PutEdits

\* Part of what stands before, or after, the cursor is left.
LEMMA PutBefore ==
    ASSUME NEW i \in LineType, NEW k \in 0 .. Len(B(i))
    PROVE  Edited(i, Put(i, SubSeq(B(i), 1, k), A(i)))
<1>1. B(i) \in Seq(Letters) /\ A(i) \in Seq(Letters)
  BY Sides
<1>2. SubSeq(B(i), 1, k) \in Seq(Letters)
  BY <1>1, SplitSeq
<1>3. TextStep(B(i), A(i), SubSeq(B(i), 1, k), A(i))
  BY DEF TextStep
<1>. QED  BY <1>1, <1>2, <1>3, PutEdits

LEMMA PutAfter ==
    ASSUME NEW i \in LineType, NEW k \in 0 .. Len(A(i))
    PROVE  Edited(i, Put(i, B(i), SubSeq(A(i), k + 1, Len(A(i)))))
<1>1. B(i) \in Seq(Letters) /\ A(i) \in Seq(Letters)
  BY Sides
<1>2. SubSeq(A(i), k + 1, Len(A(i))) \in Seq(Letters)
  BY <1>1, SplitSeq
<1>3. TextStep(B(i), A(i), B(i), SubSeq(A(i), k + 1, Len(A(i))))
  BY DEF TextStep
<1>. QED  BY <1>1, <1>2, <1>3, PutEdits

-----------------------------------------------------------------------------
(***************************************************************************)
(* Editing                                                                 *)
(***************************************************************************)

\* input_delete and input_bkspace.
LEMMA DeleteEdits == ASSUME NEW i, Line(i) PROVE Edited(i, Delete(i))
<1>1. CASE ~InText(i)
  BY <1>1, OutLine DEF Delete
<1>2. CASE InText(i) /\ After(i) = <<>>
  BY <1>2, SameLine DEF Delete
<1>3. CASE InText(i) /\ After(i) # <<>>
  <2>1. i \in LineType
    BY DEF Line
  <2>2. A(i) \in Seq(Letters) /\ A(i) # <<>> /\ Before(i) = B(i) /\ After(i) = A(i)
    BY <1>3, <2>1, Sides
  <2>3. Tail(A(i)) = SubSeq(A(i), 2, Len(A(i))) /\ 1 \in 0 .. Len(A(i)) /\ 1 + 1 = 2
    BY <2>2
  <2>4. Delete(i) = Put(i, B(i), SubSeq(A(i), 1 + 1, Len(A(i))))
    BY <1>3, <2>2, <2>3 DEF Delete
  <2>. QED  BY <2>1, <2>3, <2>4, PutAfter
<1>. QED  BY <1>1, <1>2, <1>3

LEMMA BkspaceEdits == ASSUME NEW i, Line(i) PROVE Edited(i, Bkspace(i))
<1>1. CASE ~InText(i)
  BY <1>1, OutLine DEF Bkspace
<1>2. CASE InText(i) /\ At(i) = 0
  BY <1>2, SameLine DEF Bkspace
<1>3. CASE InText(i) /\ At(i) # 0
  <2>1. i \in LineType
    BY DEF Line
  <2>2. /\ B(i) \in Seq(Letters) /\ Before(i) = B(i) /\ After(i) = A(i)
        /\ Len(B(i)) \in Nat /\ Len(B(i)) # 0
    BY <1>3, <2>1, Sides
  <2>3. Front(B(i)) = SubSeq(B(i), 1, Len(B(i)) - 1) /\ Len(B(i)) - 1 \in 0 .. Len(B(i))
    BY <2>2 DEF Front
  <2>4. Bkspace(i) = Put(i, SubSeq(B(i), 1, Len(B(i)) - 1), A(i))
    BY <1>3, <2>2, <2>3 DEF Bkspace
  <2>. QED  BY <2>1, <2>3, <2>4, PutBefore
<1>. QED  BY <1>1, <1>2, <1>3

\* input_insert_str and input_insert.
LEMMA InsertStrEdits == ASSUME NEW i, Line(i), NEW s \in Strings PROVE Edited(i, InsertStr(i, s))
<1>1. CASE Len(i.text) + Len(s) >= InputBufferLen
  BY <1>1, SameLine DEF InsertStr
<1>2. CASE ~(Len(i.text) + Len(s) >= InputBufferLen) /\ ~InText(i)
  BY <1>2, OutLine DEF InsertStr
<1>3. CASE ~(Len(i.text) + Len(s) >= InputBufferLen) /\ InText(i)
  <2>1. i \in LineType /\ s \in EdStrings
    BY DEF Line, EdStrings
  <2>2. InsertStr(i, s) = Put(i, B(i) \o s, A(i))
    BY <1>3, <2>1, Sides DEF InsertStr
  <2>. QED  BY <2>1, <2>2, PutString
<1>. QED  BY <1>1, <1>2, <1>3

LEMMA InsertLine ==
    ASSUME NEW i, Line(i), NEW c \in Chars \cup {Slash}
    PROVE  /\ Edited(i, Insert(i, c))
           /\ Insert(i, c) \in {i, OutOfBuffer(i), Put(i, B(i) \o <<c>>, A(i))}
           /\ InText(i) => Insert(i, c) # OutOfBuffer(i) \/ Insert(i, c) = i
<1>1. CASE Len(i.text) >= InputBufferLen - 1
  BY <1>1, SameLine DEF Insert
<1>2. CASE ~(Len(i.text) >= InputBufferLen - 1) /\ ~InText(i)
  BY <1>2, OutLine DEF Insert
<1>3. CASE ~(Len(i.text) >= InputBufferLen - 1) /\ InText(i)
  <2>1. i \in LineType /\ <<c>> \in EdStrings
    BY DEF Line, EdStrings
  <2>2. B(i) \in Seq(Letters) /\ c \in Letters
    BY <2>1, Sides, LettersOf
  <2>3. Append(B(i), c) = B(i) \o <<c>>
    BY <2>2, AppendIsConcat
  <2>4. Insert(i, c) = Put(i, B(i) \o <<c>>, A(i))
    BY <1>3, <2>1, <2>3, Sides DEF Insert
  <2>5. A(i) \in Seq(Letters) /\ B(i) \o <<c>> \in Seq(Letters)
    BY <2>1, <2>2, <2>3, Sides
  <2>6. Put(i, B(i) \o <<c>>, A(i)).text # OutOfBuffer(i).text
    <3>1. Put(i, B(i) \o <<c>>, A(i)).text = (B(i) \o <<c>>) \o A(i)
      BY <2>1, <2>5, PutLine
    <3>2. Len((B(i) \o <<c>>) \o A(i)) = Len(B(i)) + 1 + Len(A(i))
      BY <2>1, <2>2, <2>5, Sides, ConcatProperties
    <3>3. Len(i.text) = Len(B(i)) + Len(A(i)) /\ OutOfBuffer(i).text = i.text /\ Len(i.text) \in Nat
      BY <2>1, Sides DEF OutOfBuffer, LineType
    <3>. QED  BY <3>1, <3>2, <3>3
  <2>. QED  BY <2>1, <2>4, <2>6, PutString
<1>. QED  BY <1>1, <1>2, <1>3

\* input_clear_line.
LEMMA ClearLineEdits ==
    ASSUME NEW i \in LineType
    PROVE  Edited(i, ClearLine(i)) /\ ClearLine(i).text = <<>>
<1>1. <<>> \in Seq(Letters) /\ <<>> \o <<>> = <<>> /\ TextStep(B(i), A(i), <<>>, <<>>)
  BY DEF TextStep
<1>. QED  BY <1>1, PutLine, PutEdits DEF ClearLine

\* input_clear_to_start and input_clear_to_end.
LEMMA ClearToStartEdits == ASSUME NEW i, Line(i) PROVE Edited(i, ClearToStart(i))
<1>1. CASE ~InText(i)
  BY <1>1, OutLine DEF ClearToStart
<1>2. CASE InText(i)
  <2>1. i \in LineType
    BY DEF Line
  <2>2. SubSeq(B(i), 1, 0) = <<>> /\ 0 \in 0 .. Len(B(i))
    BY <2>1, Sides
  <2>3. ClearToStart(i) = Put(i, SubSeq(B(i), 1, 0), A(i))
    BY <1>2, <2>1, <2>2, Sides DEF ClearToStart
  <2>. QED  BY <2>1, <2>2, <2>3, PutBefore
<1>. QED  BY <1>1, <1>2

LEMMA ClearToEndEdits == ASSUME NEW i, Line(i) PROVE Edited(i, ClearToEnd(i))
<1>1. CASE ~InText(i)
  BY <1>1, OutLine DEF ClearToEnd
<1>2. CASE InText(i)
  <2>1. i \in LineType
    BY DEF Line
  <2>2. A(i) \in Seq(Letters) /\ Len(A(i)) \in 0 .. Len(A(i))
    BY <2>1, Sides
  <2>3. SubSeq(A(i), Len(A(i)) + 1, Len(A(i))) = <<>>
    BY <2>2
  <2>4. ClearToEnd(i) = Put(i, B(i), SubSeq(A(i), Len(A(i)) + 1, Len(A(i))))
    BY <1>2, <2>1, <2>3, Sides DEF ClearToEnd
  <2>. QED  BY <2>1, <2>2, <2>4, PutAfter
<1>. QED  BY <1>1, <1>2

\* The cursor commands.
LEMMA HomeEdits == ASSUME NEW i, Line(i) PROVE Edited(i, Home(i))
  BY JumpLine DEF Home, Line, LineType
LEMMA EndEdits == ASSUME NEW i, Line(i) PROVE Edited(i, End(i))
<1>1. i \in LineType /\ Len(i.text) + i.prompt \in Nat
  BY DEF Line, LineType
<1>. QED  BY <1>1, JumpLine DEF End
LEMMA MoveLeftEdits == ASSUME NEW i, Line(i) PROVE Edited(i, MoveLeft(i))
<1>1. i \in LineType /\ (IF i.cur > i.prompt THEN i.cur - 1 ELSE i.cur) \in Nat
  BY DEF Line, LineType
<1>. QED  BY <1>1, JumpLine DEF MoveLeft
LEMMA MoveRightEdits == ASSUME NEW i, Line(i) PROVE Edited(i, MoveRight(i))
<1>1. i \in LineType /\ (IF i.cur < Len(i.text) + i.prompt THEN i.cur + 1 ELSE i.cur) \in Nat
  BY DEF Line, LineType
<1>. QED  BY <1>1, JumpLine DEF MoveRight

\* The last blank, and the last character that is none, up to n.
LEMMA LastOf ==
    ASSUME NEW t, NEW n \in Nat
    PROVE  /\ LastBlank(t, n) \in 0 .. n
           /\ LastBlank(t, n) # 0 => t[LastBlank(t, n)] = Blank
           /\ \A k \in 1 .. n : k > LastBlank(t, n) => t[k] # Blank
           /\ LastNonBlank(t, n) \in 0 .. n
           /\ LastNonBlank(t, n) # 0 => t[LastNonBlank(t, n)] # Blank
           /\ \A k \in 1 .. n : k > LastNonBlank(t, n) => t[k] = Blank
<1> DEFINE S == {0} \cup {k \in 1 .. n : t[k] = Blank}
           T == {0} \cup {k \in 1 .. n : t[k] # Blank}
<1>1. S \in SUBSET (0 .. n) /\ S # {} /\ T \in SUBSET (0 .. n) /\ T # {}
  OBVIOUS
<1>2. LastBlank(t, n) = Max(S) /\ LastNonBlank(t, n) = Max(T)
  BY DEF LastBlank, LastNonBlank
<1>3. /\ \A k \in S : k # 0 => t[k] = Blank
      /\ \A k \in T : k # 0 => t[k] # Blank
      /\ \A k \in 1 .. n : (k \in S <=> t[k] = Blank) /\ (k \in T <=> t[k] # Blank)
  OBVIOUS
<1>. HIDE DEF S, T
<1>4. Max(S) \in S /\ \A y \in S : y <= Max(S)
  BY <1>1, MaxOf
<1>5. Max(T) \in T /\ \A y \in T : y <= Max(T)
  BY <1>1, MaxOf
<1> DEFINE x == Max(S)
           y == Max(T)
<1>6. x \in 0 .. n /\ y \in 0 .. n /\ (x # 0 => t[x] = Blank) /\ (y # 0 => t[y] # Blank)
  BY <1>1, <1>3, <1>4, <1>5
<1>7. \A k \in 1 .. n : (k \in S => k <= x) /\ (k \in T => k <= y)
  BY <1>4, <1>5
<1>. HIDE DEF x, y
<1>8. \A k \in 1 .. n : (k > x => t[k] # Blank) /\ (k > y => t[k] = Blank)
  BY <1>3, <1>6, <1>7
<1>. QED  BY <1>2, <1>6, <1>8 DEF x, y

\* Where input_prev_word goes to.
BackTo(i) == LastBlank(i.text, LastNonBlank(i.text, Spot(i)))
LEMMA PrevWordLine ==
    ASSUME NEW i, Line(i), InText(i), At(i) # 0
    PROVE  /\ BackTo(i) \in 0 .. Spot(i)
           /\ PrevWord(i) = Jump(i, i.prompt + BackTo(i)) /\ i.prompt + BackTo(i) \in Nat
           /\ InText(PrevWord(i)) /\ At(PrevWord(i)) = BackTo(i)
           /\ Before(PrevWord(i)) = SubSeq(B(i), 1, BackTo(i))
<1>1. i \in LineType /\ i.prompt \in Nat /\ i.text \in Seq(Letters)
  BY DEF Line, LineType
<1>2. Spot(i) \in 0 .. Len(i.text) /\ Len(i.text) \in Nat /\ At(i) = Spot(i)
  BY <1>1, Sides
<1> DEFINE n == LastNonBlank(i.text, Spot(i))
           m == BackTo(i)
<1>3. n \in 0 .. Spot(i)
  BY <1>2, LastOf
<1>4. m \in 0 .. n
  BY <1>2, <1>3, LastOf DEF BackTo
<1>5. PrevWord(i) = Jump(i, i.prompt + m)
  BY <1>2 DEF PrevWord, BackTo
<1>. HIDE DEF n, m
<1>6. m \in 0 .. Spot(i) /\ i.prompt + m \in Nat
  BY <1>1, <1>2, <1>3, <1>4
<1> DEFINE z == PrevWord(i)
<1>7. z.cur = i.prompt + m /\ z.prompt = i.prompt /\ z.text = i.text
  <2> DEFINE q == i.prompt + m
  <2>1. q \in Nat /\ z = Jump(i, q)
    BY <1>5, <1>6
  <2>. HIDE DEF q, z
  <2>2. z.cur = q /\ z.prompt = i.prompt /\ z.text = i.text
    BY <1>1, <2>1, JumpLine
  <2>. QED  BY <2>2 DEF q
<1>8. At(z) = m /\ InText(z)
  BY <1>1, <1>2, <1>6, <1>7 DEF At, InText
<1>9. Before(z) = SubSeq(i.text, 1, m)
  BY <1>7, <1>8 DEF Before
<1>10. SubSeq(B(i), 1, m) = SubSeq(i.text, 1, m)
  BY <1>1, <1>2, <1>6, PrefixOfPrefix DEF B
<1>. QED  BY <1>5, <1>6, <1>8, <1>9, <1>10 DEF m

\* input_prev_word and input_clear_prev_word.
LEMMA PrevWordEdits == ASSUME NEW i, Line(i) PROVE Edited(i, PrevWord(i))
<1>1. CASE ~InText(i)
  BY <1>1, OutLine DEF PrevWord
<1>2. CASE InText(i) /\ At(i) = 0
  BY <1>2, SameLine DEF PrevWord
<1>3. CASE InText(i) /\ At(i) # 0
  BY <1>3, PrevWordLine, JumpLine DEF Line
<1>. QED  BY <1>1, <1>2, <1>3

LEMMA ClearPrevWordEdits == ASSUME NEW i, Line(i) PROVE Edited(i, ClearPrevWord(i))
<1>1. CASE i.cur = i.prompt
  BY <1>1, SameLine DEF ClearPrevWord
<1>2. CASE i.cur # i.prompt /\ ~InText(i)
  BY <1>2, OutLine DEF ClearPrevWord
<1>3. CASE i.cur # i.prompt /\ InText(i)
  <2>1. i \in LineType /\ At(i) # 0
    BY <1>3 DEF Line, LineType, At
  <2>2. Len(B(i)) = Spot(i) /\ After(i) = A(i)
    BY <1>3, <2>1, Sides
  <2>3. BackTo(i) \in 0 .. Len(B(i)) /\ Before(PrevWord(i)) = SubSeq(B(i), 1, BackTo(i))
    BY <1>3, <2>1, <2>2, PrevWordLine
  <2>4. ClearPrevWord(i) = Put(i, SubSeq(B(i), 1, BackTo(i)), A(i))
    BY <1>3, <2>2, <2>3 DEF ClearPrevWord
  <2>. QED  BY <2>1, <2>3, <2>4, PutBefore
<1>. QED  BY <1>1, <1>2, <1>3

\* The first character from a place on that is, or is not, a blank.
FirstNonBlank(t, m) == Min({Len(t) + 1} \cup {k \in m .. Len(t) : t[k] # Blank})
FirstBlank(t, m)    == Min({Len(t) + 1} \cup {k \in m .. Len(t) : t[k] = Blank})
LEMMA FirstOf ==
    ASSUME NEW t, Len(t) \in Nat, NEW m \in 1 .. Len(t) + 1
    PROVE  /\ FirstNonBlank(t, m) \in m .. Len(t) + 1
           /\ FirstNonBlank(t, m) <= Len(t) => t[FirstNonBlank(t, m)] # Blank
           /\ \A k \in m .. Len(t) : k < FirstNonBlank(t, m) => t[k] = Blank
           /\ FirstBlank(t, m) \in m .. Len(t) + 1
           /\ FirstBlank(t, m) <= Len(t) => t[FirstBlank(t, m)] = Blank
           /\ \A k \in m .. Len(t) : k < FirstBlank(t, m) => t[k] # Blank
<1> DEFINE S == {Len(t) + 1} \cup {k \in m .. Len(t) : t[k] # Blank}
           T == {Len(t) + 1} \cup {k \in m .. Len(t) : t[k] = Blank}
<1>1. /\ S \in SUBSET Nat /\ S # {} /\ T \in SUBSET Nat /\ T # {}
      /\ S \in SUBSET (m .. Len(t) + 1) /\ T \in SUBSET (m .. Len(t) + 1)
  OBVIOUS
<1>2. FirstNonBlank(t, m) = Min(S) /\ FirstBlank(t, m) = Min(T)
  BY DEF FirstNonBlank, FirstBlank
<1>3. /\ \A k \in S : k <= Len(t) => t[k] # Blank
      /\ \A k \in T : k <= Len(t) => t[k] = Blank
      /\ \A k \in m .. Len(t) : (k \in S <=> t[k] # Blank) /\ (k \in T <=> t[k] = Blank)
  OBVIOUS
<1>. HIDE DEF S, T
<1>4. Min(S) \in S /\ \A y \in S : Min(S) <= y
  BY <1>1, MinOf
<1>5. Min(T) \in T /\ \A y \in T : Min(T) <= y
  BY <1>1, MinOf
<1> DEFINE x == Min(S)
           y == Min(T)
<1>6. /\ x \in m .. Len(t) + 1 /\ y \in m .. Len(t) + 1
      /\ (x <= Len(t) => t[x] # Blank) /\ (y <= Len(t) => t[y] = Blank)
  BY <1>1, <1>3, <1>4, <1>5
<1>7. \A k \in m .. Len(t) : (k \in S => x <= k) /\ (k \in T => y <= k)
  BY <1>4, <1>5
<1>. HIDE DEF x, y
<1>8. \A k \in m .. Len(t) : (k < x => t[k] = Blank) /\ (k < y => t[k] # Blank)
  BY <1>3, <1>6, <1>7
<1>. QED  BY <1>2, <1>6, <1>8 DEF x, y

\* Where input_next_word goes to.
NextTo(i) ==
    LET word  == FirstNonBlank(i.text, Spot(i) + 1)
        blank == FirstBlank(i.text, word)
    IN  IF blank <= Len(i.text) THEN blank ELSE Len(i.text)
LEMMA NextWordLine ==
    ASSUME NEW i, Line(i), InText(i), At(i) # Len(i.text)
    PROVE  /\ NextTo(i) \in Spot(i) .. Len(i.text)
           /\ NextWord(i) = Jump(i, i.prompt + NextTo(i)) /\ i.prompt + NextTo(i) \in Nat
           /\ InText(NextWord(i)) /\ At(NextWord(i)) = NextTo(i)
           /\ After(NextWord(i)) = SubSeq(A(i), NextTo(i) - Spot(i) + 1, Len(A(i)))
<1> DEFINE t == i.text
           word == FirstNonBlank(t, Spot(i) + 1)
           blank == FirstBlank(t, word)
           m == NextTo(i)
<1>1. i \in LineType /\ i.prompt \in Nat /\ t \in Seq(Letters)
  BY DEF Line, LineType
<1>2. Spot(i) \in 0 .. Len(t) /\ Len(t) \in Nat /\ At(i) = Spot(i)
  BY <1>1, Sides
<1>3. NextWord(i) = Jump(i, i.prompt + m)
  BY <1>2 DEF NextWord, NextTo, FirstNonBlank, FirstBlank
<1>4. m = IF blank <= Len(t) THEN blank ELSE Len(t)
  BY DEF NextTo
<1>. HIDE DEF m, word
<1>5. word \in Spot(i) + 1 .. Len(t) + 1
  BY <1>2, FirstOf DEF word
<1>6. word \in 1 .. Len(t) + 1
  BY <1>2, <1>5
<1>7. blank \in word .. Len(t) + 1
  BY <1>2, <1>6, FirstOf
<1>8. m \in Spot(i) .. Len(t) /\ i.prompt + m \in Nat
  <2>. HIDE DEF blank
  <2>. QED  BY SMTT(30), <1>1, <1>2, <1>4, <1>5, <1>7
<1> DEFINE z == NextWord(i)
<1>9. z.cur = i.prompt + m /\ z.prompt = i.prompt /\ z.text = t
  <2> DEFINE q == i.prompt + m
  <2>1. q \in Nat /\ z = Jump(i, q)
    BY <1>3, <1>8
  <2>. HIDE DEF q, z
  <2>2. z.cur = q /\ z.prompt = i.prompt /\ z.text = t
    BY <1>1, <2>1, JumpLine
  <2>. QED  BY <2>2 DEF q
<1>10. At(z) = m /\ InText(z)
  BY <1>1, <1>2, <1>8, <1>9 DEF At, InText
<1>11. After(z) = SubSeq(t, m + 1, Len(t))
  BY <1>9, <1>10 DEF After
<1>12. SubSeq(A(i), m - Spot(i) + 1, Len(A(i))) = SubSeq(t, m + 1, Len(t))
  <2> DEFINE d == m - Spot(i)
  <2>1. d \in 0 .. Len(t) - Spot(i) /\ Spot(i) + d + 1 = m + 1
    BY <1>2, <1>8
  <2>2. Len(A(i)) = Len(t) - Spot(i)
    BY <1>1, Sides
  <2>. HIDE DEF d
  <2>3. SubSeq(SubSeq(t, Spot(i) + 1, Len(t)), d + 1, Len(t) - Spot(i)) = SubSeq(t, Spot(i) + d + 1, Len(t))
    BY <1>1, <1>2, <2>1, SuffixOfSuffix
  <2>. QED  BY <2>1, <2>2, <2>3 DEF A, d
<1>. QED  BY <1>3, <1>8, <1>10, <1>11, <1>12 DEF m

\* input_next_word and input_clear_next_word.
LEMMA NextWordEdits == ASSUME NEW i, Line(i) PROVE Edited(i, NextWord(i))
<1>1. CASE ~InText(i)
  BY <1>1, OutLine DEF NextWord
<1>2. CASE InText(i) /\ At(i) = Len(i.text)
  BY <1>2, SameLine DEF NextWord
<1>3. CASE InText(i) /\ At(i) # Len(i.text)
  BY SMTT(30), <1>3, NextWordLine, JumpLine DEF Line
<1>. QED  BY <1>1, <1>2, <1>3

LEMMA ClearNextWordEdits == ASSUME NEW i, Line(i) PROVE Edited(i, ClearNextWord(i))
<1>1. CASE i.cur = Len(i.text) + i.prompt
  BY <1>1, SameLine DEF ClearNextWord
<1>2. CASE i.cur # Len(i.text) + i.prompt /\ ~InText(i)
  BY <1>2, OutLine DEF ClearNextWord
<1>3. CASE i.cur # Len(i.text) + i.prompt /\ InText(i)
  <2>1. i \in LineType /\ At(i) # Len(i.text)
    BY <1>3 DEF Line, LineType, At
  <2>2. Len(A(i)) = Len(i.text) - Spot(i) /\ Before(i) = B(i) /\ Spot(i) \in 0 .. Len(i.text)
        /\ Len(i.text) \in Nat
    BY <1>3, <2>1, Sides
  <2> DEFINE d == NextTo(i) - Spot(i)
  <2>3. NextTo(i) \in Spot(i) .. Len(i.text) /\ After(NextWord(i)) = SubSeq(A(i), d + 1, Len(A(i)))
    BY <1>3, <2>1, NextWordLine
  <2>4. d \in 0 .. Len(A(i))
    BY <2>2, <2>3
  <2>5. ClearNextWord(i) = Put(i, B(i), SubSeq(A(i), d + 1, Len(A(i))))
    BY <1>3, <2>2, <2>3 DEF ClearNextWord
  <2>. HIDE DEF d
  <2>. QED  BY <2>1, <2>4, <2>5, PutAfter
<1>. QED  BY <1>1, <1>2, <1>3

\* input_set_prompt.
LEMMA SetPromptEdits == ASSUME NEW i, Line(i), NEW n \in PromptLens PROVE Edited(i, SetPrompt(i, n))
<1>1. CASE n >= i.width
  BY <1>1, SameLine DEF SetPrompt
<1>2. CASE ~(n >= i.width)
  <2> DEFINE q == (At(i) + n) % Word
             y == Jump(i, q)
             z == [y EXCEPT !.prompt = n]
  <2>1. i \in LineType /\ n \in Nat /\ At(i) \in Int /\ Word \in Nat /\ Word > 0
    BY InputAssumption DEF Line, LineType, At
  <2>2. q \in Nat
    BY <2>1
  <2>3. SetPrompt(i, n) = z
    BY <1>2 DEF SetPrompt
  <2>. HIDE DEF q, y
  <2>4. /\ y \in LineType /\ y.begin = q /\ y.cur = q /\ y.text = i.text /\ y.hist = i.hist
        /\ y.hcur = i.hcur /\ y.hlen = i.hlen /\ y.head = i.head /\ (y.ok = i.ok \/ y.ok = "buffer")
    BY <2>1, <2>2, JumpLine DEF Edited, y
  <2>5. y.ok = i.ok
    BY DEF y, Jump
  <2>6. /\ z \in LineType /\ z.begin = q /\ z.cur = q /\ z.text = i.text /\ z.hist = i.hist
        /\ z.hcur = i.hcur /\ z.hlen = i.hlen /\ z.head = i.head /\ z.ok = i.ok
    <3>1. y.hist = i.hist /\ y.hcur = i.hcur /\ y.hlen = i.hlen /\ y.head = i.head
      BY DEF y, Jump
    <3>. QED  BY <2>1, <2>4, <2>5, <3>1 DEF LineType
  <2>. HIDE DEF z
  <2>7. TextStep(B(i), A(i), B(z), A(z))
    BY <2>1, <2>6, SameText
  <2>. QED  BY <2>3, <2>6, <2>7 DEF Edited, BeginOK
<1>. QED  BY <1>1, <1>2

\* input_resize.
SetWidth(i, w) == [i EXCEPT !.width = w]
LEMMA ResizeEdits == ASSUME NEW i, Line(i), NEW w \in Widths PROVE Edited(i, SetWidth(i, w))
<1> DEFINE z == SetWidth(i, w)
<1>1. i \in LineType /\ BeginOK(i)
  BY DEF Line
<1>2. /\ z \in LineType /\ z.text = i.text /\ z.cur = i.cur /\ z.begin = i.begin /\ z.prompt = i.prompt
      /\ z.hist = i.hist /\ z.hcur = i.hcur /\ z.hlen = i.hlen /\ z.head = i.head /\ z.ok = i.ok
  BY <1>1 DEF LineType, SetWidth
<1>. HIDE DEF z
<1>3. TextStep(B(i), A(i), B(z), A(z))
  BY <1>1, <1>2, SameText
<1>. QED  BY <1>1, <1>2, <1>3 DEF z, Edited, BeginOK

\* cmd_input_send with an argument: the line is used up, whatever it was.
LEMMA SendArgsEdits == ASSUME NEW i, Line(i), NEW s \in Strings PROVE Edited(i, SendArgs(i, s))
<1> DEFINE y == SetBuf(i, s)
<1>1. i \in LineType /\ s \in Seq(Letters) /\ Len(s) \in Nat
  BY LettersOf DEF Line
<1>2. CASE Len(s) >= InputBufferLen - 1
  <2>1. y = i
    BY <1>2 DEF SetBuf
  <2>2. Edited(i, i) /\ Edited(i, ClearLine(i))
    BY <1>1, SameLine, ClearLineEdits
  <2>. QED  BY <2>1, <2>2 DEF SendArgs
<1>3. CASE ~(Len(s) >= InputBufferLen - 1)
  <2> DEFINE x == Jump(i, Len(s))
  <2>1. y = [x EXCEPT !.text = s]
    BY <1>3 DEF SetBuf
  <2>2. /\ x \in LineType /\ x.begin = Len(s) /\ x.cur = Len(s) /\ x.hist = i.hist
        /\ x.hcur = i.hcur /\ x.hlen = i.hlen /\ x.head = i.head /\ x.ok = i.ok /\ x.prompt = i.prompt
    <3>1. x \in LineType /\ x.begin = Len(s) /\ x.cur = Len(s) /\ x.prompt = i.prompt
      BY <1>1, JumpLine
    <3>. QED  BY <3>1 DEF Jump
  <2>. HIDE DEF x
  <2>3. /\ y \in LineType /\ y.text = s /\ y.begin = Len(s) /\ y.cur = Len(s) /\ y.hist = i.hist
        /\ y.hcur = i.hcur /\ y.hlen = i.hlen /\ y.head = i.head /\ y.ok = i.ok /\ y.prompt = i.prompt
    BY <1>1, <2>1, <2>2 DEF LineType
  <2>. HIDE DEF y
  <2>4. CASE s = <<>>
    <3>1. Len(y.text) = 0 /\ B(y) = <<>> /\ A(y) = <<>>
      <4>1. Len(y.text) = 0 /\ Len(B(y)) = Spot(y) /\ Spot(y) \in 0 .. Len(y.text)
            /\ Len(A(y)) = Len(y.text) - Spot(y) /\ B(y) \in Seq(Letters) /\ A(y) \in Seq(Letters)
        BY <2>3, <2>4, Sides
      <4>. QED  BY <4>1
    <3>2. TextStep(B(i), A(i), B(y), A(y))
      BY <3>1 DEF TextStep
    <3>3. Edited(i, y)
      BY <2>3, <3>2 DEF Edited, BeginOK
    <3>. QED  BY <2>3, <2>4, <3>3 DEF SendArgs, y
  <2>5. CASE s # <<>>
    <3>1. SendArgs(i, s) = ClearLine(y)
      BY <2>3, <2>5 DEF SendArgs, y
    <3>2. Edited(y, ClearLine(y)) /\ B(ClearLine(y)) = <<>> /\ A(ClearLine(y)) = <<>>
      <4>1. <<>> \in Seq(Letters)
        OBVIOUS
      <4>. QED  BY ZenonT(60), <4>1, <2>3, ClearLineEdits, PutLine DEF ClearLine
    <3>3. TextStep(B(i), A(i), B(ClearLine(y)), A(ClearLine(y)))
      BY <3>2 DEF TextStep
    <3>. QED  BY <2>3, <3>1, <3>2, <3>3 DEF Edited
  <2>. QED  BY <2>4, <2>5
<1>. QED  BY <1>2, <1>3

-----------------------------------------------------------------------------
(***************************************************************************)
(* Completion                                                              *)
(***************************************************************************)

\* The names of a command set.
LEMMA NamesOf ==
    ASSUME NEW names \in Names
    PROVE  /\ names \in Seq(Seq(Letters)) /\ Len(names) \in Nat
           /\ \A k \in 1 .. Len(names) : names[k] \in AllNames /\ names[k] \in Seq(Letters)
<1>1. names \in Seq(Seq(Letters))
  <2>1. CASE names = MainCmds
    BY <2>1, InputAssumption
  <2>2. CASE \E k \in 1 .. Len(SubSets) : names = SubSets[k].names
    <3>1. PICK k \in 1 .. Len(SubSets) : names = SubSets[k].names
      BY <2>2
    <3>2. SubSets[k] \in [type : Seq(Letters \cup {Blank}), names : Seq(Seq(Letters))]
      BY InputAssumption, ElementOfSeq
    <3>. QED  BY <3>1, <3>2
  <2>. QED  BY <2>1, <2>2 DEF Names
<1>2. ToSet(names) \subseteq AllNames
  BY DEF AllNames
<1>. QED  BY <1>1, <1>2, ElementOfSeq DEF ToSet

\* Every name is made of letters.
LEMMA NamesAreSeqs == \A name \in AllNames : name \in Seq(Letters)
<1>. SUFFICES ASSUME NEW name \in AllNames PROVE name \in Seq(Letters)
  OBVIOUS
<1>1. PICK names \in Names : name \in ToSet(names)
  BY DEF AllNames
<1>2. PICK k \in 1 .. Len(names) : name = names[k]
  BY <1>1 DEF ToSet
<1>. QED  BY <1>2, NamesOf

\* The word that is completed starts in the line, the names are those of a
\* set; at the beginning of the line it is the first word.
LEMMA CompletionRange ==
    ASSUME NEW t \in Seq(Letters), t # <<>>, NEW begin \in Int
    PROVE  /\ CompletionOf(t, begin).word \in Nat
           /\ CompletionOf(t, begin).word # 0 => CompletionOf(t, begin).names \in Names
           /\ begin <= 1 => CompletionOf(t, begin).word = 1
<1> DEFINE n    == Len(t)
           S    == {n + 1} \cup {k \in 2 .. n : t[k] = Blank}
           end  == Min(S) - 1
           sets == {k \in 1 .. Len(SubSets) : SameN(SubSets[k].type, Tail(t), end)}
           W    == {n + 1} \cup {k \in end + 1 .. n : t[k] # Blank}
           word == Min(W) - 1
           c    == CompletionOf(t, begin)
<1>1. c = IF end >= begin THEN [word |-> 1, names |-> MainCmds]
          ELSE IF sets = {} THEN [word |-> 0, names |-> <<>>]
          ELSE [word |-> word, names |-> SubSets[Min(sets)].names]
  BY DEF CompletionOf
<1>2. n \in Nat /\ n >= 1
  OBVIOUS
<1>3. end \in Nat /\ end >= 1
  <2>1. S \in SUBSET Nat /\ S # {} /\ \A k \in S : k >= 2
    BY <1>2
  <2>. HIDE DEF S
  <2> DEFINE m == Min(S)
  <2>2. m \in Nat /\ m >= 2 /\ end = m - 1
    BY <2>1, MinOf
  <2>. HIDE DEF m, end
  <2>. QED  BY <2>2
<1>. HIDE DEF end
<1>4. word \in Nat
  <2>1. W \in SUBSET Nat /\ W # {} /\ \A k \in W : k >= 1
    BY <1>2, <1>3
  <2>. HIDE DEF W
  <2> DEFINE m == Min(W)
  <2>2. m \in Nat /\ m >= 1 /\ word = m - 1
    BY <2>1, MinOf
  <2>. HIDE DEF m, word
  <2>. QED  BY <2>2
<1>. HIDE DEF word
<1>5. sets # {} => SubSets[Min(sets)].names \in Names
  <2>1. sets \in SUBSET Nat /\ sets \subseteq 1 .. Len(SubSets)
    OBVIOUS
  <2>. HIDE DEF sets
  <2>2. sets # {} => Min(sets) \in 1 .. Len(SubSets)
    BY <2>1, MinOf
  <2>. QED  BY <2>2 DEF Names
<1>. HIDE DEF sets, c
<1>6. MainCmds \in Names
  BY DEF Names
<1>7. begin <= 1 => end >= begin
  BY <1>3
<1>8. /\ c.word \in Nat /\ (c.word # 0 => c.names \in Names)
      /\ end >= begin => c.word = 1
  <2>1. CASE end >= begin
    BY <2>1, <1>1, <1>6
  <2>2. CASE ~(end >= begin) /\ sets = {}
    BY <2>2, <1>1
  <2>3. CASE ~(end >= begin) /\ sets # {}
    BY <2>3, <1>1, <1>4, <1>5
  <2>. QED  BY <2>1, <2>2, <2>3
<1>. QED  BY <1>7, <1>8 DEF c

\* The name that is chosen is one of the set.
LEMMA ChosenRange ==
    ASSUME NEW names, Len(names) \in Nat, NEW rest, NEW typed, NEW shown, NEW again
    PROVE  ChosenName(names, rest, typed, shown, again) \in 0 .. Len(names)
<1> DEFINE fits  == {k \in 1 .. Len(names) : names[k] # <<>> /\ SameN(names[k], rest, shown)}
           fresh == {k \in fits : Len(names[k]) # shown}
           next  == Min(fits) + 1
           ch    == ChosenName(names, rest, typed, shown, again)
<1>1. ch = IF ~again THEN (IF fresh = {} THEN 0 ELSE Min(fresh))
           ELSE IF fits # {} /\ next <= Len(names) /\ SameN(names[next], rest, typed)
                THEN next ELSE 0
  BY DEF ChosenName
<1>2. /\ fits \in SUBSET Nat /\ fits \subseteq 1 .. Len(names)
      /\ fresh \in SUBSET Nat /\ fresh \subseteq 1 .. Len(names)
  OBVIOUS
<1>. HIDE DEF fits, fresh, ch
<1>3. fresh # {} => Min(fresh) \in 1 .. Len(names)
  BY <1>2, MinOf
<1>4. fits # {} => Min(fits) \in 1 .. Len(names)
  BY <1>2, MinOf
<1>5. fits # {} /\ next <= Len(names) => next \in 1 .. Len(names)
  BY <1>4
<1>. HIDE DEF next
<1>. QED  BY <1>1, <1>3, <1>5 DEF ch

\* What a completion makes of the text before the cursor: what an earlier one
\* added goes, and the end of a name may come.
Completes(j, y, begin, word) ==
    /\ y \in LineType /\ BeginOK(y)
    /\ y.hist = j.hist /\ y.hcur = j.hcur /\ y.hlen = j.hlen /\ y.head = j.head
    /\ y.ok = j.ok \/ y.ok = "buffer"
    /\ A(y) = A(j)
    /\ \/ B(y) = B(j)
       \/ B(y) = SubSeq(B(j), 1, begin)
       \/ /\ begin >= word
          /\ \E name \in AllNames :
                B(y) = SubSeq(B(j), 1, begin) \o SubSeq(name, begin - word + 1, Len(name))

SetBegin(i, n) == [i EXCEPT !.begin = n]
LEMMA FillInCompletes ==
    ASSUME NEW j, Line(j), InText(j), j.begin - j.prompt \in 0 .. At(j),
           NEW pos, NEW word \in Nat, NEW names \in Names
    PROVE  Completes(j, FillIn(j, pos, word, names), j.begin - j.prompt, word)
<1> DEFINE begin   == j.begin - j.prompt
           rest    == SubSeq(j.text, word + 1, Len(j.text))
           chosen  == ChosenName(names, rest, begin - word, pos - word, j.begin # j.cur)
           name    == names[chosen]
           s       == SubSeq(name, begin - word + 1, Len(name))
           b       == SubSeq(B(j), 1, begin)
           removed == Put(j, b, A(j))
           filled  == InsertStr(removed, s)
           y       == FillIn(j, pos, word, names)
<1>1. j \in LineType /\ j.text \in Seq(Letters) /\ j.prompt \in Nat /\ BeginOK(j)
  BY DEF Line, LineType
<1>2. /\ At(j) = Spot(j) /\ Spot(j) \in 0 .. Len(j.text) /\ After(j) = A(j) /\ Len(B(j)) = Spot(j)
      /\ B(j) \in Seq(Letters) /\ A(j) \in Seq(Letters) /\ Len(j.text) \in Nat
  BY <1>1, Sides
<1>3. begin \in 0 .. Len(B(j)) /\ begin \in Nat
  BY <1>2
<1>4. SubSeq(j.text, 1, begin) = b
  BY <1>1, <1>2, PrefixOfPrefix DEF B
<1>5. y = IF chosen = 0 THEN removed
          ELSE IF begin < word THEN OutOfBuffer(j)
          ELSE SetBegin(filled, removed.begin)
  BY <1>2, <1>4 DEF FillIn, SetBegin
<1>6. names \in Seq(Seq(Letters)) /\ Len(names) \in Nat
      /\ \A k \in 1 .. Len(names) : names[k] \in AllNames /\ names[k] \in Seq(Letters)
  BY NamesOf
<1>7. chosen \in 0 .. Len(names)
  <2>. HIDE DEF rest, begin
  <2>. QED  BY <1>6, ChosenRange
<1>. HIDE DEF chosen, y
<1>8. b \in Seq(Letters) /\ Len(b) = begin
  BY <1>2, <1>3, SplitSeq
<1>. HIDE DEF b, removed
<1>9. /\ removed \in LineType /\ BeginOK(removed) /\ InText(removed) /\ B(removed) = b
      /\ A(removed) = A(j) /\ removed.prompt = j.prompt /\ removed.begin = Len(b) + j.prompt
      /\ removed.cur = Len(b) + j.prompt
      /\ removed.hist = j.hist /\ removed.hcur = j.hcur /\ removed.hlen = j.hlen
      /\ removed.head = j.head /\ removed.ok = j.ok
  BY ZenonT(60), <1>1, <1>2, <1>8, PutLine DEF removed
<1>. SUFFICES Completes(j, y, begin, word)
  BY DEF y
<1>10. CASE chosen = 0
  <2>1. y = removed
    BY <1>5, <1>10
  <2>. QED  BY <2>1, <1>9 DEF Completes, b
<1>11. CASE chosen # 0 /\ begin < word
  <2>1. y = OutOfBuffer(j)
    BY <1>5, <1>11
  <2>2. Edited(j, y)
    BY <2>1, OutLine
  <2>3. y.text = j.text /\ y.cur = j.cur /\ y.prompt = j.prompt
    BY <2>1, <1>1 DEF OutOfBuffer, LineType
  <2>4. B(y) = B(j) /\ A(y) = A(j)
    BY <2>3 DEF B, A, Spot, InText, At
  <2>. QED  BY <2>2, <2>4 DEF Completes, Edited
<1>12. CASE chosen # 0 /\ ~(begin < word)
  <2>1. y = SetBegin(filled, removed.begin)
    BY <1>5, <1>12
  <2>2. name \in AllNames /\ name \in Seq(Letters) /\ Len(name) \in Nat
    BY <1>6, <1>7, <1>12
  <2>. HIDE DEF name
  <2>3. s \in Seq(Letters)
    <3>1. begin - word + 1 \in 1 .. begin + 1
      BY <1>3, <1>12
    <3>2. CASE begin - word + 1 <= Len(name) + 1
      <4>1. begin - word \in 0 .. Len(name)
        BY <3>1, <3>2, <1>3, <1>12, <2>2
      <4>. QED  BY <4>1, <2>2, SplitSeq
    <3>3. CASE begin - word + 1 > Len(name) + 1
      BY <3>3, <3>1, <2>2
    <3>. QED  BY <3>1, <3>2, <3>3, <2>2
  <2>. HIDE DEF s
  <2>4. Before(removed) = b /\ After(removed) = A(j)
    BY <1>9, Sides
  <2>5. CASE filled = removed
    <3>1. y = SetBegin(removed, removed.begin)
      BY <2>1, <2>5
    <3>2. y = removed
      BY <3>1, <1>9 DEF SetBegin, LineType
    <3>. QED  BY <3>2, <1>9 DEF Completes, b
  <2>6. CASE filled # removed
    <3> DEFINE t == b \o s
    <3>1. filled = Put(removed, t, A(j))
      BY <2>4, <2>6, <1>9 DEF InsertStr
    <3>. HIDE DEF filled
    <3>2. t \in Seq(Letters) /\ Len(t) = Len(b) + Len(s) /\ Len(b) \in Nat /\ Len(s) \in Nat
      BY <1>8, <2>3, ConcatSeq
    <3>10. t = b \o s
      OBVIOUS
    <3>. HIDE DEF t
    <3>3. /\ filled \in LineType /\ B(filled) = t /\ A(filled) = A(j) /\ InText(filled)
          /\ filled.cur = Len(t) + j.prompt /\ filled.prompt = j.prompt
          /\ filled.hist = j.hist /\ filled.hcur = j.hcur /\ filled.hlen = j.hlen
          /\ filled.head = j.head /\ filled.ok = j.ok
      <4>1. removed \in LineType /\ A(j) \in Seq(Letters) /\ t \in Seq(Letters)
        BY <1>2, <1>9, <3>2
      <4>2. /\ filled \in LineType /\ B(filled) = t /\ A(filled) = A(j) /\ InText(filled)
            /\ filled.cur = Len(t) + removed.prompt /\ filled.prompt = removed.prompt
            /\ filled.hist = removed.hist /\ filled.hcur = removed.hcur
            /\ filled.hlen = removed.hlen /\ filled.head = removed.head
            /\ filled.ok = removed.ok
        BY <3>1, <4>1, PutLine
      <4>. QED  BY <4>2, <1>9
    <3>4. removed.begin \in Nat
      BY <1>9 DEF LineType
    <3>5. /\ y \in LineType /\ y.text = filled.text /\ y.cur = filled.cur /\ y.prompt = j.prompt
          /\ y.begin = removed.begin
          /\ y.hist = j.hist /\ y.hcur = j.hcur /\ y.hlen = j.hlen
          /\ y.head = j.head /\ y.ok = j.ok
      BY <2>1, <3>3, <3>4 DEF LineType, SetBegin
    <3>6. B(y) = t /\ A(y) = A(j)
      BY <3>3, <3>5 DEF B, A, Spot, InText, At
    <3>7. BeginOK(y)
      BY SMTT(30), <3>2, <3>3, <3>5, <1>1, <1>9 DEF BeginOK
    <3>8. begin >= word
      BY <1>3, <1>12
    <3>9. \E nm \in AllNames : B(y) = SubSeq(B(j), 1, begin) \o SubSeq(nm, begin - word + 1, Len(nm))
      BY <3>6, <3>10, <2>2 DEF b, s
    <3>. HIDE DEF begin
    <3>. QED  BY <3>5, <3>6, <3>7, <3>8, <3>9 DEF Completes
  <2>. QED  BY <2>5, <2>6
<1>. QED  BY <1>7, <1>10, <1>11, <1>12

\* A completion changes the end of what stands before the cursor.
LEMMA CompletesEdits ==
    ASSUME NEW i \in LineType, NEW j, NEW y, NEW begin \in 0 .. Len(B(i)), NEW word \in Nat,
           Completes(j, y, begin, word), B(j) = B(i), A(j) = A(i),
           j.hist = i.hist, j.hcur = i.hcur, j.hlen = i.hlen, j.head = i.head, j.ok = i.ok
    PROVE  Edited(i, y)
<1>1. begin \in Nat
  BY Sides
<1>2. TextStep(B(i), A(i), B(y), A(y))
  <2>1. CASE B(y) = B(i)
    BY <2>1 DEF Completes, TextStep
  <2>2. CASE B(y) = SubSeq(B(i), 1, begin)
    BY <2>2 DEF Completes, TextStep
  <2>3. CASE /\ begin >= word
             /\ \E name \in AllNames :
                   B(y) = SubSeq(B(i), 1, begin) \o SubSeq(name, begin - word + 1, Len(name))
    <3>1. PICK name \in AllNames :
              B(y) = SubSeq(B(i), 1, begin) \o SubSeq(name, begin - word + 1, Len(name))
      BY <2>3
    <3>2. name \in Seq(Letters) /\ Len(name) \in Nat
      BY NamesAreSeqs, <3>1
    <3> DEFINE m == begin - word + 1
               n == IF m <= Len(name) + 1 THEN m ELSE Len(name) + 1
    <3>3. m \in Nat /\ m >= 1
      BY <1>1, <2>3
    <3>. HIDE DEF m
    <3>4. n \in 1 .. Len(name) + 1
      BY <3>2, <3>3
    <3>5. SubSeq(name, m, Len(name)) = SubSeq(name, n, Len(name))
      <4>1. CASE m <= Len(name) + 1
        BY <4>1
      <4>2. CASE ~(m <= Len(name) + 1)
        <5>1. n = Len(name) + 1
          BY <4>2
        <5>. HIDE DEF n
        <5>2. SubSeq(name, m, Len(name)) = <<>> /\ SubSeq(name, n, Len(name)) = <<>>
          BY <3>2, <3>3, <4>2, <5>1
        <5>. QED  BY <5>2
      <4>. QED  BY <4>1, <4>2
    <3>6. B(y) = SubSeq(B(i), 1, begin) \o SubSeq(name, n, Len(name))
      BY <3>1, <3>5 DEF m
    <3>. HIDE DEF n
    <3>7. name \in EdWords
      BY DEF EdWords
    <3>. QED  BY <3>4, <3>6, <3>7 DEF Completes, TextStep
  <2>. QED  BY <2>1, <2>2, <2>3 DEF Completes
<1>. QED  BY <1>2 DEF Completes, Edited

\* cmd_input_find_next_cmd, once the start of the completion is set.
FromSlash(j, pos, c) ==
    IF j.text = <<>> \/ Head(j.text) # Slash \/ c.word = 0 THEN j
    ELSE FillIn(j, pos, c.word, c.names)

\* The line the completion starts from, where a name is filled in.
LEMMA FromSlashCompletes ==
    ASSUME NEW j, Line(j), InText(j), j.begin - j.prompt \in 0 .. At(j), NEW pos
    PROVE  \E word \in Nat :
              /\ Completes(j, FromSlash(j, pos, CompletionOf(j.text, j.begin - j.prompt)),
                           j.begin - j.prompt, word)
              /\ j.text # <<>> /\ j.begin - j.prompt <= 1 => word = 1
<1> DEFINE begin == j.begin - j.prompt
           c     == CompletionOf(j.text, begin)
           y     == FromSlash(j, pos, c)
<1>1. j \in LineType /\ j.text \in Seq(Letters) /\ begin \in Int /\ BeginOK(j)
  BY DEF Line, LineType
<1>2. j.text # <<>> => /\ c.word \in Nat /\ (c.word # 0 => c.names \in Names)
                       /\ begin <= 1 => c.word = 1
  BY <1>1, CompletionRange
<1>3. CASE j.text # <<>> /\ Head(j.text) = Slash /\ c.word # 0
  <2>1. Completes(j, FillIn(j, pos, c.word, c.names), begin, c.word)
    BY <1>2, <1>3, FillInCompletes
  <2>2. y = FillIn(j, pos, c.word, c.names)
    BY <1>3 DEF FromSlash
  <2>. HIDE DEF c, y
  <2>. QED  BY <1>2, <1>3, <2>1, <2>2 DEF c, y
<1>4. CASE ~(j.text # <<>> /\ Head(j.text) = Slash /\ c.word # 0)
  <2>1. y = j
    BY <1>4 DEF FromSlash
  <2>. HIDE DEF c
  <2>2. \A w \in Nat : Completes(j, j, begin, w)
    BY <1>1 DEF Completes
  <2>. QED  BY <2>1, <2>2 DEF c
<1>. QED  BY <1>3, <1>4

LEMMA FindNextCmdEdits == ASSUME NEW i, Line(i) PROVE Edited(i, FindNextCmd(i))
<1> DEFINE fresh == i.begin <= i.prompt \/ i.begin >= i.cur
           j     == CASE fresh /\ At(i) = 0 -> Insert(i, Slash)
                      [] fresh /\ At(i) # 0 -> SetBegin(i, i.cur)
                      [] OTHER -> i
           pos   == IF fresh /\ At(i) = 0 THEN 1 ELSE At(i)
           y     == FromSlash(j, pos, CompletionOf(j.text, j.begin - j.prompt))
           begin == j.begin - j.prompt
<1>1. FindNextCmd(i) = IF ~InText(i) THEN OutOfBuffer(i) ELSE y
  BY DEF FindNextCmd, FromSlash, SetBegin
<1>. HIDE DEF pos
<1>2. /\ i \in LineType /\ i.text \in Seq(Letters) /\ i.cur \in Nat /\ i.begin \in Nat
      /\ i.prompt \in Nat /\ BeginOK(i) /\ Len(i.text) \in Nat
  BY DEF Line, LineType
<1>3. /\ Spot(i) \in 0 .. Len(i.text) /\ Len(B(i)) = Spot(i)
      /\ B(i) \in Seq(Letters) /\ A(i) \in Seq(Letters)
  BY <1>2, Sides
<1>. SUFFICES ASSUME InText(i) PROVE Edited(i, y)
  <2>. HIDE DEF y
  <2>. QED  BY <1>1, OutLine
<1>4. At(i) = Spot(i) /\ After(i) = A(i) /\ Before(i) = B(i) /\ At(i) = i.cur - i.prompt
  BY <1>2, Sides DEF At
<1>5. CASE ~fresh
  <2>1. j = i /\ i.begin - i.prompt \in 0 .. At(i)
    BY <1>2, <1>4, <1>5 DEF BeginOK
  <2>. HIDE DEF j
  <2>2. \E word \in Nat : Completes(j, y, begin, word)
    BY <2>1, FromSlashCompletes
  <2>. HIDE DEF y
  <2>. QED  BY <2>1, <2>2, <1>2, <1>3, <1>4, CompletesEdits
<1>6. CASE fresh /\ At(i) # 0
  <2>1. j = SetBegin(i, i.cur)
    BY <1>6
  <2>. HIDE DEF j
  <2>2. /\ j \in LineType /\ j.text = i.text /\ j.cur = i.cur /\ j.begin = i.cur
        /\ j.prompt = i.prompt /\ j.hist = i.hist /\ j.hcur = i.hcur /\ j.hlen = i.hlen
        /\ j.head = i.head /\ j.ok = i.ok
    BY <2>1, <1>2 DEF LineType, SetBegin
  <2>3. Line(j) /\ InText(j) /\ begin = Spot(i) /\ B(j) = B(i) /\ A(j) = A(i) /\ At(j) = At(i)
    BY <2>2, <1>2, <1>4 DEF Line, BeginOK, InText, At, B, A, Spot
  <2>4. begin \in 0 .. At(j) /\ begin \in 0 .. Len(B(i))
    BY <2>3, <1>3, <1>4
  <2>5. \E word \in Nat : Completes(j, y, begin, word)
    BY <2>3, <2>4, FromSlashCompletes
  <2>. HIDE DEF y, begin
  <2>. QED  BY <2>2, <2>3, <2>4, <2>5, <1>2, CompletesEdits
<1>7. CASE fresh /\ At(i) = 0 /\ j = i
  <2>1. i.begin - i.prompt = 0 /\ 0 \in 0 .. At(i) /\ 0 \in 0 .. Len(B(i))
    BY <1>2, <1>3, <1>4, <1>7 DEF BeginOK
  <2>2. j = i
    BY <1>7
  <2>. HIDE DEF j
  <2>3. \E word \in Nat : Completes(j, y, begin, word)
    BY <2>1, <2>2, FromSlashCompletes
  <2>. HIDE DEF y
  <2>. QED  BY <2>1, <2>2, <2>3, <1>2, CompletesEdits
<1>8. CASE fresh /\ At(i) = 0 /\ j # i
  <2> DEFINE t == <<Slash>>
  <2>1. j = Insert(i, Slash)
    BY <1>8
  <2>2. B(i) = <<>> /\ t \in Seq(Letters) /\ Len(t) = 1
    BY <1>3, <1>4, <1>8, LettersOf
  <2>3. Append(B(i), Slash) = t
    BY <2>2
  <2>4. j = Put(i, t, A(i))
    BY <2>1, <2>3, <1>4, <1>8 DEF Insert
  <2>. HIDE DEF j, t
  <2>5. /\ j \in LineType /\ BeginOK(j) /\ InText(j) /\ B(j) = t /\ A(j) = A(i)
        /\ j.begin = 1 + i.prompt /\ j.cur = 1 + i.prompt /\ j.prompt = i.prompt
        /\ j.text = t \o A(i)
        /\ j.hist = i.hist /\ j.hcur = i.hcur /\ j.hlen = i.hlen
        /\ j.head = i.head /\ j.ok = i.ok
    <3>1. /\ j \in LineType /\ BeginOK(j) /\ InText(j) /\ B(j) = t /\ A(j) = A(i)
          /\ j.begin = Len(t) + i.prompt /\ j.cur = Len(t) + i.prompt /\ j.prompt = i.prompt
          /\ j.text = t \o A(i)
          /\ j.hist = i.hist /\ j.hcur = i.hcur /\ j.hlen = i.hlen
          /\ j.head = i.head /\ j.ok = i.ok
      <4>. HIDE DEF y, begin
      <4>. QED  BY ZenonT(60), <2>2, <2>4, <1>2, <1>3, PutLine
    <3>. QED  BY <2>2, <3>1
  <2>6. begin = 1 /\ begin \in 0 .. At(j) /\ Line(j) /\ j.text # <<>>
    <3>1. Len(t \o A(i)) = 1 + Len(A(i)) /\ Len(A(i)) \in Nat
      BY <2>2, <1>3, ConcatSeq
    <3>2. j.text # <<>>
      BY <2>5, <3>1
    <3>. QED  BY <2>5, <3>2, <1>2 DEF At, Line
  <2>7. Completes(j, y, 1, 1)
    <3>1. \E word \in Nat : Completes(j, y, begin, word) /\ (j.text # <<>> /\ begin <= 1 => word = 1)
      BY <2>5, <2>6, FromSlashCompletes
    <3>. HIDE DEF y, begin
    <3>. QED  BY <2>6, <3>1
  <2>. HIDE DEF y, begin
  <2>8. SubSeq(t, 1, 1) = t
    BY <2>2
  <2>9. TextStep(B(i), A(i), B(y), A(y))
    <3>1. CASE B(y) = t
      <4>1. B(i) \o t = t /\ t \in EdStrings
        BY <2>2 DEF EdStrings, t
      <4>. QED  BY <3>1, <4>1, <2>5, <2>7 DEF TextStep, Completes
    <3>2. CASE \E name \in AllNames : B(y) = t \o SubSeq(name, 1 - 1 + 1, Len(name))
      <4>1. PICK name \in AllNames : B(y) = t \o SubSeq(name, 1 - 1 + 1, Len(name))
        BY <3>2
      <4>2. name \in Seq(Letters) /\ Len(name) \in Nat /\ SubSeq(name, 1 - 1 + 1, Len(name)) = name
        BY NamesAreSeqs
      <4> DEFINE w == t \o name
      <4>3. B(y) = w
        BY <4>1, <4>2
      <4>4. w \in EdWords
        BY DEF EdWords, t
      <4>5. w \in Seq(Letters) /\ Len(w) \in Nat
        BY <2>2, <4>2, ConcatSeq
      <4>. HIDE DEF w
      <4>6. SubSeq(B(i), 1, 0) = <<>> /\ SubSeq(w, 1, Len(w)) = w /\ <<>> \o w = w
            /\ 1 \in 1 .. Len(w) + 1 /\ 0 \in 0 .. Len(B(i))
        BY <2>2, <4>5
      <4>7. B(y) = SubSeq(B(i), 1, 0) \o SubSeq(w, 1, Len(w))
        BY <4>3, <4>6
      <4>. QED  BY <4>4, <4>6, <4>7, <2>5, <2>7 DEF TextStep, Completes
    <3>. QED  BY <3>1, <3>2, <2>5, <2>7, <2>8 DEF Completes
  <2>. QED  BY <2>5, <2>7, <2>9 DEF Completes, Edited
<1>. QED  BY <1>5, <1>6, <1>7, <1>8

-----------------------------------------------------------------------------
(***************************************************************************)
(* History                                                                 *)
(***************************************************************************)

\* What Editor allows to become of the line and of the lines kept.
RemembersIn(i, j) ==
    \E k \in 0 .. Len(i.hist) : j.hist = <<B(i) \o A(i)>> \o SubSeq(i.hist, 1, k)
HistStep(i, j) ==
    \/ /\ \E k \in 1 .. Len(i.hist) : B(j) = i.hist[k]
       /\ A(j) = <<>>
       /\ j.hist = i.hist \/ RemembersIn(i, j)
    \/ B(j) = <<>> /\ A(j) = <<>> /\ (j.hist = i.hist \/ RemembersIn(i, j))
    \/ /\ \E k \in 0 .. Len(i.hist) : j.hist = SubSeq(i.hist, 1, k)
       /\ B(j) = B(i) /\ A(j) = A(i)
    \/ B(j) = <<>> /\ A(j) = <<>> /\ j.hist = <<>>

\* An operation on the history, as long as all is well.
Remembered(i, j) ==
    j \in LineType /\ BeginOK(j) /\ KeptOK(j) /\ j.ok = i.ok /\ HistStep(i, j)

\* A line put before the lines kept, and the last ones cut off.
LEMMA PrependPrefix ==
    ASSUME NEW S, NEW s \in Seq(S), NEW e \in S, NEW n \in 0 .. Len(s)
    PROVE  SubSeq(<<e>> \o s, 1, n + 1) = <<e>> \o SubSeq(s, 1, n)
<1> DEFINE a == <<e>> \o s
           b == SubSeq(a, 1, n + 1)
           c == SubSeq(s, 1, n)
           d == <<e>> \o c
<1>1. Len(s) \in Nat /\ n \in Nat
  OBVIOUS
<1>2. /\ a \in Seq(S) /\ Len(a) = Len(s) + 1
      /\ \A j \in 1 .. Len(s) + 1 : a[j] = IF j = 1 THEN e ELSE s[j - 1]
  BY PrependSeq
<1>. HIDE DEF a
<1>3. b \in Seq(S) /\ Len(b) = n + 1 /\ \A k \in 1 .. n + 1 : b[k] = a[k]
  <2>1. n + 1 \in 0 .. Len(a)
    BY <1>1, <1>2
  <2> DEFINE m == n + 1
  <2>. HIDE DEF m
  <2>2. m \in 0 .. Len(a)
    BY <2>1 DEF m
  <2>3. SubSeq(a, 1, m) \in Seq(S) /\ Len(SubSeq(a, 1, m)) = m /\ \A k \in 1 .. m : SubSeq(a, 1, m)[k] = a[k]
    BY <1>2, <2>2, SplitSeq
  <2>. QED  BY <2>3 DEF m
<1>4. c \in Seq(S) /\ Len(c) = n /\ \A k \in 1 .. n : c[k] = s[k]
  BY SplitSeq
<1>. HIDE DEF b, c
<1>5. /\ d \in Seq(S) /\ Len(d) = n + 1
      /\ \A j \in 1 .. n + 1 : d[j] = IF j = 1 THEN e ELSE c[j - 1]
  <2>1. /\ d \in Seq(S) /\ Len(d) = Len(c) + 1
        /\ \A j \in 1 .. Len(c) + 1 : d[j] = IF j = 1 THEN e ELSE c[j - 1]
    BY <1>4, PrependSeq
  <2>. HIDE DEF d
  <2>. QED  BY <1>4, <2>1
<1>. HIDE DEF d
<1>6. ASSUME NEW k \in 1 .. n + 1 PROVE b[k] = d[k]
  <2>1. k \in 1 .. Len(s) + 1 /\ b[k] = a[k]
    BY <1>1, <1>3
  <2>2. CASE k = 1
    BY <2>1, <2>2, <1>2, <1>5
  <2>3. CASE k # 1
    <3>1. k - 1 \in 1 .. n
      BY <2>3, <1>1
    <3>. QED  BY <2>1, <2>3, <3>1, <1>2, <1>4, <1>5
  <2>. QED  BY <2>2, <2>3
<1>7. b = d
  BY <1>3, <1>5, <1>6, SeqEqual
<1>. QED  BY <1>7 DEF a, b, c, d

\* input_history_add: one line is pruned at most, and two are left then.
WithLine(i) == [i EXCEPT !.hist = <<i.text>> \o @, !.hcur = 0, !.hlen = @ + 1]
LEMMA AddLine ==
    ASSUME NEW i, Line(i), KeptOK(i)
    PROVE  /\ HistoryAdd(i) \in LineType /\ KeptOK(HistoryAdd(i))
           /\ HistoryAdd(i).text = i.text /\ HistoryAdd(i).cur = i.cur
           /\ HistoryAdd(i).begin = i.begin /\ HistoryAdd(i).prompt = i.prompt
           /\ HistoryAdd(i).ok = i.ok /\ HistoryAdd(i).hcur = 0
           /\ \E k \in 0 .. Len(i.hist) :
                 /\ HistoryAdd(i).hist = <<i.text>> \o SubSeq(i.hist, 1, k)
                 /\ Len(i.hist) > 0 => k > 0
<1> DEFINE x    == WithLine(i)
           n    == Len(i.hist)
           over == x.hlen - MaxHistory
           gone == IF over <= 0 THEN 0 ELSE Min({over, Len(x.hist)})
           z    == HistoryAdd(i)
<1>1. /\ i \in LineType /\ i.text \in Seq(Letters) /\ i.hist \in Seq(Seq(Letters))
      /\ i.hlen \in Nat /\ n \in Nat /\ MaxHistory \in Nat /\ MaxHistory > 1 /\ i.head
      /\ i.hlen <= MaxHistory /\ i.hlen <= n + (MaxHistory - 2)
  BY InputAssumption DEF Line, LineType, KeptOK
<1>2. /\ x \in LineType /\ x.text = i.text /\ x.cur = i.cur /\ x.begin = i.begin
      /\ x.prompt = i.prompt /\ x.hist = <<i.text>> \o i.hist /\ x.hcur = 0
      /\ x.hlen = i.hlen + 1 /\ x.head = i.head /\ x.ok = i.ok
  <2> DEFINE h == <<i.text>> \o i.hist
  <2>1. h \in Seq(Seq(Letters))
    BY <1>1, PrependSeq
  <2> DEFINE m == i.hlen + 1
  <2>2. x = [i EXCEPT !.hist = h, !.hcur = 0, !.hlen = m] /\ m \in Nat
    BY <1>1 DEF WithLine
  <2>. HIDE DEF h, x, m, over, gone, z
  <2>3. /\ x \in LineType /\ x.text = i.text /\ x.cur = i.cur /\ x.begin = i.begin
        /\ x.prompt = i.prompt /\ x.hist = h /\ x.hcur = 0
        /\ x.hlen = m /\ x.head = i.head /\ x.ok = i.ok
    BY <1>1, <2>1, <2>2 DEF LineType
  <2>. QED  BY <2>3 DEF h, m
<1>3. Len(x.hist) = n + 1
  BY <1>1, <1>2, PrependSeq
<1>4. z = [x EXCEPT !.hist = SubSeq(@, 1, Len(@) - gone), !.hlen = @ - gone,
                    !.head = @ /\ ~(gone > 0 /\ gone = Len(x.hist))]
  BY <1>1 DEF HistoryAdd, HistoryPrune, WithLine
<1>. HIDE DEF x, z
<1>5. gone \in {0, 1} /\ (gone = 1 => n >= 2 /\ i.hlen = MaxHistory)
      /\ (gone = 0 => i.hlen + 1 <= MaxHistory)
  <2>1. CASE over <= 0
    BY <2>1, <1>1, <1>2
  <2>2. CASE ~(over <= 0)
    <3>1. over = 1 /\ n >= 2 /\ i.hlen = MaxHistory
      BY <2>2, <1>1, <1>2
    <3> DEFINE T == {over, Len(x.hist)}
    <3>2. T \in SUBSET Nat /\ T # {} /\ 1 \in T /\ \A y \in T : y >= 1
      BY SMTT(30), <3>1, <1>1, <1>3
    <3>3. gone = Min(T)
      BY <2>2
    <3>. HIDE DEF T, gone
    <3>4. Min(T) \in T /\ \A y \in T : Min(T) <= y
      BY <3>2, MinOf
    <3>5. gone <= 1 /\ gone >= 1 /\ gone \in Nat
      BY <3>2, <3>3, <3>4
    <3>. QED  BY <3>1, <3>5
  <2>. QED  BY <2>1, <2>2
<1>. HIDE DEF gone
<1> DEFINE k == n - gone
           q == k + 1
<1>6. /\ k \in 0 .. n /\ (n > 0 => k > 0) /\ Len(x.hist) - gone = q
      /\ ~(gone > 0 /\ gone = Len(x.hist))
  BY SMTT(30), <1>1, <1>3, <1>5
<1>7. z = [x EXCEPT !.hist = SubSeq(@, 1, q), !.hlen = @ - gone, !.head = @ /\ TRUE]
  BY <1>4, <1>6
<1>8. SubSeq(x.hist, 1, q) = <<i.text>> \o SubSeq(i.hist, 1, k)
  <2>. HIDE DEF k
  <2>1. k \in 0 .. Len(i.hist)
    BY <1>6
  <2>2. SubSeq(<<i.text>> \o i.hist, 1, k + 1) = <<i.text>> \o SubSeq(i.hist, 1, k)
    BY <1>1, <2>1, PrependPrefix
  <2>. QED  BY <1>2, <2>2
<1>9. SubSeq(x.hist, 1, q) \in Seq(Seq(Letters)) /\ Len(SubSeq(x.hist, 1, q)) = q
  <2>1. q \in 0 .. Len(x.hist)
    BY <1>1, <1>3, <1>6
  <2>2. x.hist \in Seq(Seq(Letters))
    BY <1>2 DEF LineType
  <2>. HIDE DEF q
  <2>. QED  BY <2>1, <2>2, SplitSeq
<1>10. /\ z \in LineType /\ z.text = i.text /\ z.cur = i.cur /\ z.begin = i.begin
       /\ z.prompt = i.prompt /\ z.hist = SubSeq(x.hist, 1, q) /\ z.hcur = 0
       /\ z.hlen = i.hlen + 1 - gone /\ z.head /\ z.ok = i.ok
  <2> DEFINE h == SubSeq(x.hist, 1, q)
             l == i.hlen + 1 - gone
             p == x.head /\ TRUE
  <2>1. z = [x EXCEPT !.hist = h, !.hlen = x.hlen - gone, !.head = p]
    BY <1>7
  <2>5. x.head = TRUE
    BY <1>1, <1>2 DEF LineType
  <2>6. p = TRUE
    BY <2>5
  <2>4. x.hlen - gone = l
    BY <1>1, <1>2, <1>5
  <2>. HIDE DEF p
  <2>2. l \in Nat /\ h \in Seq(Seq(Letters))
    BY SMTT(30), <1>1, <1>5, <1>9
  <2>. HIDE DEF h, l
  <2>3. /\ z \in LineType /\ z.text = i.text /\ z.cur = i.cur /\ z.begin = i.begin
        /\ z.prompt = i.prompt /\ z.hist = h /\ z.hcur = 0 /\ z.hlen = l /\ z.head
        /\ z.ok = i.ok
    BY <1>2, <2>1, <2>2, <2>4, <2>6 DEF LineType
  <2>. QED  BY <2>3 DEF h, l
<1>11. Len(z.hist) = q /\ q \in Nat
  BY <1>1, <1>6, <1>9, <1>10
<1>12. KeptOK(z)
  <2>1. z.hlen <= MaxHistory /\ z.hlen <= Len(z.hist) + (MaxHistory - 2)
    BY SMTT(30), <1>1, <1>5, <1>10, <1>11
  <2>. QED  BY <1>10, <1>11, <2>1 DEF KeptOK
<1>. HIDE DEF k, q
<1>13. \E m \in 0 .. n : z.hist = <<i.text>> \o SubSeq(i.hist, 1, m) /\ (n > 0 => m > 0)
  BY <1>6, <1>8, <1>10
<1>. QED  BY <1>10, <1>12, <1>13 DEF z

\* The place in the history moves to a line that is kept, and the line there
\* is the text.
LEMMA RecallLine ==
    ASSUME NEW i \in LineType, KeptOK(i), NEW k \in 1 .. Len(i.hist)
    PROVE  /\ Recall(i, k) \in LineType /\ BeginOK(Recall(i, k)) /\ KeptOK(Recall(i, k))
           /\ Recall(i, k).text = i.hist[k] /\ Recall(i, k).hist = i.hist
           /\ Recall(i, k).hcur = k /\ Recall(i, k).hlen = i.hlen
           /\ Recall(i, k).head = i.head /\ Recall(i, k).ok = i.ok
           /\ B(Recall(i, k)) = i.hist[k] /\ A(Recall(i, k)) = <<>>
<1> DEFINE x == [i EXCEPT !.hcur = k]
           h == i.hist[k]
           z == Recall(i, k)
<1>1. i.hist \in Seq(Seq(Letters)) /\ Len(i.hist) \in Nat /\ k \in Nat /\ k <= Len(i.hist)
  BY DEF LineType
<1>2. h \in Seq(Letters) /\ <<>> \in Seq(Letters) /\ h \o <<>> = h
  BY <1>1, ElementOfSeq
<1>3. z = Put(x, h, <<>>)
  BY <1>1 DEF Recall
<1>4. /\ x \in LineType /\ x.hist = i.hist /\ x.hcur = k /\ x.hlen = i.hlen /\ x.head = i.head
      /\ x.ok = i.ok
  BY <1>1 DEF LineType
<1>. HIDE DEF x, z, h
<1>5. /\ z \in LineType /\ BeginOK(z) /\ z.text = h \o <<>> /\ z.hist = x.hist
      /\ z.hcur = x.hcur /\ z.hlen = x.hlen /\ z.head = x.head /\ z.ok = x.ok
      /\ B(z) = h /\ A(z) = <<>>
  BY ZenonT(60), <1>2, <1>3, <1>4, PutLine
<1>6. KeptOK(z)
  BY <1>1, <1>4, <1>5 DEF KeptOK
<1>. QED  BY <1>2, <1>4, <1>5, <1>6 DEF z, h

\* An operation that leaves the line and the history as they are.
LEMMA SameHist == ASSUME NEW i, Line(i), KeptOK(i) PROVE Remembered(i, i)
<1>1. i \in LineType /\ BeginOK(i) /\ i.hist \in Seq(Seq(Letters)) /\ Len(i.hist) \in Nat
  BY DEF Line, LineType
<1>2. SubSeq(i.hist, 1, Len(i.hist)) = i.hist /\ Len(i.hist) \in 0 .. Len(i.hist)
  BY <1>1
<1>. QED  BY <1>1, <1>2 DEF Remembered, HistStep

\* input_history_prev.
LEMMA HistoryPrevRemembers ==
    ASSUME NEW i, Line(i), KeptOK(i)
    PROVE  /\ Remembered(i, HistoryPrev(i))
           /\ i.hcur < Len(i.hist) =>
                 /\ HistoryPrev(i).hcur \in 1 .. Len(HistoryPrev(i).hist)
                 /\ IF HistoryPrev(i).hcur = 1 THEN i.hcur = 0 /\ i.text = <<>>
                    ELSE HistoryPrev(i).hist[HistoryPrev(i).hcur - 1]
                         = IF i.hcur = 0 THEN i.text ELSE i.hist[i.hcur]
<1> DEFINE z == HistoryPrev(i)
<1>1. /\ i \in LineType /\ i.hist \in Seq(Seq(Letters)) /\ Len(i.hist) \in Nat /\ i.hcur \in Nat
      /\ i.text \in Seq(Letters) /\ i.head = TRUE /\ i.hcur <= Len(i.hist) /\ BeginOK(i)
  BY DEF Line, LineType, KeptOK
<1>2. (i.hist = <<>>) <=> (Len(i.hist) = 0)
  BY <1>1
<1>3. CASE i.hist = <<>>
  <2>1. z = i
    BY <1>1, <1>3 DEF HistoryPrev
  <2>. HIDE DEF z
  <2>. QED  BY <1>1, <1>2, <1>3, <2>1, SameHist DEF z
<1>4. CASE i.hist # <<>> /\ i.hcur = 0 /\ i.text = <<>>
  <2>1. z = Recall(i, 1) /\ 1 \in 1 .. Len(i.hist)
    BY <1>1, <1>2, <1>4 DEF HistoryPrev
  <2>. HIDE DEF z
  <2>2. /\ z \in LineType /\ BeginOK(z) /\ KeptOK(z) /\ z.hist = i.hist /\ z.hcur = 1
        /\ z.ok = i.ok /\ B(z) = i.hist[1] /\ A(z) = <<>>
    BY <1>1, <2>1, RecallLine
  <2>3. Remembered(i, z)
    BY <2>1, <2>2 DEF Remembered, HistStep
  <2>. QED  BY <1>4, <2>1, <2>2, <2>3 DEF z
<1>5. CASE i.hist # <<>> /\ i.hcur = 0 /\ i.text # <<>>
  <2> DEFINE x == HistoryAdd(i)
  <2>1. z = Recall(x, 2)
    BY <1>1, <1>5 DEF HistoryPrev
  <2>. HIDE DEF x, z
  <2>2. x \in LineType /\ KeptOK(x) /\ x.ok = i.ok
    BY AddLine DEF x
  <2>3. PICK k \in 0 .. Len(i.hist) :
            x.hist = <<i.text>> \o SubSeq(i.hist, 1, k) /\ (Len(i.hist) > 0 => k > 0)
    BY AddLine DEF x
  <2>4. k > 0 /\ k \in Nat
    BY <1>1, <1>2, <1>5, <2>3
  <2> DEFINE h == SubSeq(i.hist, 1, k)
  <2>5. h \in Seq(Seq(Letters)) /\ Len(h) = k /\ h[1] = i.hist[1]
    BY SMTT(30), <1>1, <2>4, SplitSeq
  <2>. HIDE DEF h
  <2>6. x.hist = <<i.text>> \o h
    BY <2>3 DEF h
  <2>7. Len(x.hist) = k + 1 /\ x.hist[1] = i.text /\ x.hist[2] = i.hist[1]
    BY <1>1, <2>4, <2>5, <2>6, PrependSeq
  <2>8. 2 \in 1 .. Len(x.hist)
    BY <2>4, <2>7
  <2>9. /\ z \in LineType /\ BeginOK(z) /\ KeptOK(z) /\ z.hist = x.hist /\ z.hcur = 2
        /\ z.ok = x.ok /\ B(z) = i.hist[1] /\ A(z) = <<>>
    BY <2>1, <2>2, <2>7, <2>8, RecallLine
  <2>10. RemembersIn(i, z)
    BY <1>1, <2>3, <2>9, Sides DEF RemembersIn
  <2>11. 1 \in 1 .. Len(i.hist)
    BY <1>1, <1>2, <1>5
  <2>12. Remembered(i, z)
    BY <2>2, <2>9, <2>10, <2>11 DEF Remembered, HistStep
  <2>13. z.hcur \in 1 .. Len(z.hist) /\ z.hcur # 1 /\ z.hist[z.hcur - 1] = i.text
    BY <2>7, <2>8, <2>9
  <2>. QED  BY <1>5, <2>12, <2>13 DEF z
<1>6. CASE i.hcur # 0 /\ i.hcur < Len(i.hist)
  <2>1. i.hist # <<>> /\ i.hcur + 1 \in 1 .. Len(i.hist) /\ ~(i.hcur > Len(i.hist))
    BY <1>1, <1>2, <1>6
  <2> DEFINE k == i.hcur + 1
  <2>2. z = Recall(i, k) /\ k \in 1 .. Len(i.hist) /\ k # 1 /\ k - 1 = i.hcur
    BY <1>1, <1>6, <2>1 DEF HistoryPrev
  <2>. HIDE DEF k, z
  <2>3. /\ z \in LineType /\ BeginOK(z) /\ KeptOK(z) /\ z.hist = i.hist /\ z.hcur = k
        /\ z.ok = i.ok /\ B(z) = i.hist[k] /\ A(z) = <<>>
    BY <1>1, <2>2, RecallLine
  <2>4. Remembered(i, z)
    BY <2>2, <2>3 DEF Remembered, HistStep
  <2>. QED  BY <1>6, <2>2, <2>3, <2>4 DEF z
<1>7. CASE i.hist # <<>> /\ i.hcur # 0 /\ ~(i.hcur < Len(i.hist))
  <2>1. ~(i.hcur > Len(i.hist)) /\ ~(i.hcur < Len(i.hist))
    BY <1>1, <1>7
  <2>2. z = i
    BY <1>1, <1>7, <2>1 DEF HistoryPrev
  <2>. HIDE DEF z
  <2>. QED  BY <1>7, <2>2, SameHist DEF z
<1>. QED  BY <1>3, <1>4, <1>5, <1>6, <1>7

\* The line is cleared, the place in the history is given up.
Leave(i) == [i EXCEPT !.hcur = 0]
LEMMA LeaveLine ==
    ASSUME NEW i, Line(i), KeptOK(i)
    PROVE  /\ Remembered(i, ClearLine(Leave(i))) /\ ClearLine(Leave(i)).text = <<>>
<1> DEFINE x == Leave(i)
           z == ClearLine(x)
<1>1. i \in LineType /\ i.head = TRUE
  BY DEF Line, LineType, KeptOK
<1>2. /\ x \in LineType /\ x.hist = i.hist /\ x.hcur = 0 /\ x.hlen = i.hlen /\ x.head = i.head
      /\ x.ok = i.ok
  BY <1>1 DEF LineType, Leave
<1>. HIDE DEF x
<1>3. <<>> \in Seq(Letters) /\ <<>> \o <<>> = <<>>
  OBVIOUS
<1>4. /\ z \in LineType /\ BeginOK(z) /\ z.text = <<>> /\ z.hist = x.hist /\ z.hcur = x.hcur
      /\ z.hlen = x.hlen /\ z.head = x.head /\ z.ok = x.ok /\ B(z) = <<>> /\ A(z) = <<>>
  BY <1>2, <1>3, PutLine DEF ClearLine
<1>. HIDE DEF z
<1>5. KeptOK(z)
  <2>1. Len(i.hist) \in Nat
    BY <1>1 DEF LineType
  <2>. QED  BY <1>2, <1>4, <2>1 DEF KeptOK
<1>6. Remembered(i, z)
  BY <1>2, <1>4, <1>5 DEF Remembered, HistStep
<1>. QED  BY <1>4, <1>6 DEF z, x

\* input_history_next.
LEMMA HistoryNextRemembers ==
    ASSUME NEW i, Line(i), KeptOK(i)
    PROVE  /\ Remembered(i, HistoryNext(i))
           /\ i.hcur \in 1 .. Len(i.hist) =>
                 HistoryNext(i).text = IF i.hcur = 1 THEN <<>> ELSE i.hist[i.hcur - 1]
<1> DEFINE z == HistoryNext(i)
<1>1. /\ i \in LineType /\ i.hist \in Seq(Seq(Letters)) /\ Len(i.hist) \in Nat /\ i.hcur \in Nat
      /\ i.hcur <= Len(i.hist)
  BY DEF Line, LineType, KeptOK
<1>2. CASE i.hcur = 0
  <2>1. z = i
    BY <1>2 DEF HistoryNext
  <2>. HIDE DEF z
  <2>. QED  BY <1>2, <2>1, SameHist DEF z
<1>3. CASE i.hcur = 1
  <2>1. i.hist # <<>>
    BY <1>1, <1>3
  <2>2. z = ClearLine(Leave(i))
    BY <1>3, <2>1 DEF HistoryNext, Leave
  <2>. HIDE DEF z
  <2>. QED  BY <1>3, <2>2, LeaveLine DEF z
<1>4. CASE i.hcur # 0 /\ i.hcur # 1
  <2> DEFINE k == i.hcur - 1
  <2>1. k \in 1 .. Len(i.hist) /\ ~(i.hcur > Len(i.hist))
    BY <1>1, <1>4
  <2>2. z = Recall(i, k)
    BY <1>4, <2>1 DEF HistoryNext
  <2>. HIDE DEF z, k
  <2>3. /\ z \in LineType /\ BeginOK(z) /\ KeptOK(z) /\ z.hist = i.hist /\ z.text = i.hist[k]
        /\ z.ok = i.ok /\ B(z) = i.hist[k] /\ A(z) = <<>>
    BY <1>1, <2>1, <2>2, RecallLine
  <2>4. Remembered(i, z)
    BY <2>1, <2>3 DEF Remembered, HistStep
  <2>. QED  BY <1>4, <2>3, <2>4 DEF z, k
<1>. QED  BY <1>2, <1>3, <1>4

\* input_history_clear.
LEMMA HistoryClearRemembers ==
    ASSUME NEW i, Line(i), KeptOK(i) PROVE Remembered(i, HistoryClear(i))
<1> DEFINE x == [i EXCEPT !.hist = <<>>, !.hcur = 0, !.hlen = 0]
           z == ClearLine(x)
<1>1. i \in LineType /\ i.head = TRUE /\ MaxHistory \in Nat /\ MaxHistory > 1
  BY InputAssumption DEF Line, LineType, KeptOK
<1>2. HistoryClear(i) = z
  BY <1>1 DEF HistoryClear
<1>3. /\ x \in LineType /\ x.hist = <<>> /\ x.hcur = 0 /\ x.hlen = 0 /\ x.head = i.head
      /\ x.ok = i.ok
  <2>1. <<>> \in Seq(Seq(Letters))
    OBVIOUS
  <2>. QED  BY <1>1, <2>1 DEF LineType
<1>. HIDE DEF x
<1>4. <<>> \in Seq(Letters) /\ Len(<<>>) = 0
  OBVIOUS
<1>5. /\ z \in LineType /\ BeginOK(z) /\ z.hist = x.hist /\ z.hcur = x.hcur
      /\ z.hlen = x.hlen /\ z.head = x.head /\ z.ok = x.ok /\ B(z) = <<>> /\ A(z) = <<>>
  BY <1>3, <1>4, PutLine DEF ClearLine
<1>. HIDE DEF z
<1>6. KeptOK(z)
  BY <1>1, <1>3, <1>4, <1>5 DEF KeptOK
<1>. QED  BY <1>2, <1>3, <1>5, <1>6 DEF Remembered, HistStep

\* cmd_input_send without an argument.
LEMMA SendRemembers == ASSUME NEW i, Line(i), KeptOK(i) PROVE Remembered(i, Send(i))
<1>1. CASE i.text = <<>>
  BY <1>1, SameHist DEF Send
<1>2. CASE i.text # <<>>
  <2> DEFINE x == HistoryAdd(i)
             z == ClearLine(x)
  <2>1. Send(i) = z
    BY <1>2 DEF Send
  <2>. HIDE DEF x
  <2>2. i \in LineType /\ x \in LineType /\ KeptOK(x) /\ x.ok = i.ok
    BY AddLine DEF x, Line
  <2>3. RemembersIn(i, x)
    <3>1. \E k \in 0 .. Len(i.hist) : x.hist = <<i.text>> \o SubSeq(i.hist, 1, k)
      BY AddLine DEF x
    <3>. QED  BY <2>2, <3>1, Sides DEF RemembersIn
  <2>4. <<>> \in Seq(Letters)
    OBVIOUS
  <2>5. /\ z \in LineType /\ BeginOK(z) /\ z.hist = x.hist /\ z.hcur = x.hcur
        /\ z.hlen = x.hlen /\ z.head = x.head /\ z.ok = x.ok /\ B(z) = <<>> /\ A(z) = <<>>
    BY <2>2, <2>4, PutLine DEF ClearLine
  <2>. HIDE DEF z
  <2>6. KeptOK(z)
    BY <2>2, <2>5 DEF KeptOK
  <2>7. RemembersIn(i, z)
    BY <2>3, <2>5 DEF RemembersIn
  <2>. QED  BY <2>1, <2>2, <2>5, <2>6, <2>7 DEF Remembered, HistStep
<1>. QED  BY <1>1, <1>2

\* wopt_changed_histlen, for a value that does no harm.
LEMMA HistlenRemembers ==
    ASSUME NEW i, Line(i), KeptOK(i), NEW n \in HistLens, Harmless(i, n)
    PROVE  Remembered(i, ChangedHistlen(i, n))
<1> DEFINE m == n % Word
           x == [i EXCEPT !.hlen = m]
           z == ChangedHistlen(i, n)
<1>1. /\ i \in LineType /\ i.head = TRUE /\ i.hist \in Seq(Seq(Letters)) /\ Len(i.hist) \in Nat
      /\ MaxHistory \in Nat /\ i.hcur <= Len(i.hist) /\ BeginOK(i)
  BY InputAssumption DEF Line, LineType, KeptOK
<1>2. m \in Nat /\ m <= MaxHistory /\ m <= Len(i.hist) + (MaxHistory - 2)
  BY InputAssumption DEF Harmless
<1>3. z = HistoryPrune(x)
  BY DEF ChangedHistlen
<1>. HIDE DEF m
<1>4. /\ x \in LineType /\ x.hist = i.hist /\ x.hcur = i.hcur /\ x.hlen = m /\ x.head = TRUE
      /\ x.ok = i.ok /\ x.text = i.text /\ x.cur = i.cur /\ x.begin = i.begin
      /\ x.prompt = i.prompt
  BY <1>1, <1>2 DEF LineType
<1>. HIDE DEF x
<1>5. z = x
  <2>1. x.hlen - MaxHistory <= 0
    BY <1>1, <1>2, <1>4
  <2> DEFINE h == SubSeq(x.hist, 1, Len(x.hist) - 0)
             l == x.hlen - 0
             p == x.head /\ TRUE
  <2>2. z = [x EXCEPT !.hist = h, !.hlen = l, !.head = p]
    BY <1>3, <2>1 DEF HistoryPrune
  <2>3. h = x.hist
    BY <1>1, <1>4
  <2>4. l = x.hlen
    BY <1>2, <1>4
  <2>5. p = x.head
    BY <1>4
  <2>. HIDE DEF h, l, p, z
  <2>. QED  BY <1>4, <2>2, <2>3, <2>4, <2>5 DEF LineType
<1>. HIDE DEF z
<1>6. KeptOK(z)
  BY <1>1, <1>2, <1>4, <1>5 DEF KeptOK
<1>7. B(z) = B(i) /\ A(z) = A(i) /\ BeginOK(z)
  BY <1>1, <1>4, <1>5 DEF B, A, Spot, InText, At, BeginOK
<1>8. z.hist = SubSeq(i.hist, 1, Len(i.hist)) /\ Len(i.hist) \in 0 .. Len(i.hist)
  BY <1>1, <1>4, <1>5
<1>9. z \in LineType /\ z.ok = i.ok
  BY <1>4, <1>5
<1>10. HistStep(i, z)
  BY <1>7, <1>8 DEF HistStep
<1>. QED  BY <1>6, <1>7, <1>9, <1>10 DEF Remembered, z

-----------------------------------------------------------------------------
(***************************************************************************)
(* Steps                                                                   *)
(***************************************************************************)

\* Pruning takes lines away and nothing else of the types.
LEMMA PruneLine ==
    ASSUME NEW i \in LineType
    PROVE  /\ HistoryPrune(i) \in LineType
           /\ HistoryPrune(i).cur = i.cur /\ HistoryPrune(i).begin = i.begin
           /\ HistoryPrune(i).prompt = i.prompt
<1> DEFINE over == i.hlen - MaxHistory
           T    == {over, Len(i.hist)}
           gone == IF over <= 0 THEN 0 ELSE Min(T)
           z    == HistoryPrune(i)
           m    == Len(i.hist) - gone
           h    == SubSeq(i.hist, 1, m)
           l    == i.hlen - gone
           p    == i.head /\ ~(gone > 0 /\ gone = Len(i.hist))
<1>1. i.hist \in Seq(Seq(Letters)) /\ Len(i.hist) \in Nat /\ i.hlen \in Nat /\ MaxHistory \in Nat
  BY InputAssumption DEF LineType
<1>2. gone \in 0 .. Len(i.hist) /\ gone <= i.hlen
  <2>1. CASE over <= 0
    BY <2>1, <1>1
  <2>2. CASE ~(over <= 0)
    <3>1. over \in Nat /\ over <= i.hlen
      BY <1>1, <2>2
    <3>. HIDE DEF over
    <3>2. T \in SUBSET Nat /\ T # {} /\ over \in T /\ Len(i.hist) \in T
      BY <1>1, <3>1
    <3>. HIDE DEF T
    <3>3. Min(T) \in Nat /\ Min(T) <= over /\ Min(T) <= Len(i.hist)
      BY <3>2, MinOf
    <3>4. gone = Min(T)
      BY <2>2
    <3>. HIDE DEF gone
    <3>. QED  BY <1>1, <3>1, <3>3, <3>4
  <2>. QED  BY <2>1, <2>2
<1>3. z = [i EXCEPT !.hist = h, !.hlen = l, !.head = p]
  BY DEF HistoryPrune
<1>. HIDE DEF gone, z
<1>4. m \in 0 .. Len(i.hist) /\ l \in Nat
  BY <1>1, <1>2
<1>. HIDE DEF m, l
<1>5. h \in Seq(Seq(Letters))
  BY <1>1, <1>4, SplitSeq
<1>6. p \in BOOLEAN
  BY DEF LineType
<1>. HIDE DEF h, p
<1>7. z \in LineType /\ z.cur = i.cur /\ z.begin = i.begin /\ z.prompt = i.prompt
  BY <1>3, <1>4, <1>5, <1>6 DEF LineType
<1>. QED  BY <1>7 DEF z

\* So do the operations on the history, whatever HISTORY_LEN is.
LEMMA FreedLine == ASSUME NEW i, Line(i) PROVE Line(Freed(i))
<1>1. i \in LineType /\ BeginOK(i)
  BY DEF Line
<1> DEFINE z == Freed(i)
<1>2. z \in LineType /\ z.cur = i.cur /\ z.begin = i.begin /\ z.prompt = i.prompt
  BY <1>1 DEF Freed, LineType
<1>. HIDE DEF z
<1>3. BeginOK(z)
  BY <1>1, <1>2 DEF BeginOK
<1>. QED  BY <1>2, <1>3 DEF z, Line

LEMMA AddIsLine == ASSUME NEW i, Line(i) PROVE Line(HistoryAdd(i))
<1>1. CASE ~i.head
  BY <1>1, FreedLine DEF HistoryAdd
<1>2. CASE i.head
  <2> DEFINE h == <<i.text>> \o i.hist
             m == i.hlen + 1
             x == [i EXCEPT !.hist = h, !.hcur = 0, !.hlen = m]
             z == HistoryPrune(x)
  <2>1. i \in LineType /\ BeginOK(i)
    BY DEF Line
  <2>2. h \in Seq(Seq(Letters))
    BY <2>1, PrependSeq DEF LineType
  <2>3. m \in Nat
    BY <2>1 DEF LineType
  <2>4. HistoryAdd(i) = z
    BY <1>2 DEF HistoryAdd
  <2>. HIDE DEF h, m
  <2>5. x \in LineType /\ x.cur = i.cur /\ x.begin = i.begin /\ x.prompt = i.prompt
    BY <2>1, <2>2, <2>3 DEF LineType
  <2>. HIDE DEF x
  <2>6. z \in LineType /\ z.cur = i.cur /\ z.begin = i.begin /\ z.prompt = i.prompt
    BY <2>5, PruneLine
  <2>. HIDE DEF z
  <2>. QED  BY <2>1, <2>4, <2>6 DEF Line, BeginOK
<1>. QED  BY <1>1, <1>2

LEMMA RecallIsLine == ASSUME NEW i, Line(i), NEW k \in Nat \ {0} PROVE Line(Recall(i, k))
<1> DEFINE x == [i EXCEPT !.hcur = k]
<1>1. i \in LineType /\ BeginOK(i) /\ i.hist \in Seq(Seq(Letters)) /\ Len(i.hist) \in Nat
  BY DEF Line, LineType
<1>2. x \in LineType /\ x.cur = i.cur /\ x.begin = i.begin /\ x.prompt = i.prompt
  BY <1>1 DEF LineType
<1>3. Recall(i, k) = IF k > Len(i.hist) THEN Freed(x) ELSE Put(x, i.hist[k], <<>>)
  BY DEF Recall
<1>. HIDE DEF x
<1>4. CASE k > Len(i.hist)
  <2>1. Line(x)
    BY <1>1, <1>2 DEF Line, BeginOK
  <2>. QED  BY <1>3, <1>4, <2>1, FreedLine
<1>5. CASE ~(k > Len(i.hist))
  <2>1. k \in 1 .. Len(i.hist)
    BY <1>1, <1>5
  <2> DEFINE h == i.hist[k]
  <2>2. h \in Seq(Letters) /\ <<>> \in Seq(Letters)
    BY <1>1, <2>1, ElementOfSeq
  <2>3. Recall(i, k) = Put(x, h, <<>>)
    BY <1>3, <1>5
  <2>. HIDE DEF h
  <2>4. Put(x, h, <<>>) \in LineType /\ BeginOK(Put(x, h, <<>>))
    BY <1>2, <2>2, PutLine
  <2>. QED  BY <2>3, <2>4 DEF Line
<1>. QED  BY <1>4, <1>5

LEMMA ClearIsLine == ASSUME NEW i \in LineType PROVE Line(ClearLine(i))
  BY ClearLineEdits DEF Edited, Line

LEMMA PrevIsLine == ASSUME NEW i, Line(i) PROVE Line(HistoryPrev(i))
<1>1. /\ i \in LineType /\ i.head \in BOOLEAN /\ i.hcur \in Nat
      /\ i.hist \in Seq(Seq(Letters)) /\ Len(i.hist) \in Nat
  BY DEF Line, LineType
<1>2. CASE i.hist = <<>> /\ i.head
  <2>1. HistoryPrev(i) = i
    BY <1>2 DEF HistoryPrev
  <2>. QED  BY <2>1
<1>3. CASE ~i.head
  <2>1. HistoryPrev(i) = Freed(i)
    BY <1>3 DEF HistoryPrev
  <2>. QED  BY <2>1, FreedLine
<1>4. CASE i.hist # <<>> /\ i.head /\ i.hcur = 0
  <2>1. 1 \in Nat \ {0} /\ 2 \in Nat \ {0}
    OBVIOUS
  <2>2. HistoryPrev(i) = IF i.text = <<>> THEN Recall(i, 1) ELSE Recall(HistoryAdd(i), 2)
    BY <1>4 DEF HistoryPrev
  <2>. QED  BY <2>1, <2>2, AddIsLine, RecallIsLine
<1>5. CASE i.hist # <<>> /\ i.head /\ i.hcur > Len(i.hist)
  <2>1. i.hcur # 0
    BY <1>1, <1>5
  <2>2. HistoryPrev(i) = Freed(i)
    BY <1>5, <2>1 DEF HistoryPrev
  <2>. QED  BY <2>2, FreedLine
<1>6. CASE i.hist # <<>> /\ i.head /\ i.hcur # 0 /\ ~(i.hcur > Len(i.hist))
  <2> DEFINE k == i.hcur + 1
  <2>1. k \in Nat \ {0}
    BY <1>1
  <2>2. HistoryPrev(i) \in {Recall(i, k), i}
    BY <1>6 DEF HistoryPrev
  <2>. HIDE DEF k
  <2>. QED  BY <2>1, <2>2, RecallIsLine
<1>. QED  BY <1>1, <1>2, <1>3, <1>4, <1>5, <1>6

LEMMA NextIsLine == ASSUME NEW i, Line(i) PROVE Line(HistoryNext(i))
<1> DEFINE k == i.hcur - 1
           x == [i EXCEPT !.hcur = 0]
<1>1. i \in LineType /\ i.hcur \in Nat
  BY DEF Line, LineType
<1>2. HistoryNext(i) = i \/ HistoryNext(i) = ClearLine(x) \/ HistoryNext(i) = Freed(i)
      \/ (i.hcur # 0 /\ i.hcur # 1 /\ HistoryNext(i) = Recall(i, k))
      \/ (i.hcur = 1 /\ i.hist = <<>> /\ HistoryNext(i) = Recall(i, k))
  BY DEF HistoryNext
<1>3. i.hcur = 1 /\ i.hist = <<>> => HistoryNext(i) = Freed(i)
  <2>1. SUFFICES ASSUME i.hcur = 1, i.hist = <<>> PROVE HistoryNext(i) = Freed(i)
    OBVIOUS
  <2>2. Len(i.hist) = 0 /\ i.hcur > Len(i.hist)
    BY <2>1
  <2>. QED  BY <2>1, <2>2 DEF HistoryNext
<1>4. i.hcur # 0 /\ i.hcur # 1 => k \in Nat \ {0}
  BY <1>1
<1>5. x \in LineType
  BY <1>1 DEF LineType
<1>. HIDE DEF k, x
<1>. QED  BY <1>2, <1>3, <1>4, <1>5, FreedLine, ClearIsLine, RecallIsLine

LEMMA HistoryClearIsLine == ASSUME NEW i, Line(i) PROVE Line(HistoryClear(i))
<1> DEFINE x == [i EXCEPT !.hist = <<>>, !.hcur = 0, !.hlen = 0]
<1>1. i \in LineType /\ <<>> \in Seq(Seq(Letters))
  BY DEF Line
<1>2. x \in LineType
  BY <1>1 DEF LineType
<1>3. HistoryClear(i) = IF ~i.head THEN Freed(i) ELSE ClearLine(x)
  BY DEF HistoryClear
<1>. HIDE DEF x
<1>. QED  BY <1>2, <1>3, FreedLine, ClearIsLine

LEMMA SendIsLine == ASSUME NEW i, Line(i) PROVE Line(Send(i))
  BY AddIsLine, ClearIsLine DEF Send, Line

LEMMA HistlenIsLine == ASSUME NEW i, Line(i), NEW n \in HistLens PROVE Line(ChangedHistlen(i, n))
<1> DEFINE m == n % Word
           x == [i EXCEPT !.hlen = m]
<1>1. i \in LineType /\ BeginOK(i) /\ m \in Nat
  BY InputAssumption DEF Line
<1>. HIDE DEF m
<1>2. x \in LineType /\ x.cur = i.cur /\ x.begin = i.begin /\ x.prompt = i.prompt
  BY <1>1 DEF LineType
<1>3. ChangedHistlen(i, n) = HistoryPrune(x)
  BY DEF ChangedHistlen, m
<1>. HIDE DEF x
<1>. QED  BY <1>1, <1>2, <1>3, PruneLine DEF Line, BeginOK

\* An operation on the history.
Worked(i, j) ==
    /\ i.ok = "ok" /\ Line(j)
    /\ KeptOK(i) /\ (\A n \in HistLens : j = ChangedHistlen(i, n) => Harmless(i, n))
         => Remembered(i, j)

\* Every action edits the line, works on the history, or changes nothing.
LEMMA NextCases ==
    ASSUME Line(inp), [Next]_inp
    PROVE  Edited(inp, inp') \/ Worked(inp, inp') \/ UNCHANGED inp
<1>1. Line(inp) /\ inp \in LineType
  BY DEF Line
<1>2. CASE Type
  BY <1>1, <1>2, InsertLine DEF Type, Do
<1>3. CASE CmdInsert
  BY <1>1, <1>3, InsertStrEdits DEF CmdInsert, Do
<1>4. CASE CmdDelete
  BY <1>1, <1>4, DeleteEdits DEF CmdDelete, Do
<1>5. CASE CmdBkspace
  BY <1>1, <1>5, BkspaceEdits DEF CmdBkspace, Do
<1>6. CASE CmdClear
  BY <1>1, <1>6, ClearLineEdits DEF CmdClear, Do
<1>7. CASE CmdClearToStart
  BY <1>1, <1>7, ClearToStartEdits DEF CmdClearToStart, Do
<1>8. CASE CmdClearToEnd
  BY <1>1, <1>8, ClearToEndEdits DEF CmdClearToEnd, Do
<1>9. CASE CmdClearPrev
  BY <1>1, <1>9, ClearPrevWordEdits DEF CmdClearPrev, Do
<1>10. CASE CmdClearNext
  BY <1>1, <1>10, ClearNextWordEdits DEF CmdClearNext, Do
<1>11. CASE CmdStart
  BY <1>1, <1>11, HomeEdits DEF CmdStart, Do
<1>12. CASE CmdEnd
  BY <1>1, <1>12, EndEdits DEF CmdEnd, Do
<1>13. CASE CmdLeft
  BY <1>1, <1>13, MoveLeftEdits DEF CmdLeft, Do
<1>14. CASE CmdRight
  BY <1>1, <1>14, MoveRightEdits DEF CmdRight, Do
<1>15. CASE CmdPrevWord
  BY <1>1, <1>15, PrevWordEdits DEF CmdPrevWord, Do
<1>16. CASE CmdNextWord
  BY <1>1, <1>16, NextWordEdits DEF CmdNextWord, Do
<1>17. CASE CmdFindNextCmd
  BY <1>1, <1>17, FindNextCmdEdits DEF CmdFindNextCmd, Do
<1>18. CASE CmdPrompt
  BY <1>1, <1>18, SetPromptEdits DEF CmdPrompt, Do
<1>19. CASE CmdSend
  BY <1>1, <1>19, SendRemembers, SendIsLine DEF CmdSend, Do, Worked
<1>20. CASE CmdSendArgs
  BY <1>1, <1>20, SendArgsEdits DEF CmdSendArgs, Do
<1>21. CASE CmdHistoryPrev
  BY <1>1, <1>21, HistoryPrevRemembers, PrevIsLine DEF CmdHistoryPrev, Do, Worked
<1>22. CASE CmdHistoryNext
  BY <1>1, <1>22, HistoryNextRemembers, NextIsLine DEF CmdHistoryNext, Do, Worked
<1>23. CASE CmdHistoryClear
  BY <1>1, <1>23, HistoryClearRemembers, HistoryClearIsLine DEF CmdHistoryClear, Do, Worked
<1>24. CASE CmdHistoryLen
  <2>1. PICK n \in HistLens : inp' = ChangedHistlen(inp, n) /\ inp.ok = "ok"
    BY <1>24 DEF CmdHistoryLen, Do
  <2>2. KeptOK(inp) /\ Harmless(inp, n) => Remembered(inp, inp')
    BY <1>1, <2>1, HistlenRemembers
  <2>3. Line(inp')
    BY <1>1, <2>1, HistlenIsLine
  <2>. QED  BY <2>1, <2>2, <2>3 DEF Worked
<1>25. CASE Resize
  <2>1. PICK w \in Widths : inp' = SetWidth(inp, w)
    BY <1>25 DEF Resize, Do, SetWidth
  <2>. QED  BY <1>1, <2>1, ResizeEdits
<1>26. CASE Stopped
  BY <1>26 DEF Stopped
<1>27. CASE UNCHANGED inp
  BY <1>27
<1>. QED
  BY <1>2, <1>3, <1>4, <1>5, <1>6, <1>7, <1>8, <1>9, <1>10, <1>11, <1>12, <1>13, <1>14,
     <1>15, <1>16, <1>17, <1>18, <1>19, <1>20, <1>21, <1>22, <1>23, <1>24, <1>25, <1>26,
     <1>27 DEF Next

\* The invariant holds at the start and is kept.
LEMMA InitInv == Init => IInv
<1>. SUFFICES ASSUME NEW w \in Widths, inp = InputInit(w) PROVE IInv
  BY DEF Init
<1>1. <<>> \in Seq(Letters) /\ <<>> \in Seq(Seq(Letters)) /\ Len(<<>>) = 0
  OBVIOUS
<1>2. inp \in LineType
  BY <1>1 DEF InputInit, LineType
<1>3. BeginOK(inp)
  BY DEF InputInit, BeginOK
<1>4. KeptOK(inp) /\ inp.ok = "ok"
  BY <1>1, InputAssumption DEF InputInit, KeptOK
<1>. QED  BY <1>2, <1>3, <1>4 DEF IInv, Line, Kept2

LEMMA NextLine == ASSUME Line(inp), [Next]_inp PROVE Line(inp)'
<1>1. CASE Edited(inp, inp') \/ Worked(inp, inp')
  BY <1>1 DEF Edited, Worked, Line
<1>2. CASE UNCHANGED inp
  BY <1>2 DEF Line, LineType, BeginOK
<1>. QED  BY <1>1, <1>2, NextCases

LEMMA NextInv == ASSUME IInv, [Next]_inp, [MildHistLen]_inp PROVE IInv'
<1>1. Line(inp)'
  BY NextLine DEF IInv
<1>2. CASE Edited(inp, inp')
  <2>1. KeptOK(inp) => KeptOK(inp)'
    BY <1>2 DEF Edited, KeptOK
  <2>2. Kept2(inp)'
    BY <1>2, <2>1 DEF IInv, Kept2, Edited
  <2>. QED  BY <1>1, <2>2 DEF IInv
<1>3. CASE Worked(inp, inp') /\ ~UNCHANGED inp
  BY <1>1, <1>3 DEF IInv, Kept2, Remembered, Worked, MildHistLen
<1>4. CASE UNCHANGED inp
  BY <1>1, <1>4 DEF IInv, Kept2, KeptOK
<1>. QED  BY <1>2, <1>3, <1>4, NextCases DEF IInv

\* The inductive invariant: the cursor and the start of a completion are where
\* BeginOK says, and the count kept beside the history is not so far above the
\* lines there are that an entry into the history could prune the only other
\* one, as long as HISTORY_LEN is not set to a value that makes it so.
THEOREM Invariance == Spec /\ [][MildHistLen]_inp => []IInv
<1>1. Init => IInv
  BY InitInv
<1>2. IInv /\ [Next]_inp /\ [MildHistLen]_inp => IInv'
  BY NextInv
<1>. QED  BY <1>1, <1>2, PTL DEF Spec

\* The place in the history is a line that is still kept: input_history_prev
\* and input_history_next never follow a pointer that input_history_prune has
\* freed, as long as HISTORY_LEN is not set to a value that makes them.
THEOREM PlaceKept == Spec /\ [][MildHistLen]_inp => []PlaceIsKept
<1>1. IInv => PlaceIsKept
  BY DEF IInv, Kept2, KeptOK, PlaceIsKept
<1>. QED  BY <1>1, Invariance, PTL

\* One line back and one forward again is where one was, for every history and
\* every place in it but the oldest: the line half typed is put away and found
\* again, as long as HISTORY_LEN is not set to a value that does harm.
THEOREM ThereAndBack == Spec /\ [][MildHistLen]_inp => []BackAndForth
<1>1. ASSUME IInv PROVE BackAndForth
  <2>. SUFFICES ASSUME inp.ok = "ok", inp.hcur < Len(inp.hist)
                PROVE  HistoryNext(HistoryPrev(inp)).text
                       = IF inp.hcur = 0 THEN inp.text ELSE inp.hist[inp.hcur]
    BY DEF BackAndForth, Sound
  <2> DEFINE i == HistoryPrev(inp)
  <2>1. Line(inp) /\ KeptOK(inp)
    BY <1>1 DEF IInv, Kept2
  <2>2. /\ Remembered(inp, i) /\ i.hcur \in 1 .. Len(i.hist)
        /\ IF i.hcur = 1 THEN inp.hcur = 0 /\ inp.text = <<>>
           ELSE i.hist[i.hcur - 1] = IF inp.hcur = 0 THEN inp.text ELSE inp.hist[inp.hcur]
    BY <2>1, HistoryPrevRemembers
  <2>. HIDE DEF i
  <2>3. Line(i) /\ KeptOK(i)
    BY <2>2 DEF Remembered, Line
  <2>4. HistoryNext(i).text = IF i.hcur = 1 THEN <<>> ELSE i.hist[i.hcur - 1]
    BY <2>2, <2>3, HistoryNextRemembers
  <2>5. HistoryNext(i).text = IF inp.hcur = 0 THEN inp.text ELSE inp.hist[inp.hcur]
    BY <2>2, <2>4
  <2>. QED  BY <2>5 DEF i
<1>. QED  BY <1>1, Invariance, PTL

\* Every operation leaves a line of the types the code declares, with the start
\* of a completion at the cursor, or between the prompt and the cursor: whatever
\* HISTORY_LEN is.
THEOREM LinesAreLines == Spec => []Line(inp)
<1>1. Init => Line(inp)
  BY InitInv DEF IInv
<1>2. Line(inp) /\ [Next]_inp => Line(inp)'
  BY NextLine
<1>. QED  BY <1>1, <1>2, PTL DEF Spec

\* input_partial and input_get_cursor_pos fit: for every prompt narrower than
\* the screen, every width and every text, the column of the cursor shows the
\* character it is on.
THEOREM CursorShown == Spec => []CursorOnItsCharacter
<1>1. ASSUME Line(inp) PROVE CursorOnItsCharacter
  <2> DEFINE w == inp.width
             c == inp.cur
  <2>1. c \in Nat /\ inp.prompt \in Nat /\ w \in Nat /\ w > 0
    <3>1. c \in Nat /\ inp.prompt \in Nat /\ w \in Widths
      BY <1>1 DEF Line, LineType
    <3>2. Widths \subseteq Nat \ {0}
      BY InputAssumption
    <3>. HIDE DEF w, c
    <3>. QED  BY <3>1, <3>2
  <2>. HIDE DEF w, c
  <2> DEFINE d == (c \div w) * w
             m == c % w
  <2>2. d + m = c /\ (c < w => m = c)
    BY <2>1
  <2>3. d \in Int /\ m \in Int
    BY <2>1
  <2>5. Partial(inp) = IF inp.prompt >= w THEN -1 ELSE IF c >= w THEN d - inp.prompt ELSE 0
    BY DEF Partial, c, w
  <2>6. CursorPos(inp) = m /\ At(inp) = c - inp.prompt
    BY DEF CursorPos, At, c, w
  <2>. HIDE DEF d, m
  <2>7. (Partial(inp) # -1)
        => Partial(inp) + CursorPos(inp) - (IF c < w THEN inp.prompt ELSE 0) = At(inp)
    <3>1. CASE inp.prompt >= w
      BY <3>1, <2>5
    <3>2. CASE ~(inp.prompt >= w) /\ c >= w
      BY <3>2, <2>1, <2>2, <2>3, <2>5, <2>6
    <3>3. CASE ~(inp.prompt >= w) /\ ~(c >= w)
      BY <3>3, <2>1, <2>2, <2>3, <2>5, <2>6
    <3>. QED  BY <3>1, <3>2, <3>3
  <2>. QED  BY <2>7 DEF CursorOnItsCharacter, c, w
<1>. QED  BY <1>1, LinesAreLines, PTL

\* The step of Editor that a step of the input line is.
LEMMA StepEdits ==
    ASSUME \/ TextStep(B(inp), A(inp), B(inp'), A(inp')) /\ inp'.hist = inp.hist
           \/ HistStep(inp, inp')
    PROVE  Ed!ENext
<1>1. /\ SubSeq(inp.text, 1, Cursor) = B(inp)
      /\ SubSeq(inp.text, Cursor + 1, Len(inp.text)) = A(inp)
  BY DEF Cursor, B, A, Spot
<1>2. /\ SubSeq(inp.text, 1, Cursor)' = B(inp')
      /\ SubSeq(inp.text, Cursor + 1, Len(inp.text))' = A(inp')
  BY DEF Cursor, B, A, Spot
<1> DEFINE b  == SubSeq(inp.text, 1, Cursor)
           a  == SubSeq(inp.text, Cursor + 1, Len(inp.text))
           h  == inp.hist
<1>3. b = B(inp) /\ a = A(inp) /\ b' = B(inp') /\ a' = A(inp') /\ h' = inp'.hist
  BY SMTT(30), <1>1, <1>2
<1>4. CASE TextStep(B(inp), A(inp), B(inp'), A(inp')) /\ inp'.hist = inp.hist
  <2>1. h' = h
    BY <1>4
  <2>2. CASE b' \o a' = b \o a
    BY <2>1, <2>2 DEF Ed!Move, Ed!ENext
  <2>3. CASE a' = a /\ \E s \in EdStrings : b' = b \o s
    BY <2>1, <2>3 DEF Ed!Insert, Ed!ENext, EdStrings
  <2>4. CASE a' = a /\ \E k \in 0 .. Len(b) : b' = SubSeq(b, 1, k)
    BY <2>1, <2>4 DEF Ed!Erase, Ed!ENext
  <2>5. CASE b' = b /\ \E k \in 0 .. Len(a) : a' = SubSeq(a, k + 1, Len(a))
    BY <2>1, <2>5 DEF Ed!Erase, Ed!ENext
  <2>6. CASE a' = a /\ \E k \in 0 .. Len(b), w \in EdWords :
                 \E j \in 1 .. Len(w) + 1 : b' = SubSeq(b, 1, k) \o SubSeq(w, j, Len(w))
    BY <2>1, <2>6 DEF Ed!Complete, Ed!ENext, EdWords
  <2>7. CASE b' = <<>> /\ a' = <<>>
    BY <2>1, <2>7 DEF Ed!Finish, Ed!ENext
  <2>. QED  BY <1>3, <1>4, <2>2, <2>3, <2>4, <2>5, <2>6, <2>7 DEF TextStep
<1>5. CASE HistStep(inp, inp')
  <2> DEFINE R == \E k \in 0 .. Len(h) : h' = <<b \o a>> \o SubSeq(h, 1, k)
  <2>1. h' = h \/ RemembersIn(inp, inp') => h' = h \/ R
    BY <1>3 DEF RemembersIn
  <2>2. CASE (\E k \in 1 .. Len(h) : b' = h[k]) /\ a' = <<>> /\ (h' = h \/ R)
    BY <2>2 DEF Ed!Recall, Ed!Remembered, Ed!ENext
  <2>3. CASE b' = <<>> /\ a' = <<>> /\ (h' = h \/ R)
    BY <2>3 DEF Ed!Finish, Ed!Remembered, Ed!ENext
  <2>4. CASE (\E k \in 0 .. Len(h) : h' = SubSeq(h, 1, k)) /\ b' = b /\ a' = a
    BY <2>4 DEF Ed!Drop, Ed!ENext
  <2>5. CASE b' = <<>> /\ a' = <<>> /\ h' = <<>>
    BY <2>5 DEF Ed!Wipe, Ed!ENext
  <2>. QED  BY <1>3, <1>5, <2>1, <2>2, <2>3, <2>4, <2>5 DEF HistStep
<1>. QED  BY <1>4, <1>5

\* InputLine implements Editor: an operation changes the text on one side of the
\* cursor only, and puts in its place nothing but what was typed, the end of a
\* command's name or a line of the history; the history only grows at one end
\* by the line and shrinks at the other, as long as HISTORY_LEN is not set to a
\* value that does harm.
THEOREM Implementation == Spec /\ [][MildHistLen]_inp => ImplementsEditor
<1>1. Init => Ed!EInit
  <2>. SUFFICES ASSUME NEW w \in Widths, inp = InputInit(w) PROVE Ed!EInit
    BY DEF Init
  <2>1. inp.text = <<>> /\ inp.hist = <<>> /\ Len(inp.text) = 0
    BY DEF InputInit
  <2>2. Cursor = 0
    <3>1. inp.cur = 0 /\ inp.prompt = 0
      BY DEF InputInit
    <3>. QED  BY <2>1, <3>1 DEF Cursor, InText, At
  <2>3. SubSeq(inp.text, 1, 0) = <<>> /\ SubSeq(inp.text, 0 + 1, Len(inp.text)) = <<>>
    BY <2>1
  <2>. QED  BY <2>1, <2>2, <2>3 DEF Ed!EInit
<1>2. IInv /\ [Next]_inp /\ [MildHistLen]_inp => [Ed!ENext]_(Ed!edVars)
  <2>. SUFFICES ASSUME IInv, [Next]_inp, [MildHistLen]_inp PROVE [Ed!ENext]_(Ed!edVars)
    OBVIOUS
  <2>1. CASE Edited(inp, inp')
    BY <2>1, StepEdits DEF Edited
  <2>2. CASE Worked(inp, inp') /\ ~UNCHANGED inp
    <3>1. KeptOK(inp)
      BY <2>2 DEF IInv, Kept2, Worked
    <3>2. Remembered(inp, inp')
      BY <2>2, <3>1 DEF Worked, MildHistLen
    <3>. QED  BY <3>2, StepEdits DEF Remembered
  <2>3. CASE UNCHANGED inp
    BY <2>3 DEF Ed!edVars, Cursor, InText, At
  <2>. QED  BY <2>1, <2>2, <2>3, NextCases DEF IInv
<1>. QED  BY <1>1, <1>2, Invariance, PTL DEF Spec, ImplementsEditor, Ed!ESpec

-----------------------------------------------------------------------------
(***************************************************************************)
(* Words                                                                   *)
(***************************************************************************)

\* A number that is in a set and above all of it is its Max.
LEMMA IsMax ==
    ASSUME NEW n \in Nat, NEW T \in SUBSET (0 .. n), NEW m \in T, \A y \in T : y <= m
    PROVE  Max(T) = m
<1> DEFINE x == Max(T)
<1>1. x \in T /\ \A y \in T : y <= x
  BY MaxOf
<1>. HIDE DEF x
<1>2. \A y \in T : y \in Nat
  OBVIOUS
<1>3. x = m
  BY <1>1, <1>2
<1>. QED  BY <1>3 DEF x

\* input_prev_word goes to the last start of a word before the cursor.
LEMMA BackToStart ==
    ASSUME NEW t, NEW len \in Nat, len = Len(t), NEW n \in 1 .. len
    PROVE  LastBlank(t, LastNonBlank(t, n)) = Max({0} \cup {k \in WordStarts(t) : k < n})
<1> DEFINE p == LastNonBlank(t, n)
           m == LastBlank(t, p)
           S == {0} \cup {k \in WordStarts(t) : k < n}
<1>1. /\ p \in 0 .. n /\ (p # 0 => t[p] # Blank)
      /\ \A k \in 1 .. n : k > p => t[k] = Blank
  BY LastOf
<1>. HIDE DEF p
<1>2. /\ m \in 0 .. p /\ (m # 0 => t[m] = Blank)
      /\ \A k \in 1 .. p : k > m => t[k] # Blank
  BY <1>1, LastOf
<1>. HIDE DEF m
<1>3. \A k : k \in WordStarts(t) <=> k \in 0 .. len - 1 /\ t[k + 1] # Blank /\ (k = 0 \/ t[k] = Blank)
  BY DEF WordStarts
<1>4. S \in SUBSET (0 .. n) /\ \A k : k \in S <=> k = 0 \/ (k \in WordStarts(t) /\ k < n)
  BY <1>3
<1>. HIDE DEF S
<1>5. m \in S
  <2>1. CASE m = 0
    BY <2>1, <1>4
  <2>2. CASE m # 0
    <3>1. m # p /\ m + 1 \in 1 .. p /\ m + 1 > m /\ m < n /\ m \in 0 .. len - 1
      BY <2>2, <1>1, <1>2
    <3>2. t[m + 1] # Blank /\ t[m] = Blank
      BY <2>2, <3>1, <1>2
    <3>. QED  BY <3>1, <3>2, <1>3, <1>4
  <2>. QED  BY <2>1, <2>2
<1>6. ASSUME NEW y \in S, y > m PROVE FALSE
  <2>1. y \in WordStarts(t) /\ y < n /\ y \in 1 .. n
    BY <1>2, <1>3, <1>4, <1>6
  <2>2. y \in 0 .. len - 1 /\ t[y + 1] # Blank /\ t[y] = Blank
    BY <2>1, <1>2, <1>3, <1>6
  <2>3. y + 1 \in 1 .. n /\ ~(y + 1 > p)
    BY <2>1, <2>2, <1>1
  <2>4. y \in 1 .. p
    BY <2>1, <2>3, <1>1
  <2>. QED  BY <2>2, <2>4, <1>2, <1>6
<1>7. \A y \in S : y <= m
  BY <1>2, <1>4, <1>6
<1>8. Max(S) = m
  <2>1. n \in Nat
    OBVIOUS
  <2>2. S \in SUBSET (0 .. n)
    BY <1>4
  <2>. QED  BY <2>1, <2>2, <1>5, <1>7, IsMax
<1>. QED  BY <1>8 DEF S, m, p

\* From the start of a word input_next_word goes to a place from where
\* input_prev_word goes back to it.
LEMMA ForthAndBack ==
    ASSUME NEW t, NEW len \in Nat, len = Len(t), NEW n \in WordStarts(t), NEW r,
           r = IF FirstBlank(t, FirstNonBlank(t, n + 1)) <= len
               THEN FirstBlank(t, FirstNonBlank(t, n + 1)) ELSE len
    PROVE  r \in n + 1 .. len /\ LastBlank(t, LastNonBlank(t, r)) = n
<1> DEFINE f == FirstNonBlank(t, n + 1)
           q == FirstBlank(t, f)
           p == LastNonBlank(t, r)
           m == LastBlank(t, p)
<1>1. n \in 0 .. len - 1 /\ t[n + 1] # Blank /\ (n = 0 \/ t[n] = Blank)
  BY DEF WordStarts
<1>2. f = n + 1
  <2>1. n + 1 \in 1 .. len + 1
    BY <1>1
  <2>2. f \in n + 1 .. len + 1 /\ \A k \in n + 1 .. len : k < f => t[k] = Blank
    BY <2>1, FirstOf
  <2>. HIDE DEF f
  <2>. QED  BY <1>1, <2>2
<1>. HIDE DEF f
<1>3. /\ q \in n + 1 .. len + 1 /\ (q <= len => t[q] = Blank)
      /\ \A k \in n + 1 .. len : k < q => t[k] # Blank
  <2>1. f \in 1 .. len + 1
    BY <1>1, <1>2
  <2>2. /\ q \in f .. len + 1 /\ (q <= len => t[q] = Blank)
        /\ \A k \in f .. len : k < q => t[k] # Blank
    BY <2>1, FirstOf
  <2>. QED  BY <1>2, <2>2
<1>4. r = IF q <= len THEN q ELSE len
  BY DEF f
<1>. HIDE DEF q
<1>5. q # n + 1 /\ q - 1 \in n + 1 .. len
  BY <1>1, <1>3
<1>6. r \in n + 1 .. len /\ r \in Nat /\ q - 1 \in 1 .. r
  BY <1>1, <1>3, <1>4, <1>5
<1>7. /\ p \in 0 .. r /\ (p # 0 => t[p] # Blank)
      /\ \A k \in 1 .. r : k > p => t[k] = Blank
  BY <1>6, LastOf
<1>. HIDE DEF p
<1>8. t[q - 1] # Blank
  BY <1>1, <1>3, <1>5
<1>9. p = q - 1
  <2>1. ~(q - 1 > p)
    BY <1>6, <1>7, <1>8
  <2>2. CASE q <= len
    <3>1. r = q /\ t[q] = Blank
      BY <2>2, <1>3, <1>4
    <3>2. p # q
      BY <3>1, <1>1, <1>3, <1>7
    <3>. QED  BY <2>1, <3>1, <3>2, <1>1, <1>3, <1>7
  <2>3. CASE ~(q <= len)
    BY <2>1, <2>3, <1>1, <1>3, <1>4, <1>7
  <2>. QED  BY <2>2, <2>3
<1>10. /\ m \in 0 .. p /\ (m # 0 => t[m] = Blank)
       /\ \A k \in 1 .. p : k > m => t[k] # Blank
  BY <1>7, LastOf
<1>. HIDE DEF m
<1>11. ~(m > n)
  <2>. SUFFICES ASSUME m > n PROVE FALSE
    OBVIOUS
  <2>1. m \in n + 1 .. len /\ m < q /\ m # 0
    <3>1. m \in Int /\ n \in Int /\ q \in Int /\ m <= q - 1 /\ q - 1 <= len /\ n >= 0
      BY <1>1, <1>3, <1>5, <1>9, <1>10
    <3>. QED  BY <3>1
  <2>. QED  BY <2>1, <1>3, <1>10
<1>12. ~(m < n)
  <2>. SUFFICES ASSUME m < n PROVE FALSE
    OBVIOUS
  <2>1. n # 0 /\ n \in 1 .. p
    BY <1>1, <1>5, <1>9, <1>10
  <2>. QED  BY <2>1, <1>1, <1>10
<1>13. m = n
  BY <1>1, <1>10, <1>11, <1>12
<1>. QED  BY <1>6, <1>13 DEF m, p

\* input_prev_word and input_next_word, each two loops over the buffer, reach
\* where words start: for every text and every place in it.
THEOREM WordsFound == Spec => []WordsAreWords
<1>1. ASSUME Line(inp) PROVE WordsAreWords
  <2>. SUFFICES ASSUME InText(inp), inp.prompt = 0
                PROVE  /\ At(PrevWord(inp)) = Max({0} \cup {k \in WordStarts(inp.text) : k < At(inp)})
                       /\ At(inp) \in WordStarts(inp.text) => At(PrevWord(NextWord(inp))) = At(inp)
    BY DEF WordsAreWords, Sound
  <2> DEFINE t == inp.text
             n == At(inp)
             len == Len(t)
  <2>1. inp \in LineType /\ t \in Seq(Letters) /\ len \in Nat /\ n \in 0 .. len /\ n = Spot(inp)
    BY <1>1, Sides DEF Line, LineType, Spot, InText
  <2>2. At(PrevWord(inp)) = Max({0} \cup {k \in WordStarts(t) : k < n})
    <3>1. CASE n = 0
      <4>1. PrevWord(inp) = inp
        BY <3>1 DEF PrevWord
      <4> DEFINE S == {0} \cup {k \in WordStarts(t) : k < n}
      <4>2. S = {0}
        BY <3>1, <2>1 DEF WordStarts
      <4>3. Max({0}) = 0
        <5> DEFINE T == {0}
        <5>1. 0 \in Nat /\ T \in SUBSET (0 .. 0) /\ 0 \in T /\ \A y \in T : y <= 0
          OBVIOUS
        <5>. HIDE DEF T
        <5>2. Max(T) = 0
          BY <5>1, IsMax
        <5>. QED  BY <5>2 DEF T
      <4>. QED  BY <3>1, <4>1, <4>2, <4>3
    <3>2. CASE n # 0
      <4>1. At(PrevWord(inp)) = BackTo(inp)
        BY <1>1, <3>2, PrevWordLine
      <4>2. n \in 1 .. len
        BY <3>2, <2>1
      <4>3. BackTo(inp) = LastBlank(t, LastNonBlank(t, n))
        BY <2>1 DEF BackTo
      <4>. HIDE DEF t, n, len
      <4>. QED  BY <2>1, <4>1, <4>2, <4>3, BackToStart DEF len
    <3>. QED  BY <3>1, <3>2
  <2>3. ASSUME n \in WordStarts(t) PROVE At(PrevWord(NextWord(inp))) = n
    <3> DEFINE r == NextTo(inp)
               j == NextWord(inp)
    <3>1. n \in 0 .. len - 1
      BY <2>3 DEF WordStarts
    <3>2. j = Jump(inp, inp.prompt + r) /\ inp.prompt + r \in Nat /\ InText(j) /\ At(j) = r
      BY <1>1, <2>1, <3>1, NextWordLine
    <3>3. r = IF FirstBlank(t, FirstNonBlank(t, n + 1)) <= len
              THEN FirstBlank(t, FirstNonBlank(t, n + 1)) ELSE len
      BY <2>1 DEF NextTo
    <3>. HIDE DEF r, j
    <3>4. r \in n + 1 .. len /\ LastBlank(t, LastNonBlank(t, r)) = n
      <4>1. len = Len(t)
        OBVIOUS
      <4>. HIDE DEF t, n, len
      <4>. QED  BY <2>1, <2>3, <3>3, <4>1, ForthAndBack
    <3>5. Line(j) /\ j.text = t /\ j \in LineType
      <4> DEFINE x == inp.prompt + r
      <4>1. j = Jump(inp, x) /\ x \in Nat
        BY <3>2
      <4>. HIDE DEF x
      <4>. QED  BY <2>1, <4>1, JumpLine DEF Edited, Line
    <3>6. At(j) # 0 /\ Spot(j) = r
      BY <2>1, <3>2, <3>4, <3>5, Sides
    <3>7. At(PrevWord(j)) = BackTo(j)
      BY <3>2, <3>5, <3>6, PrevWordLine
    <3>8. BackTo(j) = n
      BY <3>4, <3>5, <3>6 DEF BackTo
    <3>. QED  BY <3>7, <3>8 DEF j
  <2>. QED  BY <2>2, <2>3
<1>. QED  BY <1>1, LinesAreLines, PTL

-----------------------------------------------------------------------------
(***************************************************************************)
(* Completing again and again                                              *)
(***************************************************************************)

\* A line with the cursor behind something that can be completed afresh.
Completable(i) == Line(i) /\ InText(i) /\ i.begin = i.cur /\ At(i) > 0

\* What is missing of a name of which the word that starts at w has a part, and
\* the line in which it is filled in.
Missing(i, w, name) == SubSeq(name, At(i) - w + 1, Len(name))
Shows(i, w, name) == SetBegin(Put(i, B(i) \o Missing(i, w, name), A(i)), i.begin)

\* A name that starts with what was typed from w on, and is longer.
Fits(i, w, name) ==
    /\ name \in Seq(Letters) /\ At(i) - w < Len(name)
    /\ SubSeq(name, 1, At(i) - w) = SubSeq(B(i), w + 1, Len(B(i)))

\* The smaller of two numbers.
LEMMA MinOfTwo ==
    ASSUME NEW m \in Nat, NEW n \in Nat
    PROVE  Min({m, n}) = IF m <= n THEN m ELSE n
<1> DEFINE T == {m, n}
<1>1. T \in SUBSET Nat /\ T # {} /\ m \in T /\ n \in T /\ \A x \in T : x = m \/ x = n
  OBVIOUS
<1>. HIDE DEF T
<1>2. Min(T) \in T /\ Min(T) <= m /\ Min(T) <= n
  BY <1>1, MinOf
<1>3. Min(T) = m \/ Min(T) = n
  BY <1>1, <1>2
<1> DEFINE x == Min(T)
<1>4. x = IF m <= n THEN m ELSE n
  <2>. HIDE DEF x
  <2>1. x <= m /\ x <= n /\ (x = m \/ x = n)
    BY <1>2, <1>3 DEF x
  <2>. QED  BY <2>1
<1>. QED  BY <1>4 DEF T

\* strncasecmp over no more than there is on one side.
LEMMA SameBeginning ==
    ASSUME NEW S, NEW a \in Seq(S), NEW b \in Seq(S), NEW n \in 0 .. Len(b), SameN(a, b, n)
    PROVE  n <= Len(a) /\ SubSeq(a, 1, n) = SubSeq(b, 1, n)
<1>1. n \in Nat /\ Len(a) \in Nat /\ Len(b) \in Nat /\ n <= Len(b)
  OBVIOUS
<1>2. Min({n, Len(b)}) = n
  BY <1>1, MinOfTwo
<1> DEFINE m == Min({n, Len(a)})
<1>3. m = (IF n <= Len(a) THEN n ELSE Len(a)) /\ m \in 0 .. Len(a)
  BY <1>1, MinOfTwo
<1>4. SubSeq(a, 1, m) = SubSeq(b, 1, n)
  BY <1>1, <1>2 DEF SameN
<1>. HIDE DEF m
<1>5. m = n
  BY <1>1, <1>3, <1>4, SplitSeq
<1>. QED  BY <1>1, <1>3, <1>4, <1>5

\* What stands before the cursor, cut where the word starts.
LEMMA WordCut ==
    ASSUME NEW i, Completable(i), NEW w \in Nat, w <= At(i)
    PROVE  LET p == SubSeq(B(i), 1, w)
               q == SubSeq(B(i), w + 1, Len(B(i)))
           IN  /\ B(i) \in Seq(Letters) /\ A(i) \in Seq(Letters) /\ p \in Seq(Letters) /\ q \in Seq(Letters)
               /\ Len(B(i)) = At(i) /\ At(i) \in Nat /\ Len(p) = w /\ Len(q) = At(i) - w
               /\ p \o q = B(i) /\ i.text = B(i) \o A(i)
<1>1. i \in LineType /\ InText(i)
  BY DEF Completable, Line
<1>2. /\ B(i) \in Seq(Letters) /\ A(i) \in Seq(Letters) /\ Len(B(i)) = At(i) /\ At(i) \in Nat
      /\ B(i) \o A(i) = i.text
  BY <1>1, Sides
<1>3. w \in 0 .. Len(B(i))
  BY <1>2
<1>. QED  BY <1>2, <1>3, SplitSeq

\* The line j is i with a name filled in: the word is the name now, and what was
\* filled in can be taken out again.
Shown(i, w, name, j) ==
    /\ Line(j) /\ InText(j) /\ j.begin = i.begin /\ j.prompt = i.prompt /\ j.ok = i.ok
    /\ B(j) = SubSeq(B(i), 1, w) \o name /\ B(j) = B(i) \o Missing(i, w, name)
    /\ A(j) = A(i) /\ At(j) = w + Len(name)
    /\ j.text = B(i) \o (Missing(i, w, name) \o A(i))
    /\ SubSeq(j.text, w + 1, Len(j.text)) = name \o A(i)
    /\ Put(j, B(i), A(i)) = i

\* That is the line that completing shows.
LEMMA ShowsLine ==
    ASSUME NEW i, Completable(i), NEW w \in Nat, w <= At(i), NEW name, Fits(i, w, name),
           NEW j, j = Shows(i, w, name)
    PROVE  Shown(i, w, name, j)
<1> DEFINE p == SubSeq(B(i), 1, w)
           q == SubSeq(B(i), w + 1, Len(B(i)))
           b == B(i)
           a == A(i)
           n == At(i) - w
           s == Missing(i, w, name)
           x == Put(i, b \o s, a)
<1>1. /\ b \in Seq(Letters) /\ a \in Seq(Letters) /\ p \in Seq(Letters) /\ q \in Seq(Letters)
      /\ Len(b) = At(i) /\ At(i) \in Nat /\ Len(p) = w /\ Len(q) = n /\ p \o q = b /\ i.text = b \o a
  BY WordCut
<1>2. name \in Seq(Letters) /\ n \in 0 .. Len(name) /\ n < Len(name) /\ SubSeq(name, 1, n) = q
  <2>1. name \in Seq(Letters) /\ n < Len(name) /\ SubSeq(name, 1, n) = q
    BY DEF Fits
  <2>2. n \in Nat
    BY <1>1
  <2>. HIDE DEF n, q
  <2>. QED  BY <2>1, <2>2
<1>3. s \in Seq(Letters) /\ q \o s = name /\ Len(s) = Len(name) - n
  BY <1>2, SplitSeq DEF Missing
<1>4. i \in LineType /\ InText(i) /\ i.begin = i.cur /\ i.cur \in Nat /\ i.prompt \in Nat
      /\ i.cur = At(i) + i.prompt
  BY DEF Completable, Line, LineType, At
<1>11. j = SetBegin(x, i.begin)
  BY DEF Shows
<1>. HIDE DEF s, b, a, p, q, n
<1>16. \A u, v, z \in Seq(Letters) : (u \o v) \o z = u \o (v \o z)
  BY ConcatAssociates
<1>5. b \o s \in Seq(Letters) /\ b \o s = p \o name /\ Len(b \o s) = w + Len(name)
  <2>1. (p \o q) \o s = p \o (q \o s)
    BY <1>1, <1>3, <1>16
  <2>2. p \o name = b \o s
    BY <1>1, <1>3, <2>1
  <2>. QED  BY <1>1, <1>2, <1>3, <2>2, ConcatSeq
<1>6. /\ x \in LineType /\ x.text = (b \o s) \o a /\ x.cur = Len(b \o s) + i.prompt
      /\ x.prompt = i.prompt /\ x.ok = i.ok /\ InText(x) /\ B(x) = b \o s /\ A(x) = a
  <2> DEFINE t == b \o s
  <2>1. t \in Seq(Letters)
    BY <1>5
  <2> DEFINE y == Put(i, t, a)
  <2>2. i \in LineType /\ a \in Seq(Letters)
    BY <1>1, <1>4
  <2>3. y = x
    OBVIOUS
  <2>. HIDE DEF t, x
  <2>4. /\ y \in LineType /\ y.text = t \o a /\ y.cur = Len(t) + i.prompt
        /\ y.prompt = i.prompt /\ y.ok = i.ok /\ InText(y) /\ B(y) = t /\ A(y) = a
    BY ZenonT(60), <2>1, <2>2, PutLine
  <2>. QED  BY <2>3, <2>4 DEF t
<1>7. x = [i EXCEPT !.text = (b \o s) \o a, !.cur = Len(b \o s) + i.prompt,
                    !.begin = Len(b \o s) + i.prompt]
  BY DEF Put
<1>8. j = [i EXCEPT !.text = (b \o s) \o a, !.cur = Len(b \o s) + i.prompt]
  <2>1. j = [x EXCEPT !.begin = i.begin]
    BY <1>11 DEF SetBegin
  <2>. HIDE DEF x
  <2>. QED  BY <1>4, <1>7, <2>1 DEF LineType
<1>. HIDE DEF x
<1>9. /\ j \in LineType /\ j.text = (b \o s) \o a /\ j.cur = w + Len(name) + i.prompt /\ j.begin = i.begin
      /\ j.prompt = i.prompt /\ j.ok = i.ok
  BY <1>4, <1>5, <1>6, <1>8 DEF LineType
<1>10. /\ At(j) = w + Len(name) /\ InText(j) /\ B(j) = b \o s /\ A(j) = a /\ BeginOK(j)
  <2>1. At(j) = w + Len(name) /\ At(x) = At(j) /\ j.text = x.text
    <3>1. j.cur = x.cur /\ j.prompt = x.prompt /\ j.text = x.text
      BY <1>5, <1>6, <1>9
    <3>. QED  BY <1>2, <1>4, <1>9, <3>1 DEF At
  <2>2. InText(j) /\ B(j) = B(x) /\ A(j) = A(x)
    BY <1>6, <2>1 DEF InText, B, A, Spot
  <2>3. BeginOK(j)
    BY <1>1, <1>2, <1>4, <1>9 DEF BeginOK, n
  <2>. QED  BY <1>6, <2>1, <2>2, <2>3
<1>12. j.text = b \o (s \o a)
  <2>1. b \in Seq(Letters) /\ s \in Seq(Letters) /\ a \in Seq(Letters)
    BY <1>1, <1>3
  <2>2. (b \o s) \o a = b \o (s \o a)
    BY <1>16, <2>1
  <2>. QED  BY <1>9, <2>2
<1>13. SubSeq(j.text, w + 1, Len(j.text)) = name \o a
  <2>1. j.text = p \o (name \o a)
    <3>1. (p \o name) \o a = p \o (name \o a)
      BY <1>1, <1>2, <1>16
    <3>. QED  BY <1>5, <1>9, <3>1
  <2> DEFINE v == name \o a
  <2>2. v \in Seq(Letters)
    BY <1>1, <1>2, ConcatSeq
  <2>3. j.text = p \o v
    BY <2>1
  <2>. HIDE DEF v
  <2>4. SubSeq(p \o v, Len(p) + 1, Len(p \o v)) = v
    BY <1>1, <2>2, ConcatSplit
  <2>. QED  BY <1>1, <2>3, <2>4 DEF v
<1>14. Put(j, b, a) = i
  <2>1. Put(j, b, a) = [j EXCEPT !.text = b \o a, !.cur = Len(b) + i.prompt, !.begin = Len(b) + i.prompt]
    BY <1>9 DEF Put
  <2>2. b \o a = i.text /\ Len(b) + i.prompt = i.cur /\ i.begin = i.cur
    BY <1>1, <1>4
  <2>3. Put(j, b, a) = [j EXCEPT !.text = i.text, !.cur = i.cur, !.begin = i.begin]
    BY <2>1, <2>2
  <2>4. [j EXCEPT !.text = i.text, !.cur = i.cur, !.begin = i.begin] = i
    <3> DEFINE t == (b \o s) \o a
               c == Len(b \o s) + i.prompt
    <3>1. j = [i EXCEPT !.text = t, !.cur = c]
      BY <1>8
    <3>. HIDE DEF t, c
    <3>. QED  BY <1>4, <3>1 DEF LineType
  <2>. QED  BY <2>3, <2>4
<1>15. Line(j)
  BY <1>9, <1>10 DEF Line
<1>. QED  BY <1>5, <1>9, <1>10, <1>12, <1>13, <1>14, <1>15 DEF Shown, b, a, s, p

\* Two sequences put together, by their elements.
LEMMA ConcatElements ==
    ASSUME NEW S, NEW s \in Seq(S), NEW t \in Seq(S)
    PROVE  /\ \A k \in 1 .. Len(s) : (s \o t)[k] = s[k]
           /\ \A k \in 1 .. Len(t) : (s \o t)[Len(s) + k] = t[k]
<1>1. s \o t \in Seq(S) /\ Len(s) \in Nat /\ Len(t) \in Nat
  BY ConcatSeq
<1>2. \A k \in 1 .. Len(s) + Len(t) : (s \o t)[k] = IF k <= Len(s) THEN s[k] ELSE t[k - Len(s)]
  BY ConcatProperties
<1>. QED  BY <1>1, <1>2

\* The line from the start of the word.
LEMMA FromWord ==
    ASSUME NEW i, Completable(i), NEW w \in Nat, w <= At(i)
    PROVE  LET rest == SubSeq(i.text, w + 1, Len(i.text)) IN
           /\ rest \in Seq(Letters) /\ At(i) - w \in 0 .. Len(rest)
           /\ SubSeq(rest, 1, At(i) - w) = SubSeq(B(i), w + 1, Len(B(i)))
<1> DEFINE n    == At(i) - w
           q    == SubSeq(B(i), w + 1, Len(B(i)))
           p    == SubSeq(B(i), 1, w)
           a    == A(i)
           r    == q \o a
           rest == SubSeq(i.text, w + 1, Len(i.text))
<1>1. /\ p \in Seq(Letters) /\ q \in Seq(Letters) /\ a \in Seq(Letters)
      /\ Len(p) = w /\ Len(q) = n /\ p \o q = B(i) /\ i.text = B(i) \o a
  BY WordCut
<1>2. (p \o q) \o a = p \o r
  <2>. HIDE DEF p, q, a
  <2>1. \A u, v, z \in Seq(Letters) : (u \o v) \o z = u \o (v \o z)
    BY ConcatAssociates
  <2>. QED  BY <1>1, <2>1
<1>3. r \in Seq(Letters) /\ Len(r) = Len(q) + Len(a) /\ Len(q) \in Nat /\ Len(a) \in Nat
      /\ SubSeq(r, 1, Len(q)) = q
  <2>. HIDE DEF p, q, a
  <2>. QED  BY <1>1, ConcatSeq, ConcatSplit
<1>. HIDE DEF p, q, r, a, n
<1>4. i.text = p \o r
  BY <1>1, <1>2
<1>5. rest = r
  <2>1. SubSeq(p \o r, Len(p) + 1, Len(p \o r)) = r
    BY <1>1, <1>3, ConcatSplit
  <2>. QED  BY <1>1, <1>4, <2>1
<1>. HIDE DEF rest
<1>6. n \in 0 .. Len(rest)
  BY <1>1, <1>3, <1>5
<1>. QED  BY <1>1, <1>3, <1>5, <1>6 DEF rest, n, q

\* A name with nothing missing shows the line as it was; another one fits.
LEMMA MatchShows ==
    ASSUME NEW i, Completable(i), NEW w \in Nat, w <= At(i), NEW name \in Seq(Letters),
           At(i) - w <= Len(name),
           SubSeq(name, 1, At(i) - w) = SubSeq(B(i), w + 1, Len(B(i)))
    PROVE  Fits(i, w, name) \/ Shows(i, w, name) = i
<1> DEFINE n == At(i) - w
<1>1. /\ B(i) \in Seq(Letters) /\ A(i) \in Seq(Letters) /\ At(i) \in Nat /\ Len(B(i)) = At(i)
      /\ i.text = B(i) \o A(i)
  BY WordCut
<1>2. n \in Nat /\ n <= Len(name) /\ Len(name) \in Nat
  BY <1>1
<1>3. CASE n < Len(name)
  BY <1>3 DEF Fits
<1>4. CASE ~(n < Len(name))
  <2>1. n = Len(name)
    BY <1>2, <1>4
  <2>2. Missing(i, w, name) = <<>>
    <3>1. Missing(i, w, name) = SubSeq(name, n + 1, Len(name))
      BY DEF Missing
    <3>. HIDE DEF n
    <3>. QED  BY <2>1, <3>1
  <2>3. B(i) \o <<>> = B(i)
    BY <1>1
  <2>4. i \in LineType /\ i.cur = Len(B(i)) + i.prompt /\ i.begin = i.cur
    BY <1>1 DEF Completable, Line, LineType, At
  <2>5. Shows(i, w, name) = SetBegin(Put(i, B(i), A(i)), i.begin)
    BY <2>2, <2>3 DEF Shows
  <2>6. Put(i, B(i), A(i)) = [i EXCEPT !.text = i.text, !.cur = i.cur, !.begin = i.cur]
    BY <1>1, <2>4 DEF Put
  <2>7. Put(i, B(i), A(i)) = i
    <3>1. [i EXCEPT !.text = i.text, !.cur = i.cur, !.begin = i.begin] = i
      BY <2>4 DEF LineType
    <3>. QED  BY <2>4, <2>6, <3>1
  <2>. QED  BY <2>4, <2>5, <2>7 DEF LineType, SetBegin
<1>. QED  BY <1>3, <1>4

\* The name that is chosen in the line j, where i is the line without what was
\* filled in.
ChosenIn(i, j, pos, w, names) ==
    ChosenName(names, SubSeq(j.text, w + 1, Len(j.text)), At(i) - w, pos - w, j.begin # j.cur)

\* What becomes of the line: it is shown as it was, or with the chosen name.
Turned(i, j, w, names, ch, y) ==
    /\ ch = 0 => y = i
    /\ ch # 0 /\ At(i) < w => y = OutOfBuffer(j)
    /\ ch # 0 /\ ~(At(i) < w) => y = i \/ y = Shows(i, w, names[ch])

\* The end of cmd_input_find_next_cmd, in the line as it was or in one in which
\* a name is filled in.
LEMMA FillTurn ==
    ASSUME NEW i, Completable(i), NEW w \in Nat, NEW names \in Names, NEW pos, NEW j,
           j.begin - j.prompt = At(i), SubSeq(j.text, 1, At(i)) = B(i), After(j) = A(i),
           Put(j, B(i), A(i)) = i
    PROVE  Turned(i, j, w, names, ChosenIn(i, j, pos, w, names), FillIn(j, pos, w, names))
<1> DEFINE ch == ChosenIn(i, j, pos, w, names)
           y  == FillIn(j, pos, w, names)
           s  == Missing(i, w, names[ch])
           f  == InsertStr(i, s)
<1>1. i \in LineType /\ InText(i) /\ Before(i) = B(i) /\ After(i) = A(i)
  BY Sides DEF Completable, Line
<1>2. y = IF ch = 0 THEN i ELSE IF At(i) < w THEN OutOfBuffer(j) ELSE SetBegin(f, i.begin)
  BY DEF FillIn, ChosenIn, SetBegin, Missing
<1>3. f = IF Len(i.text) + Len(s) >= InputBufferLen THEN i ELSE Put(i, B(i) \o s, A(i))
  BY <1>1 DEF InsertStr
<1>4. SetBegin(i, i.begin) = i
  BY <1>1 DEF SetBegin, LineType
<1>5. SetBegin(Put(i, B(i) \o s, A(i)), i.begin) = Shows(i, w, names[ch])
  BY DEF Shows
<1>. HIDE DEF ch, y, s, f
<1>. QED  BY <1>2, <1>3, <1>4, <1>5 DEF ch, y, Turned

\* Two texts that agree up to the cursor, and on whether a blank follows it,
\* are completed alike.
LEMMA SameCompletion ==
    ASSUME NEW t \in Seq(Letters), NEW u \in Seq(Letters), NEW b \in Nat, b > 0,
           b <= Len(t), b < Len(u), \A k \in 1 .. b : u[k] = t[k], u[b + 1] # Blank,
           CompletionOf(t, b).word <= b
    PROVE  CompletionOf(u, b) = CompletionOf(t, b)
<1> DEFINE S(v)    == {Len(v) + 1} \cup {k \in 2 .. Len(v) : v[k] = Blank}
           end(v)  == Min(S(v)) - 1
           sets(v) == {k \in 1 .. Len(SubSets) : SameN(SubSets[k].type, Tail(v), end(v))}
           W(v)    == {Len(v) + 1} \cup {k \in end(v) + 1 .. Len(v) : v[k] # Blank}
           word(v) == Min(W(v)) - 1
<1>1. \A v : CompletionOf(v, b) =
          IF end(v) >= b THEN [word |-> 1, names |-> MainCmds]
          ELSE IF sets(v) = {} THEN [word |-> 0, names |-> <<>>]
          ELSE [word |-> word(v), names |-> SubSets[Min(sets(v))].names]
  BY DEF CompletionOf
<1>2. Len(t) \in Nat /\ Len(u) \in Nat
  OBVIOUS
<1>3. \A v \in {t, u} : Min(S(v)) \in S(v) /\ Min(S(v)) \in Nat /\ \A k \in S(v) : Min(S(v)) <= k
  <2>. SUFFICES ASSUME NEW v \in {t, u}
                PROVE  Min(S(v)) \in S(v) /\ Min(S(v)) \in Nat /\ \A k \in S(v) : Min(S(v)) <= k
    OBVIOUS
  <2>1. S(v) \in SUBSET Nat /\ S(v) # {}
    BY <1>2
  <2>. HIDE DEF S
  <2>. QED  BY <2>1, MinOf
<1>4. CASE \A k \in 2 .. b : t[k] # Blank
  <2>1. \A v \in {t, u} : end(v) >= b
    <3>. SUFFICES ASSUME NEW v \in {t, u} PROVE end(v) >= b
      OBVIOUS
    <3>1. \A k \in S(v) : k > b
      BY <1>2, <1>4
    <3> DEFINE m == Min(S(v))
    <3>2. m \in Nat /\ m > b
      BY <1>3, <3>1
    <3>. HIDE DEF m
    <3>3. m - 1 >= b
      BY <3>2
    <3>. QED  BY <3>3 DEF m
  <2>. HIDE DEF end, sets, word
  <2>. QED  BY <1>1, <2>1
<1>5. CASE ~ \A k \in 2 .. b : t[k] # Blank
  <2>1. PICK m \in 2 .. b : t[m] = Blank /\ \A k \in 2 .. b : t[k] = Blank => m <= k
    <3> DEFINE T == {k \in 2 .. b : t[k] = Blank}
    <3>1. T \in SUBSET Nat /\ T # {}
      BY <1>5
    <3>. HIDE DEF T
    <3>2. \E m \in T : \A k \in T : m <= k
      BY <3>1, LeastNumber
    <3>. QED  BY <3>2 DEF T
  <2>2. \A v \in {t, u} : Min(S(v)) = m
    <3>. SUFFICES ASSUME NEW v \in {t, u} PROVE Min(S(v)) = m
      OBVIOUS
    <3>1. m \in S(v)
      BY <1>2, <2>1
    <3>2. \A k \in S(v) : m <= k
      BY <1>2, <2>1
    <3> DEFINE x == Min(S(v))
    <3>3. x \in Nat /\ x <= m /\ m <= x
      BY <1>3, <3>1, <3>2
    <3>. HIDE DEF x
    <3>4. x = m
      BY <3>3
    <3>. QED  BY <3>4 DEF x
  <2>3. end(t) = m - 1 /\ end(u) = m - 1 /\ m - 1 \in Nat /\ m - 1 < b /\ m \in Nat
    BY <2>1, <2>2
  <2>. HIDE DEF end
  <2>4. SubSeq(Tail(t), 1, Min({m - 1, Len(Tail(t))})) = SubSeq(Tail(u), 1, Min({m - 1, Len(Tail(u))}))
    <3> DEFINE x == Tail(t)
               z == Tail(u)
               e == m - 1
    <3>1. /\ x \in Seq(Letters) /\ z \in Seq(Letters) /\ Len(x) = Len(t) - 1 /\ Len(z) = Len(u) - 1
          /\ \A k \in 1 .. Len(t) - 1 : x[k] = t[k + 1]
          /\ \A k \in 1 .. Len(u) - 1 : z[k] = u[k + 1]
      <4>1. t # <<>> /\ u # <<>>
        BY <1>2
      <4>. QED  BY <4>1
    <3>2. e \in Nat /\ e <= Len(x) /\ e <= Len(z) /\ Len(x) \in Nat /\ Len(z) \in Nat
      BY <1>2, <2>3, <3>1
    <3>3. \A k \in 1 .. e : x[k] = z[k]
      <4>. SUFFICES ASSUME NEW k \in 1 .. e PROVE x[k] = z[k]
        OBVIOUS
      <4>1. k \in 1 .. Len(t) - 1 /\ k \in 1 .. Len(u) - 1 /\ k + 1 \in 1 .. b
        BY <1>2, <2>3
      <4>2. u[k + 1] = t[k + 1]
        BY <4>1
      <4>. HIDE DEF x, z
      <4>. QED  BY <3>1, <4>1, <4>2
    <3>. HIDE DEF x, z, e
    <3>4. Min({e, Len(x)}) = e /\ Min({e, Len(z)}) = e
      BY <3>2, MinOfTwo
    <3> DEFINE f == SubSeq(x, 1, e)
               g == SubSeq(z, 1, e)
    <3>5. /\ f \in Seq(Letters) /\ g \in Seq(Letters) /\ Len(f) = e /\ Len(g) = e
          /\ \A k \in 1 .. e : f[k] = x[k] /\ g[k] = z[k]
      BY <3>1, <3>2, SplitSeq
    <3>. HIDE DEF f, g
    <3>6. f = g
      BY <3>2, <3>3, <3>5, SeqEqual
    <3>. QED  BY <3>4, <3>6 DEF x, z, e, f, g
  <2>5. sets(t) = sets(u)
    <3> DEFINE x == Tail(t)
               z == Tail(u)
               e == m - 1
    <3>2. e \in Nat /\ SubSeq(x, 1, Min({e, Len(x)})) = SubSeq(z, 1, Min({e, Len(z)}))
      BY <2>3, <2>4
    <3>1. \A k : SameN(SubSets[k].type, Tail(t), m - 1) <=> SameN(SubSets[k].type, Tail(u), m - 1)
      <4>1. \A k : SameN(SubSets[k].type, x, e) <=> SameN(SubSets[k].type, z, e)
        <5>. HIDE DEF x, z, e
        <5>. SUFFICES ASSUME NEW s PROVE SameN(s, x, e) <=> SameN(s, z, e)
          OBVIOUS
        <5>1. ~(e < 0)
          BY <3>2
        <5>2. /\ SameN(s, x, e) <=> SubSeq(s, 1, Min({e, Len(s)})) = SubSeq(x, 1, Min({e, Len(x)}))
              /\ SameN(s, z, e) <=> SubSeq(s, 1, Min({e, Len(s)})) = SubSeq(z, 1, Min({e, Len(z)}))
          BY <5>1, Zenon DEF SameN
        <5>. QED  BY <3>2, <5>2, Zenon
      <4>. QED  BY <4>1
    <3>. QED  BY <2>3, <3>1
  <2>. HIDE DEF sets
  <2>6. CASE sets(t) = {}
    <3>. HIDE DEF word
    <3>. QED  BY <1>1, <2>3, <2>5, <2>6
  <2>7. CASE sets(t) # {}
    <3>1. word(t) <= b
      <4>1. CompletionOf(t, b) = [word |-> word(t), names |-> SubSets[Min(sets(t))].names]
        <5>. HIDE DEF word
        <5>. QED  BY <1>1, <2>3, <2>7
      <4>. HIDE DEF word
      <4>. QED  BY <4>1
    <3>2. \A v \in {t, u} : W(v) = {Len(v) + 1} \cup {k \in m .. Len(v) : v[k] # Blank}
      BY <2>3
    <3>3. \A v \in {t, u} : W(v) \in SUBSET Nat /\ W(v) # {}
      BY <1>2, <2>3, <3>2
    <3> DEFINE x == Min(W(t))
               z == Min(W(u))
    <3>4. x \in W(t) /\ (\A k \in W(t) : x <= k) /\ z \in W(u) /\ \A k \in W(u) : z <= k
      <4>. HIDE DEF W
      <4>. QED  BY <3>3, MinOf
    <3>5. x \in Nat /\ z \in Nat /\ x <= b + 1 /\ word(t) = x - 1 /\ word(u) = z - 1
      <4>1. x \in Nat /\ z \in Nat
        <5>. HIDE DEF W, x, z
        <5>. QED  BY <3>3, <3>4
      <4>2. word(t) = x - 1 /\ word(u) = z - 1
        OBVIOUS
      <4>. HIDE DEF x, z, word
      <4>. QED  BY <3>1, <4>1, <4>2
    <3>. HIDE DEF x, z, word
    <3>6. x \in W(u)
      <4>1. CASE x = b + 1
        <5>1. b + 1 \in m .. Len(u)
          BY <1>2, <2>3
        <5>. QED  BY <3>2, <4>1, <5>1
      <4>2. CASE x # b + 1
        <5>1. x <= b
          BY <3>5, <4>2
        <5>2. x \in m .. Len(t) /\ t[x] # Blank
          BY <1>2, <3>2, <3>4, <5>1
        <5>3. x \in 1 .. b /\ x \in m .. Len(u)
          BY <1>2, <2>3, <3>5, <5>1, <5>2
        <5>4. u[x] # Blank
          BY <5>2, <5>3
        <5>. QED  BY <3>2, <5>3, <5>4
      <4>. QED  BY <4>1, <4>2
    <3>7. z <= x /\ z <= b + 1
      BY <3>4, <3>5, <3>6
    <3>8. x <= z
      <4>1. CASE z = b + 1
        BY <3>5, <4>1
      <4>2. CASE z # b + 1
        <5>1. z <= b
          BY <3>5, <3>7, <4>2
        <5>2. z \in m .. Len(u) /\ u[z] # Blank
          BY <1>2, <3>2, <3>4, <5>1
        <5>3. z \in 1 .. b /\ z \in m .. Len(t)
          BY <1>2, <2>3, <3>5, <5>1, <5>2
        <5>4. t[z] # Blank
          BY <5>2, <5>3
        <5>5. z \in W(t)
          BY <3>2, <5>3, <5>4
        <5>. QED  BY <3>4, <5>5
      <4>. QED  BY <4>1, <4>2
    <3>9. word(t) = word(u)
      BY <3>5, <3>7, <3>8
    <3>. QED  BY <1>1, <2>3, <2>5, <2>7, <3>9
  <2>. QED  BY <2>6, <2>7
<1>. QED  BY <1>4, <1>5

\* The set of names in which a word of the line is completed.
Completion(i) == CompletionOf(i.text, At(i))

\* A name of the set is shown, the m-th or one further down.
ShowsFrom(i, j, m) ==
    \E k \in m .. Len(Completion(i).names) :
        /\ j = Shows(i, Completion(i).word, Completion(i).names[k])
        /\ Fits(i, Completion(i).word, Completion(i).names[k])

\* Where a word can be completed to the names of a set.
HasNames(i) ==
    /\ Head(i.text) = Slash
    /\ Completion(i).word \in Nat \ {0} /\ Completion(i).word <= At(i)
    /\ Completion(i).names \in Names

\* The first completion shows a name, or nothing new.
LEMMA FirstTurn ==
    ASSUME NEW i, Completable(i), i.ok = "ok", FindNextCmd(i).ok = "ok"
    PROVE  FindNextCmd(i) = i \/ (HasNames(i) /\ ShowsFrom(i, FindNextCmd(i), 1))
<1> DEFINE c    == Completion(i)
           w    == c.word
           names == c.names
           rest == SubSeq(i.text, w + 1, Len(i.text))
           ch   == ChosenIn(i, i, At(i), w, names)
           y    == FindNextCmd(i)
<1>1. /\ i \in LineType /\ InText(i) /\ i.begin = i.cur /\ At(i) = i.cur - i.prompt
      /\ i.cur \in Nat /\ i.prompt \in Nat /\ i.text \in Seq(Letters)
  BY DEF Completable, Line, LineType, At
<1>2. /\ B(i) \in Seq(Letters) /\ A(i) \in Seq(Letters) /\ At(i) \in Nat /\ At(i) > 0
      /\ Len(B(i)) = At(i) /\ i.text = B(i) \o A(i) /\ After(i) = A(i)
      /\ SubSeq(i.text, 1, At(i)) = B(i)
  <2>1. /\ B(i) \in Seq(Letters) /\ A(i) \in Seq(Letters) /\ At(i) \in Nat /\ Len(B(i)) = At(i)
        /\ B(i) \o A(i) = i.text /\ After(i) = A(i) /\ At(i) = Spot(i)
    BY <1>1, Sides
  <2>2. SubSeq(i.text, 1, At(i)) = B(i)
    BY <2>1 DEF B
  <2>. QED  BY <2>1, <2>2 DEF Completable
<1>3. i.text # <<>> /\ Len(i.text) >= At(i) /\ Len(i.text) \in Nat
  BY <1>1, <1>2 DEF InText
<1>4. y = IF Head(i.text) # Slash \/ w = 0 THEN i ELSE FillIn(i, At(i), w, names)
  <2>1. SetBegin(i, i.cur) = i
    BY <1>1 DEF SetBegin, LineType
  <2>2. i.begin >= i.cur /\ At(i) # 0
    BY <1>1, <1>2
  <2> DEFINE fresh == i.begin <= i.prompt \/ i.begin >= i.cur
             j     == CASE fresh /\ At(i) = 0 -> Insert(i, Slash)
                        [] fresh /\ At(i) # 0 -> SetBegin(i, i.cur)
                        [] OTHER -> i
             pos   == IF fresh /\ At(i) = 0 THEN 1 ELSE At(i)
  <2>3. y = IF ~InText(i) THEN OutOfBuffer(i)
            ELSE FromSlash(j, pos, CompletionOf(j.text, j.begin - j.prompt))
    BY DEF FindNextCmd, FromSlash, SetBegin
  <2>4. j = i /\ pos = At(i)
    BY <2>1, <2>2
  <2>. HIDE DEF j, pos, y
  <2>5. y = FromSlash(i, At(i), c)
    BY <1>1, <2>3, <2>4 DEF Completion
  <2>. HIDE DEF c
  <2>. QED  BY <1>3, <2>5 DEF FromSlash
<1>. SUFFICES ASSUME y # i PROVE HasNames(i) /\ ShowsFrom(i, y, 1)
  OBVIOUS
<1>5. Head(i.text) = Slash /\ w # 0 /\ y = FillIn(i, At(i), w, names)
  BY <1>4
<1>6. w \in Nat /\ names \in Names
  <2>1. At(i) \in Int
    BY <1>2
  <2>. QED  BY <1>1, <1>3, <1>5, <2>1, CompletionRange DEF Completion
<1>7. Put(i, B(i), A(i)) = i
  <2>1. Put(i, B(i), A(i)) = [i EXCEPT !.text = i.text, !.cur = i.cur, !.begin = i.begin]
    <3>1. Len(B(i)) + i.prompt = i.cur
      BY <1>1, <1>2
    <3>. QED  BY <1>1, <1>2, <3>1 DEF Put
  <2>2. [i EXCEPT !.text = i.text, !.cur = i.cur, !.begin = i.begin] = i
    BY <1>1 DEF LineType
  <2>. QED  BY <2>1, <2>2
<1>8. /\ ch = 0 => y = i
      /\ ch # 0 /\ At(i) < w => y = OutOfBuffer(i)
      /\ ch # 0 /\ ~(At(i) < w) => y = i \/ y = Shows(i, w, names[ch])
  <2>1. i.begin - i.prompt = At(i)
    BY <1>1
  <2>2. Turned(i, i, w, names, ch, FillIn(i, At(i), w, names))
    <3>. HIDE DEF w, names
    <3>. QED  BY <1>2, <1>6, <1>7, <2>1, FillTurn
  <2>3. Turned(i, i, w, names, ch, y)
    <3>. HIDE DEF w, names, y, ch
    <3>. QED  BY <1>5, <2>2
  <2>. HIDE DEF w, names, y, ch
  <2>. QED  BY <2>3 DEF Turned
<1>9. ch # 0 /\ ~(At(i) < w) /\ y = Shows(i, w, names[ch])
  <2>1. OutOfBuffer(i).ok = "buffer"
    BY <1>1 DEF OutOfBuffer, LineType
  <2>. HIDE DEF ch, w, y
  <2>. QED  BY <1>8, <2>1 DEF y
<1>10. w <= At(i)
  <2>. HIDE DEF w
  <2>. QED  BY <1>2, <1>6, <1>9
<1>11. names \in Seq(Seq(Letters)) /\ Len(names) \in Nat /\ \A k \in 1 .. Len(names) : names[k] \in Seq(Letters)
  BY <1>6, NamesOf
<1> DEFINE fits  == {k \in 1 .. Len(names) : names[k] # <<>> /\ SameN(names[k], rest, At(i) - w)}
           fresh == {k \in fits : Len(names[k]) # At(i) - w}
<1>12. ch \in 1 .. Len(names) /\ SameN(names[ch], rest, At(i) - w)
  <2>1. ch = IF fresh = {} THEN 0 ELSE Min(fresh)
    <3>1. ~(i.begin # i.cur)
      BY <1>1
    <3>. QED  BY <3>1 DEF ChosenIn, ChosenName
  <2>2. fresh \in SUBSET Nat /\ fresh \subseteq fits
    BY <1>11
  <2>. HIDE DEF fresh, ch
  <2>3. ch \in fits
    BY <1>9, <2>1, <2>2, MinOf
  <2>. QED  BY <2>3
<1> DEFINE n == At(i) - w
           q == SubSeq(B(i), w + 1, Len(B(i)))
<1>13. rest \in Seq(Letters) /\ n \in 0 .. Len(rest) /\ SubSeq(rest, 1, n) = q
  BY <1>6, <1>10, FromWord
<1>14. n <= Len(names[ch]) /\ SubSeq(names[ch], 1, n) = q
  <2>1. names[ch] \in Seq(Letters)
    BY <1>11, <1>12
  <2>2. SameN(names[ch], rest, n)
    BY <1>12
  <2>. HIDE DEF ch, rest, n, names, q
  <2>. QED  BY <1>13, <2>1, <2>2, SameBeginning
<1>15. Fits(i, w, names[ch])
  <2>1. names[ch] \in Seq(Letters)
    BY <1>11, <1>12
  <2>. HIDE DEF ch, rest, names, w, y
  <2>. QED  BY <1>6, <1>9, <1>10, <1>14, <2>1, MatchShows
<1>16. HasNames(i)
  BY <1>5, <1>6, <1>10 DEF HasNames
<1>17. ShowsFrom(i, y, 1)
  <2>. HIDE DEF ch, y
  <2>. QED  BY <1>9, <1>12, <1>15 DEF ShowsFrom
<1>. QED  BY <1>16, <1>17

\* A name of a set has no blank, and does not start with a later one of it.
LEMMA InOrder ==
    ASSUME NEW names \in Names, NEW k \in 1 .. Len(names), names[k] # <<>>
    PROVE  /\ \A m \in 1 .. k - 1 : ~IsPrefix(names[k], names[m])
           /\ \A n \in 1 .. Len(names[k]) : names[k][n] # Blank
<1>1. Blank \notin ToSet(names[k]) /\ \A m \in 1 .. k - 1 : ~IsPrefix(names[k], names[m])
  BY NamesAssumption
<1>. QED  BY <1>1 DEF ToSet

\* With a name filled in, the same set is looked through.
LEMMA ShownCompletion ==
    ASSUME NEW i, Completable(i), HasNames(i), NEW w, w = Completion(i).word,
           NEW names, names = Completion(i).names, NEW k \in 1 .. Len(names),
           NEW name, name = names[k], Fits(i, w, name), NEW j, j = Shows(i, w, name)
    PROVE  j.text # <<>> /\ Head(j.text) = Slash /\ CompletionOf(j.text, At(i)) = Completion(i)
<1> DEFINE s == Missing(i, w, name)
           b == B(i)
           a == A(i)
           n == At(i)
           m == n - w
<1>1. /\ w \in Nat \ {0} /\ w <= n /\ Head(i.text) = Slash /\ names \in Names
      /\ Completion(i) = CompletionOf(i.text, n)
  BY DEF HasNames, Completion
<1>2. b \in Seq(Letters) /\ a \in Seq(Letters) /\ Len(b) = n /\ n \in Nat /\ n > 0 /\ i.text = b \o a
  BY <1>1, WordCut DEF Completable
<1>3. name \in Seq(Letters) /\ m < Len(name) /\ m \in Nat /\ Len(name) \in Nat
  <2>1. name \in Seq(Letters) /\ m < Len(name)
    BY DEF Fits
  <2>. HIDE DEF n
  <2>. QED  BY <1>1, <1>2, <2>1
<1>4. j.text = b \o (s \o a)
  <2>. HIDE DEF n, m, b, a, s
  <2>1. w \in Nat /\ w <= At(i)
    BY <1>1 DEF n
  <2>2. Shown(i, w, name, j)
    BY <2>1, ShowsLine
  <2>3. j.text = B(i) \o (Missing(i, w, name) \o A(i))
    BY <2>2 DEF Shown
  <2>. QED  BY <2>3 DEF b, a, s
<1>5. s \in Seq(Letters) /\ Len(s) = Len(name) - m /\ s[1] = name[m + 1]
  <2>1. s = SubSeq(name, m + 1, Len(name))
    BY DEF Missing
  <2>. HIDE DEF s, m
  <2>2. m \in 0 .. Len(name) /\ 1 \in 1 .. Len(name) - m
    BY <1>3
  <2> DEFINE z == SubSeq(name, m + 1, Len(name))
  <2>3. z \in Seq(Letters) /\ Len(z) = Len(name) - m /\ \A x \in 1 .. Len(name) - m : z[x] = name[m + x]
    <3>1. name \in Seq(Letters) /\ m \in 0 .. Len(name)
      BY <1>3, <2>2
    <3>. QED  BY <3>1, SplitSeq
  <2>. HIDE DEF z
  <2>. QED  BY <2>1, <2>2, <2>3 DEF z
<1>6. name[m + 1] # Blank
  <2>1. name # <<>> /\ m + 1 \in 1 .. Len(name)
    <3>. HIDE DEF m
    <3>. QED  BY <1>3
  <2>. HIDE DEF m
  <2>. QED  BY <1>1, <2>1, InOrder
<1> DEFINE r == s \o a
           t == i.text
           u == j.text
<1>. HIDE DEF s, b, a, n, m
<1>7. r \in Seq(Letters) /\ Len(r) > 0 /\ Len(r) \in Nat /\ r[1] = s[1]
  <2>1. 1 \in 1 .. Len(s) /\ Len(s) \in Nat
    BY <1>3, <1>5
  <2>2. r \in Seq(Letters) /\ Len(r) = Len(s) + Len(a) /\ Len(a) \in Nat
    BY <1>2, <1>5, ConcatSeq
  <2>3. r[1] = s[1]
    BY <1>2, <1>5, <2>1, ConcatElements
  <2>. HIDE DEF r
  <2>. QED  BY <2>1, <2>2, <2>3
<1>. HIDE DEF r, t, u
<1>8. /\ t \in Seq(Letters) /\ u \in Seq(Letters) /\ n <= Len(t) /\ n < Len(u)
      /\ (\A x \in 1 .. n : u[x] = t[x]) /\ u[n + 1] # Blank /\ u # <<>> /\ t # <<>>
  <2>1. t = b \o a /\ u = b \o r
    BY <1>2, <1>4 DEF t, u, r
  <2>2. t \in Seq(Letters) /\ Len(t) = n + Len(a) /\ Len(a) \in Nat
    BY <1>2, <2>1, ConcatSeq
  <2>3. u \in Seq(Letters) /\ Len(u) = n + Len(r)
    BY <1>2, <1>7, <2>1, ConcatSeq
  <2>4. \A x \in 1 .. n : t[x] = b[x]
    BY <1>2, <2>1, ConcatElements
  <2>5. \A x \in 1 .. n : u[x] = b[x]
    BY <1>2, <1>7, <2>1, ConcatElements
  <2>6. u[n + 1] = r[1]
    <3>1. 1 \in 1 .. Len(r)
      BY <1>7
    <3>. QED  BY <1>2, <1>7, <2>1, <3>1, ConcatElements
  <2>7. u[n + 1] # Blank
    BY <1>5, <1>6, <1>7, <2>6
  <2>8. u # <<>> /\ t # <<>> /\ n <= Len(t) /\ n < Len(u)
    BY <1>2, <1>7, <2>2, <2>3
  <2>. QED  BY <2>2, <2>3, <2>4, <2>5, <2>7, <2>8
<1>9. CompletionOf(u, n) = CompletionOf(t, n)
  <2>1. CompletionOf(t, n).word <= n
    BY <1>1 DEF t
  <2>. HIDE DEF t, u
  <2>. QED  BY <1>2, <1>8, <2>1, SameCompletion
<1>10. Head(u) = Head(t)
  <2>1. Head(u) = u[1] /\ Head(t) = t[1] /\ 1 \in 1 .. n
    <3>. HIDE DEF t, u
    <3>. QED  BY <1>2, <1>8
  <2>. HIDE DEF t, u
  <2>. QED  BY <1>8, <2>1
<1>. QED  BY <1>1, <1>8, <1>9, <1>10 DEF n, t, u

\* The next completion shows a name further down, or the line as it was.
LEMMA NextTurn ==
    ASSUME NEW i, Completable(i), HasNames(i), NEW w, w = Completion(i).word,
           NEW names, names = Completion(i).names, NEW k \in 1 .. Len(names),
           NEW name, name = names[k], Fits(i, w, name), NEW j, j = Shows(i, w, name),
           NEW y, y = FindNextCmd(j)
    PROVE  y = i \/ ShowsFrom(i, y, k + 1)
<1> DEFINE n    == At(i) - w
           q    == SubSeq(B(i), w + 1, Len(B(i)))
           rest == SubSeq(j.text, w + 1, Len(j.text))
           ch   == ChosenIn(i, j, At(j), w, names)
<1>1. w \in Nat \ {0} /\ w <= At(i) /\ names \in Names
  BY DEF HasNames
<1>2. /\ i \in LineType /\ i.begin = i.cur /\ At(i) = i.cur - i.prompt /\ i.cur \in Nat /\ i.prompt \in Nat
      /\ B(i) \in Seq(Letters) /\ A(i) \in Seq(Letters) /\ At(i) \in Nat /\ At(i) > 0 /\ Len(B(i)) = At(i)
  <2>1. /\ i \in LineType /\ i.begin = i.cur /\ At(i) = i.cur - i.prompt /\ i.cur \in Nat
        /\ i.prompt \in Nat /\ At(i) > 0
    BY DEF Completable, Line, LineType, At
  <2>. QED  BY <1>1, <2>1, WordCut
<1>3. /\ name \in Seq(Letters) /\ n \in Nat /\ n < Len(name) /\ Len(name) \in Nat
      /\ SubSeq(name, 1, n) = q
  <2>1. name \in Seq(Letters) /\ n < Len(name) /\ SubSeq(name, 1, n) = q
    BY DEF Fits
  <2>2. n \in Nat
    BY <1>1, <1>2
  <2>. HIDE DEF n, q
  <2>. QED  BY <2>1, <2>2
<1>4. /\ Line(j) /\ InText(j) /\ j.begin = i.begin /\ j.prompt = i.prompt
      /\ B(j) = B(i) \o Missing(i, w, name) /\ A(j) = A(i) /\ At(j) = w + Len(name)
      /\ j.text = B(i) \o (Missing(i, w, name) \o A(i)) /\ rest = name \o A(i)
      /\ Put(j, B(i), A(i)) = i
  <2>. HIDE DEF n, q, ch
  <2>1. Shown(i, w, name, j)
    BY <1>1, ShowsLine
  <2>. QED  BY <2>1 DEF Shown
<1>5. j.text # <<>> /\ Head(j.text) = Slash /\ CompletionOf(j.text, At(i)) = Completion(i)
  BY ShownCompletion
<1>6. /\ j.begin - j.prompt = At(i) /\ SubSeq(j.text, 1, At(i)) = B(i) /\ After(j) = A(i)
      /\ j.begin < j.cur /\ j.prompt < j.begin /\ j.begin # j.cur /\ At(j) - w = Len(name) /\ At(j) # 0
      /\ j \in LineType
  <2>1. j \in LineType /\ After(j) = A(j) /\ j.cur \in Nat /\ j.cur = At(j) + j.prompt
    <3>1. j \in LineType /\ InText(j)
      BY <1>4 DEF Line
    <3>2. After(j) = A(j)
      BY <3>1, Sides
    <3>3. j.cur \in Nat /\ j.prompt \in Nat
      BY <3>1 DEF LineType
    <3>4. j.cur = At(j) + j.prompt
      BY <3>3 DEF At
    <3>. QED  BY <3>1, <3>2, <3>3, <3>4
  <2>2. SubSeq(j.text, 1, At(i)) = B(i)
    <3> DEFINE r == Missing(i, w, name) \o A(i)
    <3>1. r \in Seq(Letters)
      <4>1. n \in 0 .. Len(name)
        <5>. HIDE DEF n
        <5>. QED  BY <1>3
      <4>2. Missing(i, w, name) = SubSeq(name, n + 1, Len(name))
        BY DEF Missing
      <4>. HIDE DEF n
      <4>3. Missing(i, w, name) \in Seq(Letters)
        BY <1>3, <4>1, <4>2, SplitSeq
      <4>. QED  BY <1>2, <4>3, ConcatSeq
    <3>. HIDE DEF r
    <3>2. SubSeq(B(i) \o r, 1, Len(B(i))) = B(i)
      BY <1>2, <3>1, ConcatSplit
    <3>3. j.text = B(i) \o r
      BY <1>4 DEF r
    <3>. QED  BY <1>2, <3>2, <3>3
  <2>3. /\ j.begin = i.begin /\ j.prompt = i.prompt /\ A(j) = A(i) /\ At(j) = w + Len(name)
    BY <1>4
  <2>4. /\ i.begin = i.cur /\ At(i) = i.cur - i.prompt /\ i.cur \in Nat /\ i.prompt \in Nat
        /\ At(i) > 0 /\ w \in Nat /\ Len(name) \in Nat /\ At(i) - w < Len(name)
    BY <1>1, <1>2, <1>3
  <2>. HIDE DEF n, q, rest, ch
  <2>5. j.begin - j.prompt = At(i)
    BY <2>3, <2>4
  <2>6. After(j) = A(i)
    BY <2>1, <2>3
  <2>7. At(j) # 0 /\ At(j) - w = Len(name)
    <3> DEFINE l == Len(name)
               p == At(i)
    <3>1. w \in Nat /\ l \in Nat /\ p \in Nat /\ p > 0 /\ p - w < l /\ At(j) = w + l
      BY <1>2, <2>3, <2>4
    <3>. HIDE DEF l, p
    <3>2. At(j) # 0 /\ At(j) - w = l
      BY <3>1
    <3>. QED  BY <3>2 DEF l
  <2>8. j.begin < j.cur /\ j.prompt < j.begin /\ j.begin # j.cur
    <3> DEFINE l == Len(name)
               p == At(i)
    <3>1. /\ w \in Nat /\ l \in Nat /\ p \in Nat /\ p > 0 /\ p - w < l /\ i.prompt \in Nat
          /\ i.cur \in Nat /\ p = i.cur - i.prompt
          /\ j.cur = (w + l) + i.prompt /\ j.begin = i.cur /\ j.prompt = i.prompt
      BY <1>2, <2>1, <2>3, <2>4
    <3>. HIDE DEF l, p
    <3>. QED  BY <3>1
  <2>. QED  BY <2>1, <2>2, <2>5, <2>6, <2>7, <2>8
<1>7. y = FillIn(j, At(j), w, names)
  <2> DEFINE fresh == j.begin <= j.prompt \/ j.begin >= j.cur
             x     == CASE fresh /\ At(j) = 0 -> Insert(j, Slash)
                        [] fresh /\ At(j) # 0 -> SetBegin(j, j.cur)
                        [] OTHER -> j
             pos   == IF fresh /\ At(j) = 0 THEN 1 ELSE At(j)
  <2>1. y = IF ~InText(j) THEN OutOfBuffer(j)
            ELSE FromSlash(x, pos, CompletionOf(x.text, x.begin - x.prompt))
    <3>. QED  BY DEF FindNextCmd, FromSlash, SetBegin
  <2>2. ~fresh
    <3>1. j.begin \in Nat /\ j.prompt \in Nat /\ j.cur \in Nat
      BY <1>6 DEF LineType
    <3>. QED  BY <1>6, <3>1
  <2>3. x = j /\ pos = At(j)
    <3>. HIDE DEF fresh
    <3>. QED  BY <2>2
  <2>. HIDE DEF x, pos
  <2>4. y = FromSlash(j, At(j), CompletionOf(j.text, At(i)))
    BY <1>4, <1>6, <2>1, <2>3
  <2>5. y = FromSlash(j, At(j), Completion(i))
    BY <1>5, <2>4
  <2>. QED  BY <1>1, <1>5, <2>5 DEF FromSlash
<1>8. Turned(i, j, w, names, ch, y)
  <2>1. Turned(i, j, w, names, ch, FillIn(j, At(j), w, names))
    <3>. QED  BY <1>1, <1>4, <1>6, FillTurn
  <2>. HIDE DEF ch
  <2>. QED  BY <1>7, <2>1
<1>9. (ch # 0 /\ y = Shows(i, w, names[ch])) \/ y = i
  <2>1. ~(At(i) < w)
    <3>. QED  BY <1>1, <1>2
  <2>. HIDE DEF ch
  <2>. QED  BY <1>8, <2>1 DEF Turned
<1>. SUFFICES ASSUME ch # 0, y = Shows(i, w, names[ch]) PROVE y = i \/ ShowsFrom(i, y, k + 1)
  <2>. HIDE DEF ch
  <2>. QED  BY <1>9
<1>10. /\ names \in Seq(Seq(Letters)) /\ Len(names) \in Nat
       /\ \A m \in 1 .. Len(names) : names[m] \in Seq(Letters)
  <2>. QED  BY <1>1, NamesOf
<1> DEFINE fits == {m \in 1 .. Len(names) : names[m] # <<>> /\ SameN(names[m], rest, Len(name))}
           next == Min(fits) + 1
<1>11. /\ ch = next /\ fits # {} /\ next <= Len(names) /\ SameN(names[next], rest, n)
  <2>1. j.begin # j.cur /\ At(j) - w = Len(name)
    BY <1>6
  <2>2. ch = ChosenName(names, rest, n, Len(name), TRUE)
    <3>. QED  BY <2>1 DEF ChosenIn
  <2>3. ch = IF fits # {} /\ next <= Len(names) /\ SameN(names[next], rest, n) THEN next ELSE 0
    <3>1. ChosenName(names, rest, n, Len(name), TRUE)
             = IF fits # {} /\ next <= Len(names) /\ SameN(names[next], rest, n) THEN next ELSE 0
      <4>. HIDE DEF rest, n
      <4>. QED  BY DEF ChosenName
    <3>. HIDE DEF ch, rest, n, fits, next
    <3>. QED  BY <2>2, <3>1
  <2>. HIDE DEF ch, rest, n, fits, next
  <2>. QED  BY <2>3
<1>12. rest \in Seq(Letters) /\ SubSeq(rest, 1, Len(name)) = name /\ Len(name) <= Len(rest) /\ Len(rest) \in Nat
  <2>1. rest = name \o A(i)
    BY <1>4
  <2>. HIDE DEF rest
  <2>2. name \in Seq(Letters) /\ A(i) \in Seq(Letters)
    BY <1>2, <1>3
  <2>3. name \o A(i) \in Seq(Letters) /\ Len(name \o A(i)) = Len(name) + Len(A(i)) /\ Len(A(i)) \in Nat
    BY <2>2, ConcatSeq
  <2>4. SubSeq(name \o A(i), 1, Len(name)) = name
    BY <2>2, ConcatSplit
  <2>. QED  BY <1>3, <2>1, <2>3, <2>4
<1>13. \A m \in fits : k <= m
  <2>. SUFFICES ASSUME NEW m \in 1 .. Len(names), SameN(names[m], rest, Len(name)), ~(k <= m)
                PROVE  FALSE
    <3>. HIDE DEF rest
    <3>. QED  OBVIOUS
  <2>1. names[m] \in Seq(Letters) /\ m < k
    BY <1>10
  <2>2. Len(name) <= Len(names[m]) /\ SubSeq(names[m], 1, Len(name)) = SubSeq(rest, 1, Len(name))
    <3>1. Len(name) \in 0 .. Len(rest)
      <4>. HIDE DEF rest
      <4>. QED  BY <1>3, <1>12
    <3>. HIDE DEF rest
    <3>. QED  BY <1>12, <2>1, <3>1, SameBeginning
  <2>3. SubSeq(name, 1, Len(name)) = name
    <3>. QED  BY <1>3
  <2>4. IsPrefix(name, names[m])
    <3>. HIDE DEF rest
    <3>. QED  BY <1>12, <2>2, <2>3 DEF IsPrefix
  <2>5. name # <<>> /\ m \in 1 .. k - 1
    <3>1. name # <<>>
      <4>. HIDE DEF n
      <4>. QED  BY <1>3
    <3>2. m \in 1 .. k - 1
      BY <2>1
    <3>. QED  BY <3>1, <3>2
  <2>. QED  BY <1>1, <2>4, <2>5, InOrder
<1>14. next \in k + 1 .. Len(names)
  <2>4. fits \in SUBSET Nat
    BY <1>10
  <2>. HIDE DEF fits
  <2>1. fits # {} /\ next <= Len(names)
    BY <1>11
  <2> DEFINE m == Min(fits)
  <2>2. m \in fits /\ m \in Nat
    BY <2>1, <2>4, MinOf
  <2>3. k <= m /\ m + 1 <= Len(names)
    BY <1>13, <2>1, <2>2
  <2>. HIDE DEF m
  <2>5. m + 1 \in k + 1 .. Len(names)
    BY <1>10, <2>2, <2>3
  <2>. QED  BY <2>5 DEF m
<1>15. next \in 1 .. Len(names) /\ names[next] \in Seq(Letters)
  <2>. HIDE DEF next
  <2>. QED  BY <1>10, <1>14
<1>16. n <= Len(names[next]) /\ SubSeq(names[next], 1, n) = q
  <2>1. n \in 0 .. Len(rest) /\ n \in 0 .. Len(name)
    <3>. HIDE DEF n, rest
    <3>. QED  BY <1>3, <1>12
  <2>2. SubSeq(rest, 1, n) = q
    <3>1. Len(name) \in 0 .. Len(rest)
      <4>. HIDE DEF rest
      <4>. QED  BY <1>3, <1>12
    <3>. HIDE DEF rest, n, q
    <3>2. SubSeq(SubSeq(rest, 1, Len(name)), 1, n) = SubSeq(rest, 1, n)
      BY <1>12, <2>1, <3>1, PrefixOfPrefix
    <3>. QED  BY <1>3, <1>12, <3>2
  <2>. HIDE DEF n, rest, next, q
  <2>3. n <= Len(names[next]) /\ SubSeq(names[next], 1, n) = SubSeq(rest, 1, n)
    <3>1. names[next] \in Seq(Letters) /\ rest \in Seq(Letters) /\ SameN(names[next], rest, n)
      BY <1>11, <1>12, <1>15
    <3>. QED  BY <2>1, <3>1, SameBeginning
  <2>. QED  BY <2>2, <2>3
<1>17. Fits(i, w, names[next]) \/ Shows(i, w, names[next]) = i
  <2>. HIDE DEF next
  <2>. QED  BY <1>1, <1>15, <1>16, MatchShows
<1>18. CASE Shows(i, w, names[next]) = i
  <2>. HIDE DEF ch, next
  <2>. QED  BY <1>11, <1>18
<1>19. CASE Fits(i, w, names[next])
  <2>. HIDE DEF ch, next
  <2>. QED  BY <1>11, <1>14, <1>19 DEF ShowsFrom
<1>. QED  BY <1>17, <1>18, <1>19

\* What is put behind something ends it.
LEMMA SuffixOfConcat ==
    ASSUME NEW S, NEW p \in Seq(S), NEW s \in Seq(S)
    PROVE  IsSuffix(s, p \o s)
<1> DEFINE t == p \o s
           a == Reverse(s)
           b == Reverse(t)
           n == Len(s)
           m == Len(p)
           f == SubSeq(b, 1, n)
<1>1. t \in Seq(S) /\ Len(t) = m + n /\ m \in Nat /\ n \in Nat /\ \A k \in 1 .. n : t[m + k] = s[k]
  BY ConcatSeq, ConcatElements
<1>. HIDE DEF t, m, n
<1>2. \A q \in Seq(S) : /\ Reverse(q) \in Seq(S) /\ Len(Reverse(q)) = Len(q)
                        /\ \A k \in 1 .. Len(q) : Reverse(q)[k] = q[(Len(q) - k) + 1]
  <2>. SUFFICES ASSUME NEW q \in Seq(S)
                PROVE  /\ Reverse(q) \in Seq(S) /\ Len(Reverse(q)) = Len(q)
                       /\ \A k \in 1 .. Len(q) : Reverse(q)[k] = q[(Len(q) - k) + 1]
    OBVIOUS
  <2> DEFINE l == Len(q)
             r == [k \in 1 .. l |-> q[(l - k) + 1]]
  <2>1. l \in Nat /\ \A k \in 1 .. l : q[k] \in S
    BY ElementOfSeq
  <2>2. Reverse(q) = r
    BY DEF Reverse
  <2>. HIDE DEF l
  <2>3. \A k \in 1 .. l : (l - k) + 1 \in 1 .. l
    BY <2>1
  <2>4. r \in [1 .. l -> S]
    BY <2>1, <2>3
  <2>5. r \in Seq(S) /\ Len(r) = l
    <3>. HIDE DEF r
    <3>. QED  BY <2>1, <2>4
  <2>6. \A k \in 1 .. l : r[k] = q[(l - k) + 1]
    OBVIOUS
  <2>. HIDE DEF r
  <2>. QED  BY <2>2, <2>5, <2>6 DEF l
<1>3. /\ a \in Seq(S) /\ Len(a) = n /\ \A k \in 1 .. n : a[k] = s[(n - k) + 1]
  BY <1>2 DEF n
<1>4. /\ b \in Seq(S) /\ Len(b) = m + n /\ \A k \in 1 .. m + n : b[k] = t[(m + n - k) + 1]
  <2>1. b \in Seq(S) /\ Len(b) = Len(t) /\ \A k \in 1 .. Len(t) : b[k] = t[(Len(t) - k) + 1]
    BY <1>1, <1>2
  <2>. HIDE DEF b
  <2>. QED  BY <1>1, <2>1
<1>. HIDE DEF a, b
<1>5. f \in Seq(S) /\ Len(f) = n /\ \A k \in 1 .. n : f[k] = b[k]
  <2>1. n \in 0 .. Len(b)
    BY <1>1, <1>4
  <2>. QED  BY <1>4, <2>1, SplitSeq
<1>. HIDE DEF f
<1>6. ASSUME NEW k \in 1 .. n PROVE f[k] = a[k]
  <2>1. k \in 1 .. m + n /\ (n - k) + 1 \in 1 .. n /\ (m + n - k) + 1 = m + ((n - k) + 1)
    BY <1>1
  <2>2. b[k] = t[m + ((n - k) + 1)]
    BY <1>4, <2>1
  <2>3. t[m + ((n - k) + 1)] = s[(n - k) + 1]
    BY <1>1, <2>1
  <2>. QED  BY <1>3, <1>5, <2>2, <2>3
<1>7. f = a
  BY <1>1, <1>3, <1>5, <1>6, SeqEqual
<1>8. SubSeq(a, 1, n) = a
  BY <1>3, <1>1
<1>9. Len(a) <= Len(b)
  BY <1>1, <1>3, <1>4
<1>10. SubSeq(a, 1, Len(a)) = SubSeq(b, 1, Len(a))
  BY <1>3, <1>7, <1>8 DEF f
<1>. QED  BY <1>9, <1>10 DEF IsSuffix, IsPrefix, a, b, t

\* What is put before something begins it.
LEMMA PrefixOfConcat ==
    ASSUME NEW S, NEW p \in Seq(S), NEW s \in Seq(S)
    PROVE  IsPrefix(p, p \o s)
<1>1. SubSeq(p \o s, 1, Len(p)) = p /\ SubSeq(p, 1, Len(p)) = p
  BY ConcatSplit
<1>2. Len(p \o s) = Len(p) + Len(s) /\ Len(p) \in Nat /\ Len(s) \in Nat
  BY ConcatSeq
<1>3. Len(p) <= Len(p \o s)
  BY <1>2
<1>. QED  BY <1>1, <1>3 DEF IsPrefix

\* Completing n times.
LEMMA CompletingTurns ==
    ASSUME NEW i, Line(i), NEW n \in Nat
    PROVE  LET g == Completing(i, n) IN
           g[0] = i /\ \A k \in 1 .. n : g[k] = FindNextCmd(g[k - 1])
<1> DEFINE X == {x \in LineType : BeginOK(x)}
           G(x) == FindNextCmd(x)
           Turns(f) == f = [k \in 0 .. n |-> IF k = 0 THEN i ELSE G(f[k - 1])]
           g == [k \in 1 .. n |-> [x \in X |-> G(x)]]
           h == Completing(i, n)
<1>1. h = CHOOSE f : Turns(f)
  BY DEF Completing
<1>. HIDE DEF h
<1>2. i \in X /\ \A x \in X : G(x) \in X
  <2>1. \A x \in X : Line(x)
    BY DEF Line
  <2>2. \A x \in X : G(x) \in LineType /\ BeginOK(G(x))
    BY <2>1, FindNextCmdEdits DEF Edited
  <2>3. i \in X
    BY DEF Line
  <2>. QED  BY <2>2, <2>3
<1>. HIDE DEF G, X
<1>3. PICK s : s \in [0 .. n -> X] /\ IsLoop(s, i, g, n)
  <2>1. TurnsIn(X, g, n)
    BY <1>2 DEF TurnsIn
  <2>. HIDE DEF g
  <2>. QED  BY <1>2, <2>1, LoopExists
<1>4. s[0] = i /\ \A k \in 1 .. n : s[k] = G(s[k - 1]) /\ s[k] \in X
  <2>1. ASSUME NEW k \in 1 .. n PROVE s[k] = G(s[k - 1]) /\ s[k] \in X
    <3>1. s[k] = g[k][s[k - 1]] /\ s[k - 1] \in X /\ s[k] \in X
      <4>. HIDE DEF g
      <4>. QED  BY <1>3 DEF IsLoop
    <3>. QED  BY <3>1
  <2>. QED  BY <1>3, <2>1 DEF IsLoop
<1>5. Turns(s)
  <2>1. s = [k \in 0 .. n |-> s[k]]
    BY <1>3
  <2>2. \A k \in 0 .. n : s[k] = IF k = 0 THEN i ELSE G(s[k - 1])
    BY <1>4
  <2>. QED  BY <2>1, <2>2
<1>6. Turns(h)
  <2>. HIDE DEF Turns
  <2>. QED  BY <1>1, <1>5
<1>7. \A k \in 0 .. n : h[k] = IF k = 0 THEN i ELSE G(h[k - 1])
  <2> DEFINE ff == [k \in 0 .. n |-> IF k = 0 THEN i ELSE G(h[k - 1])]
  <2>1. h = ff
    BY <1>6
  <2>2. \A k \in 0 .. n : ff[k] = IF k = 0 THEN i ELSE G(h[k - 1])
    OBVIOUS
  <2>. HIDE DEF ff
  <2>. QED  BY <2>1, <2>2
<1>8. h[0] = i /\ \A k \in 1 .. n : h[k] = G(h[k - 1])
  BY <1>7
<1>. QED  BY <1>8, Zenon DEF h, G

\* No set has more names than MaxNames.
LEMMA NamesUpTo == MaxNames \in Nat /\ \A names \in Names : Len(names) <= MaxNames
<1> DEFINE n == Len(SubSets)
           L == {Len(names) : names \in Names}
           l(k) == Len(SubSets[k].names)
           T == {m \in 0 .. n : \E b \in Nat : Len(MainCmds) <= b /\ \A k \in 1 .. m : l(k) <= b}
<1>1. n \in Nat /\ \A k \in 1 .. n : l(k) \in Nat /\ SubSets[k].names \in Names
  <2>1. n \in Nat /\ \A k \in 1 .. n : SubSets[k].names \in Names
    BY InputAssumption DEF Names
  <2>. QED  BY <2>1, NamesOf
<1>2. MainCmds \in Names /\ Len(MainCmds) \in Nat
  BY NamesOf DEF Names
<1>. HIDE DEF l
<1>3. 0 \in T
  BY <1>1, <1>2
<1>4. ASSUME NEW m \in 1 .. n, m - 1 \in T PROVE m \in T
  <2>1. PICK b \in Nat : Len(MainCmds) <= b /\ \A k \in 1 .. m - 1 : l(k) <= b
    BY <1>4
  <2>2. l(m) \in Nat
    BY <1>1
  <2>3. PICK c \in Nat : b <= c /\ l(m) <= c
    <3>1. b <= b + l(m) /\ l(m) <= b + l(m) /\ b + l(m) \in Nat
      BY <2>2
    <3>. QED  BY <3>1
  <2>4. \A k \in 1 .. m : l(k) <= c
    <3>. SUFFICES ASSUME NEW k \in 1 .. m PROVE l(k) <= c
      OBVIOUS
    <3>1. CASE k = m
      BY <2>3, <3>1
    <3>2. CASE k # m
      <4>1. k \in 1 .. m - 1 /\ k \in 1 .. n
        BY <3>2, <1>1
      <4>2. l(k) <= b /\ l(k) \in Nat
        BY <1>1, <2>1, <4>1
      <4>. QED  BY <2>3, <4>2
    <3>. QED  BY <3>1, <3>2
  <2>5. Len(MainCmds) <= c
    BY <1>2, <2>1, <2>3
  <2>6. m \in 0 .. n
    BY <1>1
  <2>. QED  BY <2>4, <2>5, <2>6
<1>5. n \in T
  <2>1. n \in 0 .. n
    BY <1>1
  <2>. HIDE DEF T, n
  <2>2. \A k \in 0 .. n : k \in T
    <3>1. \A k \in 1 .. n : k - 1 \in T => k \in T
      BY <1>4
    <3>. QED  BY <1>1, <1>3, <3>1, UpToInduction
  <2>. QED  BY <2>1, <2>2
<1>6. PICK b \in Nat : Len(MainCmds) <= b /\ \A k \in 1 .. n : l(k) <= b
  BY <1>5
<1>7. L \in SUBSET (0 .. b) /\ L # {}
  <2>1. \A names \in Names : Len(names) \in 0 .. b
    <3>. SUFFICES ASSUME NEW names \in Names PROVE Len(names) \in 0 .. b
      OBVIOUS
    <3>1. Len(names) \in Nat
      BY NamesOf
    <3>2. names = MainCmds \/ \E k \in 1 .. n : names = SubSets[k].names
      BY DEF Names
    <3>3. Len(names) <= b
      BY <1>6, <3>2 DEF l
    <3>. QED  BY <3>1, <3>3
  <2>. QED  BY <1>2, <2>1
<1>8. Max(L) \in L /\ \A x \in L : x <= Max(L)
  <2>. HIDE DEF L
  <2>. QED  BY <1>7, MaxOf
<1>9. MaxNames = Max(L)
  BY DEF MaxNames
<1>10. \A names \in Names : Len(names) \in L
  OBVIOUS
<1>. HIDE DEF L
<1>11. Max(L) \in Nat
  <2>1. \A x \in 0 .. b : x \in Nat
    OBVIOUS
  <2>. QED  BY <1>7, <1>8, <2>1, Zenon
<1>. QED  BY <1>8, <1>9, <1>10, <1>11

\* A line in which a name is shown ends, up to the cursor, with that name, and
\* starts with what was typed.
LEMMA ShownEnds ==
    ASSUME NEW i, Completable(i), HasNames(i), NEW j, ShowsFrom(i, j, 1)
    PROVE  EndsWithAName(j) /\ IsPrefix(Before(i), Before(j))
<1> DEFINE w == Completion(i).word
           names == Completion(i).names
<1>1. w \in Nat /\ w <= At(i) /\ names \in Names
  BY DEF HasNames
<1>2. PICK k \in 1 .. Len(names) : j = Shows(i, w, names[k]) /\ Fits(i, w, names[k])
  BY DEF ShowsFrom
<1> DEFINE name == names[k]
<1>3. name \in Seq(Letters) /\ name \in AllNames
  BY <1>1, <1>2, NamesOf
<1>. HIDE DEF w, names
<1>4. Shown(i, w, name, j)
  <2>1. j = Shows(i, w, name) /\ Fits(i, w, name)
    BY <1>2
  <2>. HIDE DEF name
  <2>. QED  BY <1>1, <2>1, ShowsLine
<1>. HIDE DEF name
<1>5. /\ At(i) \in Nat /\ B(i) \in Seq(Letters) /\ SubSeq(B(i), 1, w) \in Seq(Letters)
  BY <1>1, WordCut
<1>6. Before(i) = B(i) /\ Before(j) = B(j)
  <2>1. i \in LineType /\ InText(i) /\ j \in LineType /\ InText(j)
    BY <1>4 DEF Completable, Line, Shown
  <2>. QED  BY <2>1, Sides
<1>7. name # <<>>
  <2>1. At(i) - w < Len(name)
    BY <1>2 DEF Fits, name
  <2>. QED  BY <1>1, <1>5, <2>1
<1>8. EndsWithAName(j)
  <2>1. B(j) = SubSeq(B(i), 1, w) \o name
    BY <1>4 DEF Shown
  <2>2. IsSuffix(name, B(j))
    BY <1>3, <1>5, <2>1, SuffixOfConcat
  <2>. QED  BY <1>3, <1>6, <1>7, <2>2 DEF EndsWithAName
<1>9. IsPrefix(Before(i), Before(j))
  <2>1. B(j) = B(i) \o Missing(i, w, name)
    BY <1>4 DEF Shown
  <2>2. Missing(i, w, name) \in Seq(Letters)
    <3> DEFINE n == At(i) - w
    <3>1. n \in Nat /\ n < Len(name) /\ Len(name) \in Nat
      <4>1. n < Len(name)
        BY <1>2 DEF Fits, name
      <4>. QED  BY <1>1, <1>3, <1>5, <4>1
    <3>2. Missing(i, w, name) = SubSeq(name, n + 1, Len(name))
      BY DEF Missing
    <3>. HIDE DEF n
    <3>3. n \in 0 .. Len(name)
      BY <3>1
    <3>. QED  BY <1>3, <3>2, <3>3, SplitSeq
  <2>. QED  BY <1>5, <1>6, <2>1, <2>2, PrefixOfConcat
<1>. QED  BY <1>8, <1>9

\* After k turns the line has come round, or only names have been shown, each
\* further down than the one before.
CameRound(i, g, n) == g[n] = i /\ \A q \in 1 .. n - 1 : HasNames(i) /\ ShowsFrom(i, g[q], 1)
GoesOn(i, g, k) == \A q \in 1 .. k : HasNames(i) /\ ShowsFrom(i, g[q], q)

\* The next turn is one of these again.
LEMMA TurnOn ==
    ASSUME NEW i, Completable(i), i.ok = "ok", FindNextCmd(i).ok = "ok",
           NEW g, NEW k \in Nat \ {0}, g[0] = i, g[k] = FindNextCmd(g[k - 1]), GoesOn(i, g, k - 1)
    PROVE  CameRound(i, g, k) \/ GoesOn(i, g, k)
<1>1. \A j, q : q \in Nat \ {0} /\ ShowsFrom(i, j, q) => ShowsFrom(i, j, 1)
  <2>. SUFFICES ASSUME NEW j, NEW q \in Nat \ {0}, ShowsFrom(i, j, q) PROVE ShowsFrom(i, j, 1)
    OBVIOUS
  <2>1. PICK x \in q .. Len(Completion(i).names) :
            /\ j = Shows(i, Completion(i).word, Completion(i).names[x])
            /\ Fits(i, Completion(i).word, Completion(i).names[x])
    BY DEF ShowsFrom
  <2>2. x \in 1 .. Len(Completion(i).names)
    OBVIOUS
  <2>. QED  BY <2>1, <2>2 DEF ShowsFrom
<1>2. g[k] = i \/ (HasNames(i) /\ ShowsFrom(i, g[k], k))
  <2>1. CASE k = 1
    <3>1. g[k] = FindNextCmd(i)
      BY <2>1
    <3>. QED  BY <2>1, <3>1, FirstTurn
  <2>2. CASE k # 1
    <3>1. k - 1 \in 1 .. k - 1
      BY <2>2
    <3>2. HasNames(i) /\ ShowsFrom(i, g[k - 1], k - 1)
      BY <3>1 DEF GoesOn
    <3> DEFINE w == Completion(i).word
               names == Completion(i).names
    <3>3. PICK x \in k - 1 .. Len(names) : g[k - 1] = Shows(i, w, names[x]) /\ Fits(i, w, names[x])
      BY <3>2 DEF ShowsFrom
    <3>4. x \in 1 .. Len(names) /\ x + 1 >= k /\ x \in Nat
      BY <3>1
    <3>. HIDE DEF w, names
    <3>5. g[k] = i \/ ShowsFrom(i, g[k], x + 1)
      <4>1. w = Completion(i).word /\ names = Completion(i).names
        BY DEF w, names
      <4> DEFINE name == names[x]
                 j == g[k - 1]
                 y == g[k]
      <4>2. name = names[x] /\ Fits(i, w, name) /\ j = Shows(i, w, name) /\ y = FindNextCmd(j)
        BY <3>3
      <4>. HIDE DEF name, j, y
      <4>3. y = i \/ ShowsFrom(i, y, x + 1)
        BY <3>2, <3>4, <4>1, <4>2, NextTurn
      <4>. QED  BY <4>3 DEF y
    <3>6. ASSUME ShowsFrom(i, g[k], x + 1) PROVE ShowsFrom(i, g[k], k)
      <4>1. PICK z \in x + 1 .. Len(Completion(i).names) :
                /\ g[k] = Shows(i, Completion(i).word, Completion(i).names[z])
                /\ Fits(i, Completion(i).word, Completion(i).names[z])
        BY <3>6 DEF ShowsFrom
      <4>2. z \in k .. Len(Completion(i).names)
        BY <3>4
      <4>. QED  BY <4>1, <4>2 DEF ShowsFrom
    <3>. QED  BY <3>2, <3>5, <3>6
  <2>. QED  BY <2>1, <2>2
<1>3. CASE g[k] = i
  <2>1. ASSUME NEW q \in 1 .. k - 1 PROVE HasNames(i) /\ ShowsFrom(i, g[q], 1)
    <3>1. HasNames(i) /\ ShowsFrom(i, g[q], q) /\ q \in Nat \ {0}
      BY DEF GoesOn
    <3>. QED  BY <1>1, <3>1
  <2>. QED  BY <1>3, <2>1 DEF CameRound
<1>4. CASE HasNames(i) /\ ShowsFrom(i, g[k], k)
  <2>1. ASSUME NEW q \in 1 .. k PROVE HasNames(i) /\ ShowsFrom(i, g[q], q)
    <3>1. CASE q = k
      BY <1>4, <3>1
    <3>2. CASE q # k
      <4>1. q \in 1 .. k - 1
        BY <3>2
      <4>. QED  BY <4>1 DEF GoesOn
    <3>. QED  BY <3>1, <3>2
  <2>. QED  BY <2>1 DEF GoesOn
<1>. QED  BY <1>2, <1>3, <1>4

\* Pressing the completion key again and again, cmd_input_find_next_cmd shows
\* names that start with what was typed, each further down in its table than the
\* one before, and then the line as it was, with the cursor where it was: after
\* as many turns as a set has names, and one more, at the latest.
THEOREM CompletionRound == Spec => []CompletionGoesRound
<1>1. ASSUME Line(inp) PROVE CompletionGoesRound
  <2>. SUFFICES ASSUME Sound, inp.begin = inp.cur, At(inp) > 0, FindNextCmd(inp).ok = "ok"
                PROVE  LET line == Completing(inp, MaxNames + 1) IN
                       \E n \in 1 .. MaxNames + 1 :
                          /\ line[n].text = inp.text /\ line[n].cur = inp.cur
                          /\ \A k \in 1 .. n - 1 :
                                EndsWithAName(line[k]) /\ IsPrefix(Before(inp), Before(line[k]))
    BY DEF CompletionGoesRound
  <2> DEFINE N == MaxNames + 1
             g == Completing(inp, N)
             T == {k \in 0 .. N : (\E n \in 1 .. k : CameRound(inp, g, n)) \/ GoesOn(inp, g, k)}
  <2>1. Completable(inp) /\ inp.ok = "ok"
    BY <1>1 DEF Sound, Completable
  <2>2. N \in Nat \ {0} /\ MaxNames \in Nat /\ N > MaxNames
    BY NamesUpTo
  <2>3. g[0] = inp /\ \A k \in 1 .. N : g[k] = FindNextCmd(g[k - 1])
    <3>. HIDE DEF N
    <3>. QED  BY <1>1, <2>2, CompletingTurns
  <2>. HIDE DEF N, g
  <2>4. 0 \in T
    BY <2>2 DEF GoesOn
  <2>5. ASSUME NEW k \in 1 .. N, k - 1 \in T PROVE k \in T
    <3>1. k \in Nat \ {0} /\ k \in 0 .. N /\ g[k] = FindNextCmd(g[k - 1])
      BY <2>2, <2>3
    <3>2. CASE \E n \in 1 .. k - 1 : CameRound(inp, g, n)
      <4>1. PICK n \in 1 .. k - 1 : CameRound(inp, g, n)
        BY <3>2
      <4>2. n \in 1 .. k
        BY <3>1
      <4>. QED  BY <3>1, <4>1, <4>2
    <3>3. CASE GoesOn(inp, g, k - 1)
      <4>1. CameRound(inp, g, k) \/ GoesOn(inp, g, k)
        BY <2>1, <2>3, <3>1, <3>3, TurnOn
      <4>2. k \in 1 .. k
        BY <3>1
      <4>. QED  BY <3>1, <4>1, <4>2
    <3>. QED  BY <2>5, <3>2, <3>3
  <2>6. N \in T
    <3>1. N \in 0 .. N
      BY <2>2
    <3>. HIDE DEF T
    <3>2. \A k \in 1 .. N : k - 1 \in T => k \in T
      BY <2>5
    <3>3. \A k \in 0 .. N : k \in T
      BY <2>2, <2>4, <3>2, UpToInduction
    <3>. QED  BY <3>1, <3>3
  <2>7. ~GoesOn(inp, g, N)
    <3>. SUFFICES ASSUME GoesOn(inp, g, N) PROVE FALSE
      OBVIOUS
    <3>1. HasNames(inp) /\ ShowsFrom(inp, g[N], N)
      BY <2>2 DEF GoesOn
    <3>2. PICK k \in N .. Len(Completion(inp).names) : TRUE
      BY <3>1 DEF ShowsFrom
    <3>3. Len(Completion(inp).names) <= MaxNames /\ Len(Completion(inp).names) \in Nat
      BY <3>1, NamesUpTo, NamesOf DEF HasNames
    <3>. QED  BY <2>2, <3>2, <3>3
  <2>8. PICK n \in 1 .. N : CameRound(inp, g, n)
    BY <2>6, <2>7
  <2>9. g[n].text = inp.text /\ g[n].cur = inp.cur
    BY <2>8 DEF CameRound
  <2>10. \A k \in 1 .. n - 1 : EndsWithAName(g[k]) /\ IsPrefix(Before(inp), Before(g[k]))
    <3>. SUFFICES ASSUME NEW k \in 1 .. n - 1
                  PROVE  EndsWithAName(g[k]) /\ IsPrefix(Before(inp), Before(g[k]))
      OBVIOUS
    <3>1. HasNames(inp) /\ ShowsFrom(inp, g[k], 1)
      BY <2>8 DEF CameRound
    <3>. QED  BY <2>1, <3>1, ShownEnds
  <2>. QED  BY <2>9, <2>10 DEF g, N
<1>2. Line(inp) => CompletionGoesRound
  BY <1>1
<1>. QED  BY <1>2, LinesAreLines, PTL
=============================================================================
