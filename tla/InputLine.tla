----------------------------- MODULE InputLine ------------------------------
(***************************************************************************)
(* The input line and its history: ncic_input.c, the /input and /history   *)
(* commands that a key or a typed line runs, the HISTORY_LEN handler of    *)
(* ncic_set.c, and the completion of commands by cmd_input_find_next_cmd.  *)
(*                                                                         *)
(*   text      input_buf up to its terminator (so len is Len(text))        *)
(*   cur       the cursor, counted from the start of the prompt: uint16_t  *)
(*   begin     begin_completion                                            *)
(*   prompt    prompt_len                                                  *)
(*   hist      the history list, newest line first                         *)
(*   hcur      history_cur: an index in hist, 0 for NULL; an index beyond  *)
(*             the list is a node that was freed                           *)
(*   hlen      history_len, the count kept beside the list                 *)
(*   head      whether input->history may be followed: pruning the last    *)
(*             node frees it and leaves the pointer behind                 *)
(*   ok        "freed" once freed memory, "buffer" once a byte outside     *)
(*             input_buf was touched: nothing can be said of it after that *)
(*                                                                         *)
(* A character is a string of length one, upper and lower case are one.    *)
(* history_end is the last node, or NULL with the list empty, and is left  *)
(* out; so is the flag that asks for the line to be drawn.                 *)
(***************************************************************************)
EXTENDS Integers, Sequences, SequencesExt

CONSTANTS
    Chars,        \* the characters that are typed
    Slash, Blank, \* '/' and ' '
    Strings,      \* arguments of /input insert and /input send
    PromptLens,   \* lengths of the prompts set
    Widths,       \* widths of the screen
    HistLens,     \* values HISTORY_LEN is set to
    MainCmds,     \* the names of the / command set, in order
    SubSets,      \* the other sets: [type |-> name with a blank, names |-> ...]
    InputBufferLen,  \* INPUT_BUFFER_LEN
    Word,            \* what fits in cur, 2^16 in the code
    MaxHistory,      \* MAX_HISTORY_LEN
    Kept,            \* bound: the lines that go into the history
    MaxLines         \* bound: lines in the history

\* The command sets, the names in them, and what can get into the line.
Names == {MainCmds} \cup {SubSets[k].names : k \in 1 .. Len(SubSets)}
AllNames == UNION {ToSet(names) : names \in Names}
Letters == Chars \cup {Slash} \cup UNION {ToSet(name) : name \in AllNames}

ASSUME InputAssumption ==
    /\ MainCmds \in Seq(Seq(Letters))
    /\ SubSets \in Seq([type : Seq(Letters \cup {Blank}), names : Seq(Seq(Letters))])
    /\ Strings \subseteq Seq(Chars)
    /\ PromptLens \subseteq Nat /\ 0 \in PromptLens
    /\ Widths \subseteq Nat \ {0}
    /\ HistLens \subseteq Nat
    /\ InputBufferLen \in Nat /\ InputBufferLen > 1
    /\ Word \in Nat /\ Word > InputBufferLen
    /\ MaxHistory \in Nat /\ MaxHistory > 1
    /\ Kept \subseteq Seq(Chars)
    /\ MaxLines \in Nat

\* The tables are in the order that bsearch needs: a name comes after those it
\* starts with.  None has a blank.
ASSUME NamesAssumption ==
    \A names \in Names : \A k \in 1 .. Len(names) :
        names[k] # <<>> =>
            /\ \A j \in 1 .. k - 1 : ~IsPrefix(names[k], names[j])
            /\ Blank \notin ToSet(names[k])

VARIABLE inp

InputInit(w) ==
    [text |-> <<>>, cur |-> 0, begin |-> 0, prompt |-> 0, width |-> w,
     hist |-> <<>>, hcur |-> 0, hlen |-> 0, head |-> TRUE, ok |-> "ok"]

OutOfBuffer(i) == [i EXCEPT !.ok = "buffer"]
Freed(i) == [i EXCEPT !.ok = "freed"]

\* cur - prompt_len, which the code computes unsigned; a cursor that is not in
\* the text makes memmove leave the buffer.
At(i) == i.cur - i.prompt
InText(i) == At(i) \in 0 .. Len(i.text)
Before(i) == SubSeq(i.text, 1, At(i))
After(i) == SubSeq(i.text, At(i) + 1, Len(i.text))

\* Text and cursor as most operations leave them.
Put(i, before, after) ==
    [i EXCEPT !.text = before \o after, !.cur = Len(before) + i.prompt,
              !.begin = Len(before) + i.prompt]
Jump(i, n) == [i EXCEPT !.cur = n, !.begin = n]

-----------------------------------------------------------------------------
(* Editing.  Each is an operator from input lines to input lines.          *)

Delete(i) ==
    IF ~InText(i) THEN OutOfBuffer(i)
    ELSE IF After(i) = <<>> THEN i
    ELSE Put(i, Before(i), Tail(After(i)))

Bkspace(i) ==
    IF ~InText(i) THEN OutOfBuffer(i)
    ELSE IF At(i) = 0 THEN i
    ELSE Put(i, Front(Before(i)), After(i))

\* Variant: the tail of the line is overwritten and not moved.
InsertStrOverwrites(i, s) ==
    IF Len(i.text) + Len(s) >= InputBufferLen THEN i
    ELSE IF ~InText(i) THEN OutOfBuffer(i)
    ELSE Put(i, Before(i) \o s, SubSeq(After(i), Len(s) + 1, Len(After(i))))

InsertStr(i, s) ==
    IF Len(i.text) + Len(s) >= InputBufferLen THEN i
    ELSE IF ~InText(i) THEN OutOfBuffer(i)
    ELSE Put(i, Before(i) \o s, After(i))

\* input_insert: the same for one character, but for the beep.
Insert(i, c) ==
    IF Len(i.text) >= InputBufferLen - 1 THEN i
    ELSE IF ~InText(i) THEN OutOfBuffer(i)
    ELSE Put(i, Append(Before(i), c), After(i))

ClearLine(i) == Put(i, <<>>, <<>>)
ClearToStart(i) == IF InText(i) THEN Put(i, <<>>, After(i)) ELSE OutOfBuffer(i)
ClearToEnd(i) == IF InText(i) THEN Put(i, Before(i), <<>>) ELSE OutOfBuffer(i)

Home(i) == Jump(i, i.prompt)
End(i) == Jump(i, Len(i.text) + i.prompt)
MoveLeft(i) == Jump(i, IF i.cur > i.prompt THEN i.cur - 1 ELSE i.cur)
MoveRight(i) == Jump(i, IF i.cur < Len(i.text) + i.prompt THEN i.cur + 1 ELSE i.cur)

\* The last index below n whose character is, or is not, a blank; 0 if none.
LastBlank(t, n)    == Max({0} \cup {k \in 1 .. n : t[k] = Blank})
LastNonBlank(t, n) == Max({0} \cup {k \in 1 .. n : t[k] # Blank})

\* Variant: only one blank before the cursor is skipped.
PrevWordOneBlank(i) ==
    IF ~InText(i) THEN OutOfBuffer(i)
    ELSE IF At(i) = 0 THEN i
    ELSE Jump(i, i.prompt + LastBlank(i.text, At(i) - 1))

\* input_prev_word: back over the blanks, then over the word.
PrevWord(i) ==
    IF ~InText(i) THEN OutOfBuffer(i)
    ELSE IF At(i) = 0 THEN i
    ELSE Jump(i, i.prompt + LastBlank(i.text, LastNonBlank(i.text, At(i))))

ClearPrevWord(i) ==
    IF i.cur = i.prompt THEN i
    ELSE IF ~InText(i) THEN OutOfBuffer(i)
    ELSE Put(i, Before(PrevWord(i)), After(i))

\* input_next_word: over the blanks, over the word, and over one blank more.
NextWord(i) ==
    LET n     == Len(i.text)
        word  == Min({n + 1} \cup {k \in At(i) + 1 .. n : i.text[k] # Blank})
        blank == Min({n + 1} \cup {k \in word .. n : i.text[k] = Blank})
    IN  IF ~InText(i) THEN OutOfBuffer(i)
        ELSE IF At(i) = n THEN i
        ELSE Jump(i, i.prompt + (IF blank <= n THEN blank ELSE n))

ClearNextWord(i) ==
    IF i.cur = Len(i.text) + i.prompt THEN i
    ELSE IF ~InText(i) THEN OutOfBuffer(i)
    ELSE Put(i, Before(i), After(NextWord(i)))

\* input_set_prompt; the cursor moves with the text, modulo the word.
SetPrompt(i, n) ==
    IF n >= i.width THEN i
    ELSE [Jump(i, (At(i) + n) % Word) EXCEPT !.prompt = n]

\* input_set_buf: places the cursor without the prompt.
SetBuf(i, s) ==
    IF Len(s) >= InputBufferLen - 1 THEN i ELSE [Jump(i, Len(s)) EXCEPT !.text = s]

\* Variant: a line that is scrolled starts where the prompt does.
PartialKeepsPrompt(i) ==
    IF i.prompt >= i.width THEN -1
    ELSE IF i.cur >= i.width THEN (i.cur \div i.width) * i.width
    ELSE 0

\* input_partial and input_get_cursor_pos: the first character shown, -1 if
\* nothing is drawn, and the column of the cursor.
Partial(i) ==
    IF i.prompt >= i.width THEN -1
    ELSE IF i.cur >= i.width THEN (i.cur \div i.width) * i.width - i.prompt
    ELSE 0
CursorPos(i) == i.cur % i.width

-----------------------------------------------------------------------------
(* History.                                                                *)

\* Variant: one line more than allowed is pruned.
HistoryPruneOneMore(i) ==
    LET over == i.hlen - MaxHistory
        gone == IF over <= 0 THEN 0 ELSE Min({over + 1, Len(i.hist)})
    IN  [i EXCEPT !.hist = SubSeq(@, 1, Len(@) - gone), !.hlen = @ - gone,
                  !.head = @ /\ ~(gone > 0 /\ gone = Len(i.hist))]

\* input_history_prune: from the end, as long as the count is too high.  The
\* list that dlist_remove returns is not looked at.
HistoryPrune(i) ==
    LET over == i.hlen - MaxHistory
        gone == IF over <= 0 THEN 0 ELSE Min({over, Len(i.hist)})
    IN  [i EXCEPT !.hist = SubSeq(@, 1, Len(@) - gone), !.hlen = @ - gone,
                  !.head = @ /\ ~(gone > 0 /\ gone = Len(i.hist))]

HistoryAdd(i) ==
    IF ~i.head THEN Freed(i)
    ELSE HistoryPrune([i EXCEPT !.hist = <<i.text>> \o @, !.hcur = 0, !.hlen = @ + 1])

\* The line at place k is copied into the buffer.
Recall(i, k) ==
    IF k > Len(i.hist) THEN Freed([i EXCEPT !.hcur = k])
    ELSE Put([i EXCEPT !.hcur = k], i.hist[k], <<>>)

\* input_history_prev.  Entering the history keeps the line that was being
\* typed; the place, read before, is then one further down.
HistoryPrev(i) ==
    IF ~i.head THEN Freed(i)
    ELSE IF i.hist = <<>> THEN i
    ELSE IF i.hcur = 0 THEN
        IF i.text = <<>> THEN Recall(i, 1) ELSE Recall(HistoryAdd(i), 2)
    ELSE IF i.hcur > Len(i.hist) THEN Freed(i)
    ELSE IF i.hcur < Len(i.hist) THEN Recall(i, i.hcur + 1)
    ELSE i

\* Variant: the newest line cannot be reached from older ones.
HistoryNextTooSoon(i) ==
    CASE i.hcur = 0 -> i
      [] i.hcur \in {1, 2} -> ClearLine([i EXCEPT !.hcur = 0])
      [] i.hcur > Len(i.hist) -> Freed(i)
      [] OTHER -> Recall(i, i.hcur - 1)

\* input_history_next: beyond the newest line is an empty one.
HistoryNext(i) ==
    CASE i.hcur = 0 -> i
      [] i.hcur = 1 /\ i.hist # <<>> -> ClearLine([i EXCEPT !.hcur = 0])
      [] i.hcur > Len(i.hist) -> Freed(i)
      [] OTHER -> Recall(i, i.hcur - 1)

HistoryClear(i) ==
    IF ~i.head THEN Freed(i)
    ELSE ClearLine([i EXCEPT !.hist = <<>>, !.hcur = 0, !.hlen = 0])

\* wopt_changed_histlen: the value, cut to 16 bits, goes into history_len and
\* not into max_history_len.
ChangedHistlen(i, n) == HistoryPrune([i EXCEPT !.hlen = n % Word])

\* cmd_input_send, without and with an argument.  What it runs or sends then
\* is another action.
Send(i) == IF i.text = <<>> THEN i ELSE ClearLine(HistoryAdd(i))
SendArgs(i, s) ==
    LET set == SetBuf(i, s) IN IF set.text = <<>> THEN set ELSE ClearLine(set)

-----------------------------------------------------------------------------
(* Completion of command names.                                            *)

\* strncasecmp(a, b, n) == 0, where n may be "negative": a huge size_t.
SameN(a, b, n) ==
    IF n < 0 THEN a = b
    ELSE SubSeq(a, 1, Min({n, Len(a)})) = SubSeq(b, 1, Min({n, Len(b)}))

\* The word the cursor is in, and the names it may be completed to: nothing
\* where the code returns.  In a word after the first, the first word must be
\* the type of a set (protocols have no commands), and the blanks before the
\* word are skipped from the end of the first word, wherever the cursor is.
CompletionOf(t, begin) ==
    LET end  == Min({Len(t) + 1} \cup {k \in 2 .. Len(t) : t[k] = Blank}) - 1
        sets == {k \in 1 .. Len(SubSets) : SameN(SubSets[k].type, Tail(t), end)}
        word == Min({Len(t) + 1} \cup {k \in end + 1 .. Len(t) : t[k] # Blank}) - 1
    IN  IF end >= begin THEN [word |-> 1, names |-> MainCmds]
        ELSE IF sets = {} THEN [word |-> 0, names |-> <<>>]
        ELSE [word |-> word, names |-> SubSets[Min(sets)].names]

\* Variant: the next name is taken whether it matches or not.
ChosenNameAnyNext(names, rest, typed, shown, again) ==
    LET fits  == {k \in 1 .. Len(names) : names[k] # <<>> /\ SameN(names[k], rest, shown)}
        fresh == {k \in fits : Len(names[k]) # shown}
    IN  IF ~again THEN (IF fresh = {} THEN 0 ELSE Min(fresh))
        ELSE IF fits # {} /\ Min(fits) < Len(names) THEN Min(fits) + 1 ELSE 0

\* The first name that starts with what is shown of the word, but is longer;
\* or, when that was filled in, the name after it, if it starts with what was
\* typed.  0 if there is none.
ChosenName(names, rest, typed, shown, again) ==
    LET fits  == {k \in 1 .. Len(names) : names[k] # <<>> /\ SameN(names[k], rest, shown)}
        fresh == {k \in fits : Len(names[k]) # shown}
        next  == Min(fits) + 1
    IN  IF ~again THEN (IF fresh = {} THEN 0 ELSE Min(fresh))
        ELSE IF fits # {} /\ next <= Len(names) /\ SameN(names[next], rest, typed)
             THEN next ELSE 0

\* The end of cmd_input_find_next_cmd: what an earlier completion added goes,
\* the rest of the chosen name comes.  pos is the cursor as the code has it.
FillIn(i, pos, word, names) ==
    LET begin   == i.begin - i.prompt
        rest    == SubSeq(i.text, word + 1, Len(i.text))
        chosen  == ChosenName(names, rest, begin - word, pos - word, i.begin # i.cur)
        removed == Put(i, SubSeq(i.text, 1, begin), After(i))
        filled  == InsertStr(removed, SubSeq(names[chosen], begin - word + 1, Len(names[chosen])))
    IN  IF chosen = 0 THEN removed
        ELSE IF begin < word THEN OutOfBuffer(i)
        ELSE [filled EXCEPT !.begin = removed.begin]

\* At the very beginning of the line a slash is put in first; the position is
\* counted up even if the line was full.
FindNextCmd(i) ==
    LET fresh == i.begin <= i.prompt \/ i.begin >= i.cur
        j     == CASE fresh /\ At(i) = 0 -> Insert(i, Slash)
                   [] fresh /\ At(i) # 0 -> [i EXCEPT !.begin = i.cur]
                   [] OTHER -> i
        pos   == IF fresh /\ At(i) = 0 THEN 1 ELSE At(i)
        c     == CompletionOf(j.text, j.begin - j.prompt)
    IN  IF ~InText(i) THEN OutOfBuffer(i)
        ELSE IF j.text = <<>> \/ Head(j.text) # Slash \/ c.word = 0 THEN j
        ELSE FillIn(j, pos, c.word, c.names)

-----------------------------------------------------------------------------
Init == \E w \in Widths : inp = InputInit(w)

Do(i) == inp.ok = "ok" /\ inp' = i

\* The bounds.
MayKeep ==
    /\ inp.text = <<>> \/ inp.text \in Kept
    /\ Len(inp.hist) < MaxLines

\* Keys without a binding: binding_insert.
Type == \E c \in Chars : Do(Insert(inp, c))

\* /input commands.
CmdInsert       == \E s \in Strings : Do(InsertStr(inp, s))
CmdDelete       == Do(Delete(inp))
CmdBkspace      == Do(Bkspace(inp))
CmdClear        == Do(ClearLine(inp))
CmdClearToStart == Do(ClearToStart(inp))
CmdClearToEnd   == Do(ClearToEnd(inp))
CmdClearPrev    == Do(ClearPrevWord(inp))
CmdClearNext    == Do(ClearNextWord(inp))
CmdStart        == Do(Home(inp))
CmdEnd          == Do(End(inp))
CmdLeft         == Do(MoveLeft(inp))
CmdRight        == Do(MoveRight(inp))
CmdPrevWord     == Do(PrevWord(inp))
CmdNextWord     == Do(NextWord(inp))
CmdFindNextCmd  == Do(FindNextCmd(inp))
CmdPrompt       == \E n \in PromptLens : Do(SetPrompt(inp, n))
CmdSend         == MayKeep /\ Do(Send(inp))
CmdSendArgs     == \E s \in Strings : Do(SendArgs(inp, s))

\* /history commands.
CmdHistoryPrev  == MayKeep /\ Do(HistoryPrev(inp))
CmdHistoryNext  == Do(HistoryNext(inp))
CmdHistoryClear == Do(HistoryClear(inp))

\* /win set HISTORY_LEN.
CmdHistoryLen   == \E n \in HistLens : Do(ChangedHistlen(inp, n))

\* SIGWINCH: input_resize.
Resize == \E w \in Widths \ {inp.width} : Do([inp EXCEPT !.width = w])

Stopped == inp.ok # "ok" /\ UNCHANGED inp

Next ==
    \/ Type \/ CmdInsert \/ CmdDelete \/ CmdBkspace
    \/ CmdClear \/ CmdClearToStart \/ CmdClearToEnd \/ CmdClearPrev \/ CmdClearNext
    \/ CmdStart \/ CmdEnd \/ CmdLeft \/ CmdRight \/ CmdPrevWord \/ CmdNextWord
    \/ CmdFindNextCmd \/ CmdPrompt \/ CmdSend \/ CmdSendArgs
    \/ CmdHistoryPrev \/ CmdHistoryNext \/ CmdHistoryClear \/ CmdHistoryLen
    \/ Resize \/ Stopped

Spec == Init /\ [][Next]_inp

-----------------------------------------------------------------------------
\* The type invariant.
TypeOK ==
    /\ inp.text \in Seq(Letters) /\ Len(inp.text) < InputBufferLen
    /\ inp.cur \in 0 .. Word - 1 /\ inp.begin \in 0 .. inp.cur
    /\ inp.prompt \in PromptLens /\ inp.width \in Widths
    /\ inp.hist \in Seq(Seq(Letters))
    /\ inp.hcur \in Nat /\ inp.hlen \in Nat
    /\ inp.head \in BOOLEAN /\ inp.ok \in {"ok", "buffer", "freed"}

Sound == inp.ok = "ok" /\ InText(inp)

\* The place in the history is a line that is still kept, although entering
\* the history adds a line at one end and prunes one at the other: no key
\* leads to a line that was freed, as long as HISTORY_LEN, which is taken for
\* the number of lines there are, is set to MAX_HISTORY_LEN - 2 at most.
PlaceIsKept == inp.ok # "freed" /\ (inp.ok = "ok" => inp.head /\ inp.hcur <= Len(inp.hist))

\* Going one line back and one forward again shows the line one came from, at
\* every place but the oldest, and the line half typed if one came from there.
BackAndForth ==
    (Sound /\ inp.hcur < Len(inp.hist))
    => LET i == HistoryNext(HistoryPrev(inp))
       IN  i.text = IF inp.hcur = 0 THEN inp.text ELSE inp.hist[inp.hcur]

\* Where input_partial starts to draw and where input_get_cursor_pos puts the
\* cursor fit: the column of the cursor shows the character it is on, whatever
\* the prompt and the width, as long as the prompt is narrower than the screen.
CursorOnItsCharacter ==
    (Sound /\ Partial(inp) # -1)
    => LET shown == Partial(inp)
           indent == IF inp.cur < inp.width THEN inp.prompt ELSE 0
       IN  shown + CursorPos(inp) - indent = At(inp)

\* The start of a word: a character that is no blank after one that is.
WordStarts(t) == {k \in 0 .. Len(t) - 1 : t[k + 1] # Blank /\ (k = 0 \/ t[k] = Blank)}

\* input_prev_word and input_next_word walk the buffer in two loops each; they
\* reach the last start of a word before the cursor, and a place behind which
\* going back leads to where the word at the cursor starts.
WordsAreWords ==
    (Sound /\ inp.prompt = 0) =>
        LET n == At(inp)
        IN  /\ At(PrevWord(inp)) = Max({0} \cup {k \in WordStarts(inp.text) : k < n})
            /\ n \in WordStarts(inp.text) => At(PrevWord(NextWord(inp))) = n

\* Completing again and again goes through names that start with what was
\* typed, and comes back to what was typed with the cursor where it was.
MaxNames == Max({Len(names) : names \in Names})
Completing(i, n) ==
    LET line[k \in 0 .. n] == IF k = 0 THEN i ELSE FindNextCmd(line[k - 1]) IN line
EndsWithAName(i) == \E name \in AllNames :
                       name # <<>> /\ IsSuffix(name, Before(i))
CompletionGoesRound ==
    (Sound /\ inp.begin = inp.cur /\ At(inp) > 0 /\ FindNextCmd(inp).ok = "ok") =>
        LET line == Completing(inp, MaxNames + 1) IN
        \E n \in 1 .. MaxNames + 1 :
            /\ line[n].text = inp.text /\ line[n].cur = inp.cur
            /\ \A k \in 1 .. n - 1 :
                  EndsWithAName(line[k]) /\ IsPrefix(Before(inp), Before(line[k]))

\* ncic_input.h's line as its user sees it.
Cursor == IF InText(inp) THEN At(inp) ELSE Len(inp.text)

Ed == INSTANCE Editor WITH
    before  <- SubSeq(inp.text, 1, Cursor),
    after   <- SubSeq(inp.text, Cursor + 1, Len(inp.text)),
    past    <- inp.hist,
    Strings <- Strings \cup {<<c>> : c \in Chars \cup {Slash}},
    Words   <- AllNames \cup {<<Slash>> \o n : n \in AllNames}

\* The line is edited next to the cursor only, and what replaces it as a whole
\* is a line of the past: InputLine implements Editor.
ImplementsEditor == Ed!ESpec
=============================================================================
