------------------------------ MODULE Swindow ------------------------------
(***************************************************************************)
(* The scroll buffer of a window: ncic_swindow.c, the line counts of       *)
(* ncic_imsg.c, and the option handlers of ncic_set.c that reach into it.  *)
(*                                                                         *)
(* The buffer is a list of messages; the part on the screen is described   *)
(* by two pointers into it and three counters, which every operation       *)
(* updates by its own arithmetic:                                          *)
(*                                                                         *)
(*   top, top_hidden      first message shown, its lines above the screen  *)
(*   bot, bottom_hidden   last message shown, its lines below the screen   *)
(*   bottom_blank         rows still empty below the last message          *)
(*                                                                         *)
(* A message is the length of its text (a text without spaces: breaking at *)
(* spaces changes where lines end and not what is done with their number); *)
(* the list is a sequence, oldest message first, and a pointer an index in *)
(* it, 0 for NULL.  Following NULL, or a message that was freed, ends in   *)
(* view.ok = FALSE.  The counters are uint32_t; Word stands for 2^32.      *)
(*                                                                         *)
(* Left out: the held and activity counters (shown in the status bar       *)
(* only), the log file, and the curses calls.                              *)
(***************************************************************************)
EXTENDS Integers, Sequences, SequencesExt

CONSTANTS
    TextLens,        \* lengths of the texts added
    RowSizes,        \* heights and widths a window can be given
    ColSizes,
    BufLens,         \* the values SCROLLBUF_LEN is set to
    Steps,           \* the numbers of lines "scroll by" is given
    Used,            \* which of clear, resize, wordwrap and lastlog are used
    ScrollOnOutput,  \* the values of the option SCROLL_ON_OUTPUT
    MaxMessages,     \* bound: messages in the buffer
    Word             \* 2^32, or less: larger than any number of lines here

ASSUME SwindowAssumption ==
    /\ TextLens \subseteq Nat
    /\ RowSizes \subseteq Nat \ {0} /\ ColSizes \subseteq Nat \ {0}
    /\ BufLens \subseteq Nat
    /\ Steps \subseteq Nat \ {0}
    /\ Used \subseteq {"clear", "resize", "wordwrap", "lastlog"}
    /\ ScrollOnOutput \subseteq BOOLEAN
    /\ MaxMessages \in Nat
    /\ Word \in Nat /\ \A r \in RowSizes : r < Word

VARIABLES
    buf,               \* scrollbuf, the oldest message (scrollbuf_end) first
    view,              \* the pointers and counters
    rows, cols,
    wordwrap,
    scrollbuf_max,
    scroll_on_output

vars == <<buf, view, rows, cols, wordwrap, scrollbuf_max, scroll_on_output>>
optVars == <<rows, cols, wordwrap, scrollbuf_max, scroll_on_output>>

Larger(x, y) == IF x > y THEN x ELSE y
Smaller(x, y) == IF x < y THEN x ELSE y
CeilDiv(x, y) == (x + y - 1) \div y

(***************************************************************************)
(* imsg_lines: rows a text takes.  With word wrap every line but the first *)
(* starts with WORDWRAP_CHAR.                                              *)
(***************************************************************************)
Height(len, width, wrap) ==
    CASE len <= width              -> 1
      [] len > width /\ ~wrap      -> CeilDiv(len, width)
      [] len > width /\ wrap /\ width = 1 -> len
      [] OTHER                     -> 1 + CeilDiv(len - width, width - 1)

\* A window as the operations below see it: a function of the text lengths,
\* the geometry and the view, so that operations can be composed as they are
\* in the code.
Win == [buf |-> buf, rows |-> rows, cols |-> cols, wrap |-> wordwrap,
        max |-> scrollbuf_max, v |-> view]

\* The index of the newest message: scrollbuf, the head of the list.
Newest(w) == Len(w.buf)
LinesOf(w, i) == Height(w.buf[i], w.cols, w.wrap)

\* Lines of the first k messages, for every k, and of the messages i .. j.
LinesUpTo(w) ==
    LET sum[k \in 0 .. Newest(w)] == IF k = 0 THEN 0 ELSE sum[k - 1] + LinesOf(w, k)
    IN  sum
Lines(w, i, j) == IF i > j THEN 0 ELSE LinesUpTo(w)[j] - LinesUpTo(w)[i - 1]

EmptyView(r) ==
    [top |-> 0, bot |-> 0, top_hidden |-> 0, bottom_hidden |-> 0,
     bottom_blank |-> r, ok |-> TRUE]

Bad(w) == [w EXCEPT !.v.ok = FALSE]

\* swindow_init
Init ==
    /\ buf = <<>>
    /\ rows \in RowSizes /\ cols \in ColSizes
    /\ view = EmptyView(rows)
    /\ wordwrap \in BOOLEAN
    /\ \E n \in BufLens : scrollbuf_max = Larger(n, rows)
    /\ scroll_on_output \in ScrollOnOutput

-----------------------------------------------------------------------------
(***************************************************************************)
(* swindow_redraw: draws from top down and finds where the screen ends.    *)
(* Nothing is updated when a partly hidden top message fills the screen to *)
(* the last row, or is the newest message.                                 *)
(***************************************************************************)
Redraw(w) ==
    LET v     == w.v
        first == IF v.top_hidden = 0 THEN 0
                 ELSE (LinesOf(w, v.top) - v.top_hidden) % Word
        from  == IF v.top_hidden = 0 THEN v.top ELSE v.top + 1
        cum(k) == first + Lines(w, from, k)
        ends  == {k \in from .. Newest(w) : cum(k) >= w.rows}
        last  == IF ends = {} THEN Newest(w)
                 ELSE CHOOSE k \in ends : \A j \in ends : k <= j
    IN  CASE v.top = 0 -> w
          [] v.top # 0 /\ first > w.rows ->
                [w EXCEPT !.v.bot = v.top, !.v.bottom_blank = 0,
                          !.v.bottom_hidden = first - w.rows]
          [] v.top # 0 /\ first < w.rows /\ from <= Newest(w) ->
                [w EXCEPT !.v.bot = last,
                          !.v.bottom_hidden = Larger(0, cum(last) - w.rows),
                          !.v.bottom_blank = Larger(0, w.rows - cum(last))]
          [] OTHER -> w

\* Variant: the hidden lines of the top message are not subtracted.
AdjustTopForgetsHidden(w, n) ==
    LET reach == {k \in w.v.top .. Newest(w) : Lines(w, w.v.top, k) >= n}
        k     == CHOOSE i \in reach : \A j \in reach : i <= j
        rest  == Lines(w, w.v.top, k) - n
    IN  CASE w.v.top = 0 \/ reach = {} -> Bad(w)
          [] w.v.top # 0 /\ reach # {} /\ rest = 0 ->
                [w EXCEPT !.v.top = IF k = Newest(w) THEN 0 ELSE k + 1, !.v.top_hidden = 0]
          [] OTHER ->
                [w EXCEPT !.v.top = k, !.v.top_hidden = LinesOf(w, k) - rest]

\* swindow_adjust_top: move the top of the screen n lines down.
AdjustTop(w, n) ==
    LET v   == w.v
        shown(k) == ((LinesOf(w, v.top) - v.top_hidden) % Word) + Lines(w, v.top + 1, k)
        reach == {k \in v.top .. Newest(w) : shown(k) >= n}
        k   == CHOOSE i \in reach : \A j \in reach : i <= j
        rest == shown(k) - n
    IN  CASE v.top = 0 \/ reach = {} -> Bad(w)
          [] v.top # 0 /\ reach # {} /\ rest = 0 ->
                [w EXCEPT !.v.top = IF k = Newest(w) THEN 0 ELSE k + 1, !.v.top_hidden = 0]
          [] OTHER ->
                [w EXCEPT !.v.top = k, !.v.top_hidden = (LinesOf(w, k) - rest) % Word]

\* Variant: one message too many is kept.
PruneOneLess(w) ==
    LET n == Smaller(Larger(0, Newest(w) - w.max - 1), w.v.top - 1)
    IN  IF w.v.top = 0 \/ w.v.bot = 0 THEN Bad(w)
        ELSE [w EXCEPT !.buf = SubSeq(w.buf, n + 1, Newest(w)),
                       !.v.top = w.v.top - n, !.v.bot = w.v.bot - n]

\* swindow_prune: drop the oldest messages beyond scrollbuf_max, up to the
\* first one on the screen.
Prune(w) ==
    LET v    == w.v
        over == Larger(0, Newest(w) - w.max)
        n    == IF v.top <= v.bot THEN Smaller(over, v.top - 1) ELSE Smaller(over, Newest(w))
    IN  IF v.top = 0 \/ v.bot = 0 \/ (n > 0 /\ (v.top <= n \/ v.bot <= n))
        THEN Bad(w)
        ELSE [w EXCEPT !.buf = SubSeq(w.buf, n + 1, Newest(w)),
                       !.v.top = v.top - n, !.v.bot = v.bot - n]

\* The window shows the end of the buffer.
AtEnd(w) == w.v.bot = Newest(w) /\ w.v.bottom_hidden = 0

\* swindow_scroll_to_end
ScrollToEnd(w) ==
    LET fills == {k \in 1 .. Newest(w) : Lines(w, k, Newest(w)) >= w.rows}
        k     == IF fills = {} THEN 1 ELSE CHOOSE i \in fills : \A j \in fills : i >= j
    IN  IF Newest(w) = 0 \/ AtEnd(w) THEN w
        ELSE Redraw([w EXCEPT !.v.top = k,
                     !.v.top_hidden = Larger(0, Lines(w, k, Newest(w)) - w.rows)])

\* swindow_scroll_to_start
ScrollToStart(w) ==
    IF Newest(w) = 0 \/ (w.v.top = 1 /\ w.v.top_hidden = 0) THEN w
    ELSE Redraw([w EXCEPT !.v.top = 1, !.v.top_hidden = 0])

\* Variant: the top moves on one line too late.
DownOneLate(w) ==
    LET v      == w.v
        bottom == IF v.bottom_hidden > 0
                  THEN [w EXCEPT !.v.bottom_hidden = @ - 1]
                  ELSE [w EXCEPT !.v.bot = @ + 1,
                                 !.v.bottom_hidden = LinesOf(w, v.bot + 1) - 1]
    IN  IF v.top_hidden = LinesOf(w, v.top)
        THEN [bottom EXCEPT !.v.top = @ + 1, !.v.top_hidden = 0]
        ELSE [bottom EXCEPT !.v.top_hidden = @ + 1]

\* One turn of the loop of swindow_scroll_down_by: the top and the bottom of
\* the screen each move a line down.
DownOne(w) ==
    LET v      == w.v
        gone   == v.top_hidden + 1 = LinesOf(w, v.top)
        bottom == IF v.bottom_hidden > 0
                  THEN [w EXCEPT !.v.bottom_hidden = @ - 1]
                  ELSE [w EXCEPT !.v.bot = @ + 1,
                                 !.v.bottom_hidden = LinesOf(w, v.bot + 1) - 1]
    IN  IF gone THEN [bottom EXCEPT !.v.top = @ + 1, !.v.top_hidden = 0]
                ELSE [bottom EXCEPT !.v.top_hidden = @ + 1]

\* The last line of the newest message is about to leave at the top.
LastLineGoes(w) == w.v.top = Newest(w) /\ w.v.top_hidden + 1 = LinesOf(w, w.v.top)

\* The loop: what its first i turns leave, for every i.
DownTurn(w) == IF AtEnd(w) \/ LastLineGoes(w) THEN w ELSE DownOne(w)
DownTurns(w, n) ==
    LET down[i \in 0 .. n] == IF i = 0 THEN w ELSE DownTurn(down[i - 1])
    IN  down

ScrollDown(w, n) ==
    LET down   == DownTurns(w, n)
        before == down[n - 1]        \* what the last turn of the loop found
    IN  CASE w.v.top = 0 -> Bad(w)
          [] w.v.top # 0 /\ AtEnd(w) -> w
          [] w.v.top # 0 /\ ~AtEnd(w) /\ ~AtEnd(before) /\ LastLineGoes(before) ->
                Redraw([before EXCEPT !.v.top_hidden = 0])
          [] OTHER -> Redraw(down[n])

\* swindow_scroll_up_by
ScrollUp(w, n) ==
    LET v     == w.v
        above(k) == v.top_hidden + Lines(w, k, v.top - 1)
        fits  == {k \in 1 .. v.top - 1 : above(k) >= n}
        k     == CHOOSE i \in fits : \A j \in fits : i >= j
    IN  CASE v.top = 0 -> Bad(w)
          [] v.top = 1 /\ v.top_hidden = 0 -> w
          [] v.top # 0 /\ v.top_hidden >= n -> Redraw([w EXCEPT !.v.top_hidden = @ - n])
          [] v.top # 0 /\ v.top_hidden < n /\ fits # {} ->
                Redraw([w EXCEPT !.v.top = k, !.v.top_hidden = above(k) - n])
          [] OTHER -> Redraw([w EXCEPT !.v.top = 1, !.v.top_hidden = 0])

\* swindow_scroll_by: "Can't scroll if there are less (or equal to) lines
\* than rows".
CanScroll(w) == Lines(w, 1, Newest(w)) > w.rows

\* Variant: the window follows its output even when it is scrolled back.
AppendAlwaysFollows(w, len) ==
    LET new  == [w EXCEPT !.buf = Append(@, len), !.v.bot = Newest(w) + 1,
                          !.v.top = IF Newest(w) = 0 THEN 1 ELSE @]
        h    == LinesOf(new, Newest(new))
    IN  IF h <= w.v.bottom_blank THEN [new EXCEPT !.v.bottom_blank = @ - h]
        ELSE AdjustTop([new EXCEPT !.v.bottom_blank = 0], h - w.v.bottom_blank)

\* Variant: the pointer to the last message shown stays behind.
AppendForgetsBot(w, len) ==
    LET new == [w EXCEPT !.buf = Append(@, len),
                         !.v.top = IF Newest(w) = 0 THEN 1 ELSE @,
                         !.v.bot = IF Newest(w) = 0 THEN 1 ELSE @]
        h   == LinesOf(new, Newest(new))
    IN  IF h <= w.v.bottom_blank THEN [new EXCEPT !.v.bottom_blank = @ - h]
        ELSE AdjustTop([new EXCEPT !.v.bottom_blank = 0], h - w.v.bottom_blank)

(***************************************************************************)
(* swindow_add, after the scroll that scroll_on_output asks for.  A window *)
(* whose last message is not the newest one is scrolled back: it stays.    *)
(***************************************************************************)
AppendMessage(w, len) ==
    LET v    == w.v
        new  == [w EXCEPT !.buf = Append(@, len),
                          !.v.top = IF Newest(w) = 0 THEN 1 ELSE @]
        last == [new EXCEPT !.v.bot = Newest(new)]
        h    == LinesOf(new, Newest(new))
        fits == h <= v.bottom_blank
        shown == IF fits THEN [last EXCEPT !.v.bottom_blank = @ - h]
                 ELSE AdjustTop([last EXCEPT !.v.bottom_blank = 0], h - v.bottom_blank)
    IN  CASE v.bot # Newest(w) -> new
          [] v.bot = Newest(w) /\ Newest(shown) > shown.max /\ shown.v.ok -> Prune(shown)
          [] OTHER -> shown

Add(w, len, follow) ==
    AppendMessage(IF ~AtEnd(w) /\ follow THEN ScrollToEnd(w) ELSE w, len)

\* swindow_recalculate and swindow_redraw for a new size or a new wrap; the
\* line counts of the messages follow from w.cols and w.wrap.
Recalculate(w, old) ==
    IF w.v.top = 0 THEN [w EXCEPT !.v.bottom_blank = w.rows]
    ELSE IF w.v.top_hidden # 0 /\ LinesOf(w, w.v.top) # LinesOf(old, w.v.top)
         THEN [w EXCEPT !.v.top_hidden = (old.cols * @) \div w.cols]
         ELSE w

-----------------------------------------------------------------------------
(***************************************************************************)
(* The operations                                                          *)
(***************************************************************************)
Install(w) ==
    /\ view.ok
    /\ buf' = w.buf
    /\ view' = w.v

\* A message is written to the window.
Write(len) ==
    /\ Len(buf) < MaxMessages
    /\ Install(Add(Win, len, scroll_on_output))
    /\ UNCHANGED optVars

AddMessage == \E len \in TextLens : Write(len)

\* swindow_input with scroll_on_input set, and "scroll end".
ScrollEnd == Install(ScrollToEnd(Win)) /\ UNCHANGED optVars

ScrollStart == Install(ScrollToStart(Win)) /\ UNCHANGED optVars

\* swindow_scroll_by with a positive and with a negative argument.
ScrollDownBy ==
    /\ CanScroll(Win)
    /\ \E n \in Steps : Install(ScrollDown(Win, n))
    /\ UNCHANGED optVars

ScrollUpBy ==
    /\ CanScroll(Win)
    /\ \E n \in Steps : Install(ScrollUp(Win, n))
    /\ UNCHANGED optVars

\* swindow_clear: top and bot are the newest message, all of it hidden.
Clear ==
    /\ "clear" \in Used
    /\ buf # <<>>
    /\ Install([Win EXCEPT !.v = [top |-> Len(buf), bot |-> Len(buf),
                                  top_hidden |-> LinesOf(Win, Len(buf)),
                                  bottom_hidden |-> 0, bottom_blank |-> rows,
                                  ok |-> TRUE]])
    /\ UNCHANGED optVars

\* swindow_erase
Erase ==
    /\ buf # <<>>
    /\ Install([Win EXCEPT !.buf = <<>>, !.v = EmptyView(rows)])
    /\ UNCHANGED optVars

\* A copy of the match i is added to w, to which added copies were added before.
\* A match that was pruned meanwhile is read after it was freed.
PrintMatch(m, i) ==
    IF i <= Len(buf) + m.added - Newest(m.w) THEN [m EXCEPT !.w = Bad(@)]
    ELSE [w |-> Add(m.w, buf[i], scroll_on_output), added |-> m.added + 1]

\* swindow_print_matching collects the matches S and then adds a copy of each,
\* oldest first: what the first i messages leave, for every i.
PrintTurn(S, m, i) == IF i \in S /\ m.w.v.ok THEN PrintMatch(m, i) ELSE m
PrintTurns(S) ==
    LET upTo[i \in 0 .. Len(buf)] ==
            IF i = 0 THEN [w |-> Win, added |-> 0] ELSE PrintTurn(S, upTo[i - 1], i)
    IN  upTo
PrintMatching(S) == PrintTurns(S)[Len(buf)].w

\* /lastlog, with whatever flags and text.
Lastlog ==
    /\ "lastlog" \in Used
    /\ \E S \in (SUBSET DOMAIN buf) \ {{}} :
          /\ Len(buf) + Cardinality(S) <= MaxMessages
          /\ Install(PrintMatching(S))
    /\ UNCHANGED optVars

\* imwindow_resize: swindow_resize, then to the start and to the end.
Resize ==
    /\ "resize" \in Used
    /\ \E r \in RowSizes, c \in ColSizes :
          LET w == [Win EXCEPT !.rows = r, !.cols = c]
          IN  /\ <<r, c>> # <<rows, cols>>
              /\ Install(ScrollToEnd(ScrollToStart(Redraw(Recalculate(w, Win)))))
              /\ rows' = r /\ cols' = c
              /\ scrollbuf_max' = Larger(scrollbuf_max, r)
    /\ UNCHANGED <<wordwrap, scroll_on_output>>

\* swindow_set_wordwrap, after /win set WORDWRAP or WORDWRAP_CHAR.  window_var
\* has no row for SHOW_BLIST, so the value of WORDWRAP_CHAR lands where WORDWRAP
\* is read, and its lowest bit counts; WORDWRAP itself changes nothing.
SetWordwrap == \E v \in BOOLEAN :
    /\ "wordwrap" \in Used
    /\ wordwrap' = v
    /\ Install(Redraw(Recalculate([Win EXCEPT !.wrap = v], Win)))
    /\ UNCHANGED <<rows, cols, scrollbuf_max, scroll_on_output>>

\* /win set SCROLLBUF_LEN: wopt_changed_scrollbuf_len
SetScrollbufLen ==
    /\ \E n \in BufLens :
          /\ scrollbuf_max' = Larger(n, rows)
          /\ Install(Prune([Win EXCEPT !.max = Larger(n, rows)]))
    /\ UNCHANGED <<rows, cols, wordwrap, scroll_on_output>>

\* /win set SCROLL_ON_OUTPUT
SetScrollOnOutput ==
    /\ view.ok
    /\ scroll_on_output' \in ScrollOnOutput \ {scroll_on_output}
    /\ UNCHANGED <<buf, view, rows, cols, wordwrap, scrollbuf_max>>

Stopped == ~view.ok /\ UNCHANGED vars

Next ==
    \/ AddMessage \/ ScrollEnd \/ ScrollStart \/ ScrollDownBy \/ ScrollUpBy
    \/ Clear \/ Erase \/ Lastlog \/ Resize \/ SetWordwrap \/ SetScrollbufLen
    \/ SetScrollOnOutput \/ Stopped

Spec == Init /\ [][Next]_vars

-----------------------------------------------------------------------------
\* The type invariant.
TypeOK ==
    /\ buf \in Seq(TextLens) /\ Len(buf) <= MaxMessages
    /\ view \in [top : 0 .. Len(buf), bot : 0 .. Len(buf), top_hidden : 0 .. Word - 1,
                 bottom_hidden : 0 .. Word - 1, bottom_blank : 0 .. rows, ok : BOOLEAN]
    /\ rows \in RowSizes /\ cols \in ColSizes
    /\ wordwrap \in BOOLEAN /\ scroll_on_output \in ScrollOnOutput
    /\ scrollbuf_max \in Nat /\ scrollbuf_max >= rows

\* The lines of the buffer above the first row of the screen, and those down
\* to its last row in use.
Above(w) == Lines(w, 1, w.v.top - 1) + w.v.top_hidden
DownTo(w) == Lines(w, 1, w.v.bot) - w.v.bottom_hidden

\* The lines of the buffer below the screen.
Below(w) == Lines(w, 1, Newest(w)) - DownTo(w)

Usable == view.ok /\ buf # <<>>

OneLines(w) == \A i \in 1 .. Newest(w) : LinesOf(w, i) = 1

\* Rows are blank below lines that were scrolled away: swindow_clear left them.
Cleared(w) == w.v.bottom_blank > 0 /\ Above(w) # 0

(***************************************************************************)
(* What the invariants need of a run: swindow_clear and the rows it left   *)
(* blank meet messages of one line only, and a new wrap changes the number *)
(* of lines of no message.  Where that is not so the code breaks them (see *)
(* README.md); all other steps are free.                                   *)
(***************************************************************************)
RegularStep ==
    /\ Clear => OneLines(Win)
    /\ \A len \in TextLens :
          Write(len) /\ Cleared(Win) => Height(len, cols, wordwrap) = 1
    /\ SetWordwrap => \A i \in DOMAIN buf : LinesOf(Win, i)' = LinesOf(Win, i)

RegularSpec == Init /\ [][Next /\ RegularStep]_vars

\* Messages were added: one, or the copies of /lastlog, and as many old ones
\* pruned as it may be.
Adds == (AddMessage \/ Lastlog) /\ view'.ok

\* The five numbers, each kept by arithmetic of its own in every operation,
\* describe one screen: the rows not blank are the lines from the top of the
\* screen to its bottom, and rows are blank only below the newest message.
OneScreen ==
    Usable =>
        /\ view.top # 0 /\ view.bot # 0
        /\ DownTo(Win) - Above(Win) + view.bottom_blank = rows
        /\ view.bottom_blank > 0 => AtEnd(Win)

\* Scrolling up and down again by the same number of lines shows the same
\* lines, when there were that many lines above a full screen.
UpAndDown ==
    \A n \in Steps :
        (Usable /\ CanScroll(Win) /\ view.bottom_blank = 0 /\ Above(Win) >= n)
        => LET back == ScrollDown(ScrollUp(Win, n), n)
           IN  Above(back) = Above(Win) /\ DownTo(back) = DownTo(Win)

\* A window that shows the end of the buffer goes on showing it when messages
\* are added, however many of its old messages are pruned.
FollowsOutput == [][ Adds /\ AtEnd(Win) => AtEnd(Win)' ]_vars

\* A window scrolled back that does not follow its output is never taken to the
\* end by messages that are added: no fewer lines are left below its screen,
\* also where swindow_add takes it for a window at the end.
StaysScrolledBack ==
    [][ Adds /\ ~AtEnd(Win) /\ ~scroll_on_output => Below(Win)' >= Below(Win) ]_vars

\* ncic_swindow.c: "If the window is scrolled back, but the scroll on output
\* flag is not set, there's nothing left to do here."  What it shows stays.
ScrolledBackStays ==
    [][ Adds /\ ~AtEnd(Win) /\ ~scroll_on_output => Above(Win)' = Above(Win) ]_vars

\* The buffer holds at most SCROLLBUF_LEN messages; a message that was cleared
\* from the screen but is still its top may be one too many.
Bounded(w) ==
    \/ Newest(w) <= w.max
    \/ Newest(w) = w.max + 1 /\ w.v.top_hidden = LinesOf(w, w.v.top)

\* After messages were added to a window at its end, or one that follows its
\* output, the buffer is bounded, although what is on the screen is not pruned
\* and although nothing was pruned as long as the window was scrolled back: the
\* next message that is shown makes up for it.
BufferBounded == [][ Adds /\ (AtEnd(Win) \/ scroll_on_output) => Bounded(Win)' ]_vars

\* ncic_swindow.c, swindow_print_matching: "Better to compile a list of matches
\* and print them after scanning the whole buffer", lest "bad interactions with
\* swindow_prune()" occur.  Printing the list reads no pruned message.
LastlogIsSafe == [][ Lastlog => view'.ok ]_vars
=============================================================================
