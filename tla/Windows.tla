------------------------------ MODULE Windows -------------------------------
(***************************************************************************)
(* The windows on the screen: the list of ncic_screen.c, the windows of    *)
(* ncic_imwindow.c with the input line each of them uses, the /win and     *)
(* /query commands, the account they are bound to, and the chat room that  *)
(* the status window shows (chat_new, chat_leave_all).                     *)
(*                                                                         *)
(*   ring     screen.window_list: a circular list from its lowest refnum   *)
(*   win      the windows, by the node that holds them                     *)
(*   cur      screen.cur_window                                            *)
(*   cols     screen.cols                                                  *)
(*   shared   the width of screen.input                                    *)
(*   acct     screen.acct: "none", "offline", "online" or "freed"          *)
(*   rooms    the account's chat_list, newest room first                   *)
(*   ok       FALSE once freed memory was used                             *)
(*                                                                         *)
(* A window: its refnum, type, owner ("null" is screen.null_acct), target, *)
(* skip flag, whether it is visible, its columns, its option PRIVATE_INPUT *)
(* and the input line it uses, "shared" or one of its own of some width;   *)
(* data is the room of a status window, 0 for NULL.  Names, activity and   *)
(* what is drawn are left out.                                             *)
(***************************************************************************)
EXTENDS Integers, Sequences, SequencesExt

CONSTANTS
    Targets,      \* who is talked to
    Refnums,      \* numbers given in commands
    Widths,       \* widths of the terminal
    MaxWindows,   \* bound: windows open at a time
    MaxRooms      \* bound: rooms opened

ASSUME WindowsAssumption ==
    /\ Refnums \subseteq Nat
    /\ Widths \subseteq Nat \ {0} /\ Widths # {}
    /\ MaxWindows \in Nat /\ MaxWindows > 1
    /\ MaxRooms \in Nat

VARIABLES ring, win, cur, cols, shared, acct, rooms, private, ok

vars == <<ring, win, cur, cols, shared, acct, rooms, private, ok>>

Nodes == 1 .. MaxWindows
Status == 1
None == [type |-> "none"]

\* imwindow_new: the option is inherited, and decides on the input line.
NewWindow(ref, type, owner, target, width, priv) ==
    [ref |-> ref, type |-> type, owner |-> owner, target |-> target,
     skip |-> FALSE, visible |-> FALSE, cols |-> width, priv |-> priv,
     input |-> IF priv THEN width ELSE 0, data |-> 0]

\* screen_init.
Init ==
    /\ cols \in Widths /\ shared = cols
    /\ ring = <<Status>> /\ cur = Status
    /\ win = [n \in Nodes |->
                IF n = Status
                THEN [NewWindow(1, "status", "null", "", cols, FALSE) EXCEPT !.visible = TRUE]
                ELSE None]
    /\ acct = "none" /\ rooms = <<>>
    /\ private = FALSE
    /\ ok = TRUE

-----------------------------------------------------------------------------
(* The list.                                                               *)

\* screen_find_refnum: the place of a refnum, looked for up to the first
\* larger one; 0 if it is not found.
Place(r, w, n) ==
    LET upTo == SelectInSeq(r, LAMBDA id : w[id].ref >= n)
    IN  IF upTo # 0 /\ w[r[upTo]].ref = n THEN upTo ELSE 0

\* Variant: a window always goes in at the end.
AddedAtEnd(r, w, id) == Append(r, id)

\* screen_window_list_add: before the first larger one, or at the end.
Added(r, w, id) ==
    LET later == SelectInSeq(r, LAMBDA o : w[id].ref < w[o].ref)
    IN  IF later = 0 THEN Append(r, id) ELSE InsertAt(r, later, id)

\* screen_window_list_remove.
Removed(r, id) == RemoveFirst(r, id)

\* screen_get_new_refnum.
NewRefnum == CHOOSE n \in 1 .. MaxWindows + 1 :
                /\ Place(ring, win, n) = 0
                /\ \A m \in 1 .. n - 1 : Place(ring, win, m) # 0

\* Variant: the window that was on the screen still counts as visible.
ShownBoth(w, old, new) == [w EXCEPT ![new].visible = TRUE]

\* screen_window_swap, on the windows alone.
Shown(w, old, new) ==
    [id \in Nodes |->
        CASE id = new -> [w[id] EXCEPT !.visible = TRUE]
          [] id = old /\ id # new -> [w[id] EXCEPT !.visible = FALSE]
          [] OTHER -> w[id]]

\* Variant: the window that is left is looked at, not the one that is reached.
StepFromSkipsOwn(r, w, at, d) ==
    LET n      == Len(r)
        to(k)  == r[((at - 1 + d * k) % n) + 1]
        stop   == CHOOSE k \in 1 .. n :
                     /\ ~w[to(k - 1)].skip \/ k = n
                     /\ \A j \in 1 .. k - 1 : w[to(j - 1)].skip
    IN  to(stop)

\* screen_cycle_fwd (d = 1) and screen_cycle_bak (d = -1): over the windows to
\* skip, but once around at most.
StepFrom(r, w, at, d) ==
    LET n      == Len(r)
        to(k)  == r[((at - 1 + d * k) % n) + 1]
        stop   == CHOOSE k \in 1 .. n :
                     /\ ~w[to(k)].skip \/ k = n
                     /\ \A j \in 1 .. k - 1 : w[to(j)].skip
    IN  to(stop)

Cycled(d) == StepFrom(ring, win, SelectInSeq(ring, LAMBDA id : id = cur), d)

\* screen_goto_window; nothing happens if there is no such window.
Goto(r, w, n) ==
    LET k == Place(r, w, n)
    IN  IF k = 0 THEN cur' = cur /\ win' = w
        ELSE cur' = r[k] /\ win' = Shown(w, cur, r[k])

-----------------------------------------------------------------------------
(* Commands.                                                               *)

Running == ok

\* /win next, /win prev.
Cycle(d) ==
    /\ Running
    /\ cur' = Cycled(d) /\ win' = Shown(win, cur, Cycled(d))
    /\ UNCHANGED <<ring, cols, shared, acct, rooms, private, ok>>
CmdWinNext == Cycle(1)
CmdWinPrev == Cycle(-1)

\* /win swap.
CmdWinSwap == \E n \in Refnums :
    /\ Running /\ Goto(ring, win, n)
    /\ UNCHANGED <<ring, cols, shared, acct, rooms, private, ok>>

\* screen_renumber: out of the list, with the new number back in, and the
\* window that had it takes the old one.
Renumbered(n) ==
    LET old   == win[cur].ref
        rest  == Removed(ring, cur)
        w     == [win EXCEPT ![cur].ref = n]
        taken == IF rest = <<>> THEN 0 ELSE Place(rest, w, n)
        other == rest[taken]
        w2    == [w EXCEPT ![other].ref = old]
    IN  IF taken = 0 THEN [r |-> Added(rest, w, cur), w |-> w]
        ELSE [r |-> Added(Added(Removed(rest, other), w2, other), w2, cur), w |-> w2]

\* /win renumber.
CmdWinRenumber == \E n \in Refnums :
    /\ Running
    /\ ring' = Renumbered(n).r /\ win' = Renumbered(n).w
    /\ UNCHANGED <<cur, cols, shared, acct, rooms, private, ok>>

\* imwindow_find_refnum looks at all windows.
FindRefnum(n) == {id \in Nodes : win[id] # None /\ win[id].ref = n}

\* /win skip and /win unskip, with a number or for the current window.
SetSkip(v) == Running /\ \E n \in Refnums \cup {win[cur].ref} :
    /\ win' = [id \in Nodes |-> IF id \in FindRefnum(n)
                                THEN [win[id] EXCEPT !.skip = v] ELSE win[id]]
    /\ UNCHANGED <<ring, cur, cols, shared, acct, rooms, private, ok>>
CmdWinSkip == SetSkip(TRUE)
CmdWinUnskip == SetSkip(FALSE)

\* screen_new_window, and screen_goto_window to it: a window for a conversation
\* of the current window's owner.
OpenWindow(t) ==
    LET id  == CHOOSE n \in Nodes : win[n] = None
        new == NewWindow(NewRefnum, "query", win[cur].owner, t, cols, private)
        w   == [win EXCEPT ![id] = new]
    IN  /\ \E n \in Nodes : win[n] = None
        /\ ring' = Added(ring, w, id)
        /\ Goto(Added(ring, w, id), w, new.ref)

\* imwindow_find.
Conversations(t) ==
    SelectSeq(ring, LAMBDA id : win[id].owner = win[cur].owner /\ win[id].type = "query"
                                /\ win[id].target = t)

\* screen_make_query_window, and screen_goto_window to it.
MakeQueryWindow(t) ==
    IF Conversations(t) = <<>> THEN OpenWindow(t)
    ELSE UNCHANGED ring /\ Goto(ring, win, win[Head(Conversations(t))].ref)

\* /query with a name.
CmdQuery == \E t \in Targets :
    /\ Running /\ MakeQueryWindow(t)
    /\ UNCHANGED <<cols, shared, acct, rooms, private, ok>>

\* /msg, and /send in a conversation, that got through: pork_msg_send shows it
\* with screen_get_query_window, and goes to the window if it is a new one.
\* With DUMP_MSGS_TO_STATUS set it is shown in the status window.
CmdMsg == \E t \in Targets :
    /\ Running /\ acct = "online" /\ win[cur].owner = "acct"
    /\ Conversations(t) = <<>> /\ OpenWindow(t)
    /\ UNCHANGED <<cols, shared, acct, rooms, private, ok>>

\* /win close and /query without a name: screen_close_window.  If every other
\* window is to be skipped the next window is the one that is closed.
CmdWinClose ==
    /\ Running
    /\ win[cur].type # "status"
    /\ LET next == Cycled(1) IN
        /\ ring' = Removed(ring, cur)
        /\ win' = [Shown(win, cur, next) EXCEPT ![cur] = None]
        /\ cur' = next
        /\ ok' = (next # cur)
    /\ UNCHANGED <<cols, shared, acct, rooms, private>>

\* imwindow_set_priv_input: nothing is done for a window that has such a line
\* already.
PrivInput(w) == [w EXCEPT !.input = IF w.priv = (@ # 0) THEN @ ELSE IF w.priv THEN w.cols ELSE 0]

\* Variant: the window takes the shared input only if it had one before.
WithInputDeaf(w, v) == [w EXCEPT !.priv = v, !.input = IF v THEN w.cols ELSE @]

\* wopt_set_bool of PRIVATE_INPUT, and its handler.
WithInput(w, v) == PrivInput([w EXCEPT !.priv = v])

\* /win set PRIVATE_INPUT, for the current window; /set PRIVATE_INPUT, for those
\* to come.
CmdWinSetPrivate == \E v \in BOOLEAN :
    /\ Running
    /\ win' = [win EXCEPT ![cur] = WithInput(@, v)]
    /\ UNCHANGED <<ring, cur, cols, shared, acct, rooms, private, ok>>
CmdSetPrivate == \E v \in BOOLEAN :
    /\ Running /\ private' = v
    /\ UNCHANGED <<ring, win, cur, cols, shared, acct, rooms, ok>>

Resized(w) ==
    [id \in Nodes |-> IF win[id] = None THEN None
        ELSE [win[id] EXCEPT !.cols = w, !.input = IF @ = 0 THEN 0 ELSE w]]

\* SIGWINCH: screen_resize reaches the shared input through the windows.
Resize == \E w \in Widths \ {cols} :
    /\ Running
    /\ cols' = w /\ win' = Resized(w)
    /\ shared' = IF \E id \in ToSet(ring) : win[id].input = 0 THEN w ELSE shared
    /\ UNCHANGED <<ring, cur, acct, rooms, private, ok>>

-----------------------------------------------------------------------------
(* The account and its rooms.                                              *)

\* pork_acct_connect: screen.acct is set and the windows without an account are
\* bound to it (screen_bind_all_unbound).
Connect ==
    /\ Running /\ acct = "none"
    /\ acct' = "offline"
    /\ win' = [id \in Nodes |-> IF win[id] # None /\ win[id].owner = "null"
                                THEN [win[id] EXCEPT !.owner = "acct"] ELSE win[id]]
    /\ UNCHANGED <<ring, cur, cols, shared, rooms, private, ok>>

\* A line that starts with '@': pork_acct_connected and chat_new.
ServerWelcome ==
    /\ Running /\ acct \in {"offline", "online"} /\ Len(rooms) < MaxRooms
    /\ acct' = "online"
    /\ rooms' = <<Len(rooms) + 1>> \o rooms
    /\ win' = [win EXCEPT ![Status].data = Len(rooms) + 1]
    /\ UNCHANGED <<ring, cur, cols, shared, private, ok>>

\* The connection is lost and will be tried again: the rooms stay.
Lost ==
    /\ Running /\ acct = "online" /\ acct' = "offline"
    /\ UNCHANGED <<ring, win, cur, cols, shared, rooms, private, ok>>

\* chat_free: the room goes from the list.
ChatFree(r, room) == SelectSeq(r, LAMBDA x : x # room)

\* Variant: a room is left without telling its window.
LeftKeepsData(w) == w

\* chat_leave, for every room of chat_leave_all: the window of the room, which
\* is the status window, shows none, whichever room it was.
Left(w) == IF rooms = <<>> THEN w ELSE [w EXCEPT ![Status].data = 0]

\* pork_acct_del; screen.acct keeps pointing to the account.
AcctDel ==
    /\ Running /\ acct \in {"offline", "online"}
    /\ acct' = "freed" /\ rooms' = FoldLeft(ChatFree, rooms, rooms)
    /\ LET w == Left(win) IN
       win' = [id \in Nodes |-> IF w[id] # None /\ w[id].owner = "acct"
                                THEN [w[id] EXCEPT !.owner = "null"] ELSE w[id]]
    /\ UNCHANGED <<ring, cur, cols, shared, private, ok>>

\* imwindow_bind_acct asks pork_acct_get_data, which returns screen.acct
\* whatever the number is.
BindAcct ==
    /\ Running /\ acct # "none"
    /\ IF acct = "freed" THEN ok' = FALSE /\ UNCHANGED win
       ELSE ok' = ok /\ win' = [win EXCEPT ![cur].owner = "acct"]
    /\ UNCHANGED <<ring, cur, cols, shared, acct, rooms, private>>

\* /win bind with a number, and /win bind_next with the number of screen.acct.
CmdWinBind == BindAcct
CmdWinBindNext == BindAcct

Stopped == ~ok /\ UNCHANGED vars

Next ==
    \/ CmdWinNext \/ CmdWinPrev \/ CmdWinSwap \/ CmdWinRenumber
    \/ CmdWinSkip \/ CmdWinUnskip \/ CmdQuery \/ CmdMsg \/ CmdWinClose
    \/ CmdWinSetPrivate \/ CmdSetPrivate \/ Resize
    \/ Connect \/ ServerWelcome \/ Lost \/ AcctDel \/ CmdWinBind \/ CmdWinBindNext
    \/ Stopped

Spec == Init /\ [][Next]_vars

-----------------------------------------------------------------------------
Listed == ToSet(ring)

\* What a node holds.
TypeOK ==
    /\ ring \in Seq(Nodes) /\ cur \in Nodes /\ cols \in Widths /\ shared \in Widths
    /\ acct \in {"none", "offline", "online", "freed"}
    /\ private \in BOOLEAN /\ ok \in BOOLEAN
    /\ \A id \in Listed :
          /\ win[id].type \in {"status", "query"} /\ win[id].owner \in {"null", "acct"}
          /\ win[id].input \in {0} \cup Widths /\ win[id].data \in 0 .. MaxRooms

\* The list stays in the order screen_find_refnum relies on, each number once,
\* whatever is opened, closed and renumbered: every window can be reached by
\* its number.
EveryWindowIsFound ==
    /\ \A k \in 1 .. Len(ring) : Place(ring, win, win[ring[k]].ref) = k
    /\ {id \in Nodes : win[id] # None} = Listed

\* The window on the screen is in the list, and it alone counts as visible,
\* so that no other window takes its output for seen.
OnlyCurrentIsVisible ==
    ok => cur \in Listed /\ {id \in Listed : win[id].visible} = {cur}

\* A window and its own input line are as wide as the screen, and a window has
\* a line of its own exactly if its option says so: imwindow_destroy frees the
\* line by the option.
InputsFit ==
    \A id \in Listed :
        /\ win[id].cols = cols
        /\ win[id].priv = (win[id].input # 0)
        /\ win[id].input # 0 => win[id].input = cols

\* What is typed into the status window goes to data without a look: there is
\* a room as long as the account is online, and never one that was left.
StatusShowsARoom ==
    /\ win[Status].data # 0 => rooms # <<>> /\ win[Status].data = Head(rooms)
    /\ acct = "online" => win[Status].data # 0

\* Going through the windows reaches every one that is not to be skipped, and
\* comes back: forwards and backwards are each other's inverse.
PlaceOf(id) == SelectInSeq(ring, LAMBDA o : o = id)
Around == LET at[k \in 0 .. Len(ring)] ==
                  IF k = 0 THEN cur ELSE StepFrom(ring, win, PlaceOf(at[k - 1]), 1)
          IN  at
CyclingReachesAll ==
    ok => LET open == {id \in Listed : ~win[id].skip} IN
          /\ open \subseteq {Around[n] : n \in 1 .. Len(ring)}
          /\ (cur \in open) => StepFrom(ring, win, PlaceOf(Cycled(1)), -1) = cur
=============================================================================
