------------------------------- MODULE Timer -------------------------------
(***************************************************************************)
(* The /timer commands (ncic_command.c) and the timer list of ncic_timer.c *)
(* that the main loop runs once per second.                                *)
(*                                                                         *)
(* timer_run walks the list and runs the command of every timer that is    *)
(* due.  "The command can be any command that can be entered on the        *)
(* command line" (doc/help/timer/add), the /timer commands included, so    *)
(* the list changes under the walk, which keeps two pointers into it       *)
(* across run_mcommand.                                                    *)
(*                                                                         *)
(* A timer is identified by its refnum (last_refnum++, no wrap within the  *)
(* bound); the list node and the timer_entry are allocated and freed       *)
(* together, so a pointer dangles when its refnum is not in the list.      *)
(* Following a dangling pointer leads to pass.at = "undefined".            *)
(*                                                                         *)
(* In this tree /timer does not reach its commands: CMDSET_TIMER is an     *)
(* index into command_set at which the acct commands stand (Commands).     *)
(* The module is about the code as it is called once that is repaired.     *)
(*                                                                         *)
(* The code compares time() with last_run + interval only: age is          *)
(* now - last_run, cut off at the longest interval.                        *)
(***************************************************************************)
EXTENDS Naturals, Sequences, SequencesExt

CONSTANTS
    Commands,      \* the command strings timers are added with
    Intervals,     \* the intervals given to timer add
    Times,         \* the numbers of runs given to timer add, 0 for unlimited
    MaxTimers,     \* bound: timers added in a behaviour
    MaxCommands    \* bound: /timer commands in the command string of one timer

\* The longest interval is one that fits into the code's uint32_t.
ASSUME TimerAssumption ==
    /\ Intervals \subseteq Nat
    /\ \E i \in Intervals : \A j \in Intervals : j <= i
    /\ Times \subseteq Nat
    /\ MaxTimers \in Nat /\ MaxCommands \in Nat

VARIABLES
    timers,        \* screen.timer_list, head first
    last_refnum,
    pass           \* the frame of timer_run: where it is, cur, next, commands left

vars == <<timers, last_refnum, pass>>

Refnums == 0 .. MaxTimers - 1
None == MaxTimers                        \* a NULL list node
MaxInterval == CHOOSE i \in Intervals : \A j \in Intervals : j <= i

Idle == [at |-> "idle", cur |-> None, next |-> None, left |-> 0]
Undefined == [Idle EXCEPT !.at = "undefined"]

Init == timers = <<>> /\ last_refnum = 0 /\ pass = Idle

-----------------------------------------------------------------------------
(***************************************************************************)
(* The list                                                                *)
(***************************************************************************)
InList(r) == \E i \in DOMAIN timers : timers[i].refnum = r
Pos(r) == CHOOSE i \in DOMAIN timers : timers[i].refnum = r
Timer(r) == timers[Pos(r)]

\* node->next
Successor(r) == IF Pos(r) < Len(timers) THEN timers[Pos(r) + 1].refnum ELSE None

Without(r) == RemoveAt(timers, Pos(r))

(***************************************************************************)
(* The /timer commands: the effect each has on the list.  They come from   *)
(* the keyboard when timer_run is not on the stack, and from the command   *)
(* of a timer when it is.                                                  *)
(***************************************************************************)
\* Definitions marked "Variant" are not part of the specification: each is the
\* definition after it with a mistake that could be made in the code.

\* Variant: added after the head.
AddToSecond(command, interval, times) ==
    /\ last_refnum < MaxTimers
    /\ timers' = InsertAt(timers, IF timers = <<>> THEN 1 ELSE 2,
                          [refnum |-> last_refnum, command |-> command,
                           interval |-> interval, times |-> times, age |-> 0,
                           runs |-> 0, total |-> times])
    /\ last_refnum' = last_refnum + 1

\* timer add.  runs and total are history: the runs made, counted for a timer
\* with a limit and up to one too many, and those asked for.
AddTo(command, interval, times) ==
    /\ last_refnum < MaxTimers
    /\ timers' = <<[refnum |-> last_refnum, command |-> command,
                    interval |-> interval, times |-> times, age |-> 0,
                    runs |-> 0, total |-> times]>> \o timers
    /\ last_refnum' = last_refnum + 1

\* timer del: dlist_find returns the first match.
DelFrom(command) ==
    /\ \E i \in DOMAIN timers :
          /\ timers[i].command = command
          /\ \A j \in 1 .. i - 1 : timers[j].command # command
          /\ timers' = RemoveAt(timers, i)
    /\ UNCHANGED last_refnum

\* timer del_refnum
DelRefnumFrom(r) ==
    /\ InList(r)
    /\ timers' = Without(r)
    /\ UNCHANGED last_refnum

\* timer purge
PurgeAll ==
    /\ timers # <<>>
    /\ timers' = <<>>
    /\ UNCHANGED last_refnum

TimerCommand ==
    \/ \E c \in Commands, i \in Intervals, n \in Times : AddTo(c, i, n)
    \/ \E c \in Commands : DelFrom(c)
    \/ \E r \in Refnums : DelRefnumFrom(r)
    \/ PurgeAll

\* Typed by the user.
UserCommand ==
    /\ pass.at = "idle"
    /\ TimerCommand
    /\ UNCHANGED pass

-----------------------------------------------------------------------------
(***************************************************************************)
(* timer_run                                                               *)
(***************************************************************************)

\* The next node of the walk, or the return when there is none.
Goto(r) == IF r = None THEN Idle ELSE [Idle EXCEPT !.at = "visit", !.cur = r]

Begin ==
    /\ pass.at = "idle" /\ timers # <<>>
    /\ pass' = Goto(timers[1].refnum)
    /\ UNCHANGED <<timers, last_refnum>>

Due(r) == Timer(r).age >= Timer(r).interval

\* The timer is not due.
Skip ==
    /\ pass.at = "visit" /\ InList(pass.cur) /\ ~Due(pass.cur)
    /\ pass' = Goto(Successor(pass.cur))
    /\ UNCHANGED <<timers, last_refnum>>

\* It is: run_mcommand is called on a copy of its command.
Trigger ==
    /\ pass.at = "visit" /\ InList(pass.cur) /\ Due(pass.cur)
    /\ \E n \in 0 .. MaxCommands :
          pass' = [at |-> "command", cur |-> pass.cur,
                   next |-> Successor(pass.cur), left |-> n]
    /\ timers' = [timers EXCEPT ![Pos(pass.cur)].runs =
                    IF @ <= Timer(pass.cur).total /\ Timer(pass.cur).total > 0
                    THEN @ + 1 ELSE @]
    /\ UNCHANGED last_refnum

\* A /timer command inside run_mcommand.
NestedCommand ==
    /\ pass.at = "command" /\ pass.left > 0
    /\ TimerCommand
    /\ pass' = [pass EXCEPT !.left = @ - 1]

\* Another command, or a /timer command that finds nothing to do.
NestedOther ==
    /\ pass.at = "command" /\ pass.left > 0
    /\ pass' = [pass EXCEPT !.left = @ - 1]
    /\ UNCHANGED <<timers, last_refnum>>

\* Variant: the runs are not counted.
AgainForgetsToCount ==
    /\ pass.at = "command" /\ pass.left = 0 /\ InList(pass.cur)
    /\ Timer(pass.cur).times # 1
    /\ timers' = [timers EXCEPT ![Pos(pass.cur)].age = 0]
    /\ pass' = Goto(pass.next)
    /\ UNCHANGED last_refnum

\* Variant: the walk starts over, lest it miss what the command changed.
AgainFromHead ==
    /\ pass.at = "command" /\ pass.left = 0 /\ InList(pass.cur)
    /\ Timer(pass.cur).times # 1
    /\ timers' = [timers EXCEPT
                    ![Pos(pass.cur)].age = 0,
                    ![Pos(pass.cur)].times = IF @ > 1 THEN @ - 1 ELSE @]
    /\ pass' = Goto(timers[1].refnum)
    /\ UNCHANGED last_refnum

\* run_mcommand returns and timer->times says what becomes of the timer.
Again ==
    /\ pass.at = "command" /\ pass.left = 0 /\ InList(pass.cur)
    /\ Timer(pass.cur).times # 1
    /\ timers' = [timers EXCEPT
                    ![Pos(pass.cur)].age = 0,
                    ![Pos(pass.cur)].times = IF @ > 1 THEN @ - 1 ELSE @]
    /\ pass' = Goto(pass.next)
    /\ UNCHANGED last_refnum

LastRun ==
    /\ pass.at = "command" /\ pass.left = 0 /\ InList(pass.cur)
    /\ Timer(pass.cur).times = 1
    /\ timers' = Without(pass.cur)
    /\ pass' = Goto(pass.next)
    /\ UNCHANGED last_refnum

\* cur was freed: by the command just run (timer->times), or as the next node
\* by the command of the node before it (cur->next).
Dangling ==
    /\ \/ pass.at = "visit"
       \/ pass.at = "command" /\ pass.left = 0
    /\ ~InList(pass.cur)
    /\ pass' = Undefined
    /\ UNCHANGED <<timers, last_refnum>>

-----------------------------------------------------------------------------
\* A second passes.
Tick ==
    /\ timers # <<>> /\ pass.at # "undefined"
    /\ timers' = [i \in DOMAIN timers |->
                    [timers[i] EXCEPT !.age = IF @ < MaxInterval THEN @ + 1 ELSE @]]
    /\ UNCHANGED <<last_refnum, pass>>

\* Nothing is known of the program once it followed a dangling pointer; it
\* has also nothing left to do when every timer of the bound came and went.
Stopped ==
    /\ pass.at = "undefined" \/ (pass.at = "idle" /\ timers = <<>> /\ last_refnum = MaxTimers)
    /\ UNCHANGED vars

Run == Begin \/ Skip \/ Trigger \/ NestedCommand \/ NestedOther \/ Again \/ LastRun \/ Dangling

Next == UserCommand \/ Run \/ Tick \/ Stopped

Spec == Init /\ [][Next]_vars

(***************************************************************************)
(* The main loop calls timer_run again and again, a command string is      *)
(* finite, and time passes.                                                *)
(***************************************************************************)
FairSpec == Spec /\ WF_vars(Run) /\ WF_vars(Tick)

-----------------------------------------------------------------------------
TimerType ==
    [refnum : Refnums, command : Commands, interval : Intervals, times : Nat,
     age : 0 .. MaxInterval, runs : Nat, total : Nat]

\* The type invariant.
TypeOK ==
    /\ timers \in Seq(TimerType)
    /\ last_refnum \in 0 .. MaxTimers
    /\ pass \in [at : {"idle", "visit", "command", "undefined"},
                 cur : Refnums \cup {None}, next : Refnums \cup {None},
                 left : 0 .. MaxCommands]

\* A pass leaves no timer out: whatever a command adds or deletes, the node
\* the walk saved as next is still the one after cur, if both are there.
NoTimerSkipped ==
    pass.at = "command" /\ InList(pass.cur) /\ (pass.next = None \/ InList(pass.next))
        => Successor(pass.cur) = pass.next

\* A timer is run as often as asked: the runs made and the runs to come add up
\* to the number given to "timer add", the one under way counted once.
RunsAddUp ==
    \A i \in DOMAIN timers :
        LET t == timers[i] IN
        t.total > 0 =>
            t.runs + t.times =
                t.total + IF pass.at = "command" /\ pass.cur = t.refnum THEN 1 ELSE 0

\* A limited timer does not outlive its runs.
LimitedTimersEnd ==
    \A r \in Refnums :
        (InList(r) /\ Timer(r).total > 0) ~> (~InList(r) \/ pass.at = "undefined")

\* A pass ends, even when its commands add timers that are due at once.
PassEnds == (pass.at = "visit") ~> (pass.at \in {"idle", "undefined"})
=============================================================================
