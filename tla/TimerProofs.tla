----------------------------- MODULE TimerProofs -----------------------------
(***************************************************************************)
(* Proofs about Timer, for every value of its constants: the type          *)
(* invariant, and that the walk of timer_run leaves no timer out and runs  *)
(* each as often as it was asked to, whatever the commands it runs do to   *)
(* the list.                                                               *)
(*                                                                         *)
(* Neither is inductive.  What carries them is the order of the list: it   *)
(* is filled at the head with growing numbers (NewestFirst), so that the   *)
(* place of the walk can be told from the number of the node it stands on  *)
(* even after that node is gone (WalkInv).                                 *)
(***************************************************************************)
EXTENDS Timer, ListLemmas

\* The list is in the order of its numbers, the last one given at its head.
NewestFirst ==
    /\ \A i, j \in DOMAIN timers : i < j => timers[j].refnum < timers[i].refnum
    /\ \A i \in DOMAIN timers : timers[i].refnum < last_refnum

\* The walk stands on a number that was given; what it saved as next is below
\* it, and no timer of the list is between the two.
WalkInv ==
    /\ pass.at \in {"visit", "command"} => pass.cur < last_refnum
    /\ pass.at = "command" =>
         /\ pass.next = None \/ pass.next < pass.cur
         /\ \A i \in DOMAIN timers :
               timers[i].refnum < pass.cur => pass.next # None /\ timers[i].refnum <= pass.next

\* RunsAddUp for one timer, which is there as long as it has runs to come.
AddsUp(t, p) ==
    t.total > 0 =>
        /\ t.times > 0
        /\ t.runs + t.times =
             t.total + IF p.at = "command" /\ p.cur = t.refnum THEN 1 ELSE 0

RunsInv == \A i \in DOMAIN timers : AddsUp(timers[i], pass)

IInv == TypeOK /\ NewestFirst /\ WalkInv /\ RunsInv

-----------------------------------------------------------------------------
(***************************************************************************)
(* Lemmas                                                                  *)
(***************************************************************************)

\* The longest interval is a number.
LEMMA MaxIntervalType == MaxInterval \in Nat /\ \A i \in Intervals : i <= MaxInterval
  BY TimerAssumption DEF MaxInterval

\* None is not a number of a timer.
LEMMA NoneType == None \in Nat /\ Refnums \subseteq Nat /\ \A r \in Refnums : r < None
  BY TimerAssumption DEF None, Refnums

\* What a list of timers holds.
LEMMA TimersType ==
    ASSUME NEW s \in Seq(TimerType)
    PROVE  /\ Len(s) \in Nat /\ DOMAIN s = 1 .. Len(s)
           /\ \A i \in DOMAIN s :
                 /\ s[i] \in TimerType
                 /\ s[i].refnum \in Refnums /\ s[i].refnum \in Nat
                 /\ s[i].times \in Nat /\ s[i].runs \in Nat /\ s[i].total \in Nat
                 /\ s[i].age \in 0 .. MaxInterval
<1>1. Len(s) \in Nat /\ DOMAIN s = 1 .. Len(s)
  OBVIOUS
<1>2. ASSUME NEW i \in DOMAIN s PROVE s[i] \in TimerType
  BY <1>1, ElementOfSeq
<1>. QED
  BY <1>1, <1>2, NoneType DEF TimerType

\* What the list holds.
LEMMA ListType ==
    ASSUME TypeOK
    PROVE  /\ Len(timers) \in Nat /\ DOMAIN timers = 1 .. Len(timers)
           /\ \A i \in DOMAIN timers :
                 /\ timers[i] \in TimerType
                 /\ timers[i].refnum \in Refnums /\ timers[i].refnum \in Nat
                 /\ timers[i].times \in Nat /\ timers[i].runs \in Nat /\ timers[i].total \in Nat
                 /\ timers[i].age \in 0 .. MaxInterval
<1>1. timers \in Seq(TimerType)
  BY DEF TypeOK
<1>. QED
  BY <1>1, TimersType

\* A number is at one place of the list.
LEMMA PosIsIt ==
    ASSUME TypeOK, NewestFirst, NEW r, InList(r)
    PROVE  /\ Pos(r) \in DOMAIN timers /\ Timer(r) = timers[Pos(r)] /\ timers[Pos(r)].refnum = r
           /\ \A i \in DOMAIN timers : timers[i].refnum = r => i = Pos(r)
<1>1. Pos(r) \in DOMAIN timers /\ timers[Pos(r)].refnum = r
  BY DEF InList, Pos
<1>2. ASSUME NEW i \in DOMAIN timers, timers[i].refnum = r PROVE i = Pos(r)
  BY SMTT(30), <1>1, <1>2, ListType DEF NewestFirst
<1>. QED
  BY <1>1, <1>2 DEF Timer

\* Nothing of the list is between a node and the one after it.
LEMMA SuccessorIsNext ==
    ASSUME TypeOK, NewestFirst, NEW r, InList(r)
    PROVE  /\ Successor(r) \in Refnums \cup {None}
           /\ Successor(r) # None => InList(Successor(r)) /\ Successor(r) < r
           /\ \A i \in DOMAIN timers :
                 timers[i].refnum < r => Successor(r) # None /\ timers[i].refnum <= Successor(r)
<1>. DEFINE p == Pos(r)
<1>1. p \in 1 .. Len(timers) /\ timers[p].refnum = r /\ Len(timers) \in Nat
  BY PosIsIt, ListType
<1>2. CASE p < Len(timers)
  <2>1. Successor(r) = timers[p + 1].refnum /\ p + 1 \in DOMAIN timers
    BY <1>1, <1>2, ListType DEF Successor
  <2>2. Successor(r) \in Refnums /\ Successor(r) # None /\ Successor(r) < r /\ InList(Successor(r))
    BY <2>1, <1>1, ListType, NoneType DEF NewestFirst, InList
  <2>3. ASSUME NEW i \in DOMAIN timers, timers[i].refnum < r
        PROVE  timers[i].refnum <= Successor(r)
    <3>1. i > p
      BY <2>3, <1>1, ListType DEF NewestFirst
    <3>. QED
      BY <3>1, <2>1, <1>1, ListType DEF NewestFirst
  <2>. QED
    BY <2>2, <2>3
<1>3. CASE p >= Len(timers)
  <2>1. Successor(r) = None /\ p = Len(timers)
    BY <1>1, <1>3 DEF Successor
  <2>2. ASSUME NEW i \in DOMAIN timers, timers[i].refnum < r PROVE FALSE
    BY <2>1, <2>2, <1>1, ListType DEF NewestFirst
  <2>. QED
    BY <2>1, <2>2
<1>. QED
  BY <1>1, <1>2, <1>3

\* What the list holds after a timer is taken out.
LEMMA ListRemoved ==
    ASSUME TypeOK, NewestFirst, NEW i \in DOMAIN timers,
           timers' = RemoveAt(timers, i), last_refnum' = last_refnum
    PROVE  /\ timers' \in Seq(TimerType)
           /\ NewestFirst'
           /\ \A k \in DOMAIN timers' :
                 \E j \in DOMAIN timers : j # i /\ timers'[k] = timers[j]
<1>1. timers \in Seq(TimerType) /\ Len(timers) \in Nat /\ i \in 1 .. Len(timers)
  BY ListType DEF TypeOK
<1>2. /\ timers' \in Seq(TimerType)
      /\ Len(timers') = Len(timers) - 1
      /\ \A j \in 1 .. Len(timers) - 1 :
            timers'[j] = IF j < i THEN timers[j] ELSE timers[j + 1]
  BY <1>1, RemoveAtSeq
<1>3. DOMAIN timers' = 1 .. Len(timers) - 1
  BY <1>1, <1>2
<1>. DEFINE from(k) == IF k < i THEN k ELSE k + 1
<1>4. ASSUME NEW k \in DOMAIN timers'
      PROVE  from(k) \in DOMAIN timers /\ from(k) # i /\ timers'[k] = timers[from(k)]
  BY <1>1, <1>2, <1>3
<1>5. \A k, l \in DOMAIN timers' : k < l => from(k) < from(l)
  BY <1>1, <1>3
<1>. HIDE DEF from
<1>6. NewestFirst'
  BY <1>4, <1>5 DEF NewestFirst
<1>. QED
  BY <1>2, <1>4, <1>6

\* What it holds after one is added.
LEMMA ListAdded ==
    ASSUME TypeOK, NewestFirst, NEW t \in TimerType, t.refnum = last_refnum,
           timers' = <<t>> \o timers, last_refnum' = last_refnum + 1
    PROVE  /\ timers' \in Seq(TimerType)
           /\ NewestFirst'
           /\ \A k \in DOMAIN timers' :
                 timers'[k] = t \/ \E j \in DOMAIN timers : timers'[k] = timers[j]
<1>1. timers \in Seq(TimerType) /\ Len(timers) \in Nat /\ last_refnum \in Nat
  BY ListType, TimerAssumption DEF TypeOK
<1>2. /\ timers' \in Seq(TimerType)
      /\ Len(timers') = Len(timers) + 1
      /\ \A j \in 1 .. Len(timers) + 1 : timers'[j] = IF j = 1 THEN t ELSE timers[j - 1]
  BY <1>1, PrependSeq
<1>3. DOMAIN timers' = 1 .. Len(timers) + 1
  BY <1>1, <1>2
<1>4. ASSUME NEW i \in DOMAIN timers', i # 1
      PROVE  i - 1 \in DOMAIN timers /\ timers'[i] = timers[i - 1]
  BY <1>1, <1>2, <1>3, <1>4
<1>5. timers'[1] = t
  BY <1>1, <1>2
<1>6. \A i \in DOMAIN timers' : timers'[i].refnum < last_refnum + 1
  BY <1>1, <1>4, <1>5, ListType DEF NewestFirst
<1>7. ASSUME NEW i \in DOMAIN timers', NEW j \in DOMAIN timers', i < j
      PROVE  timers'[j].refnum < timers'[i].refnum
  <2>1. CASE i = 1
    BY <2>1, <1>7, <1>1, <1>3, <1>4, <1>5, ListType DEF NewestFirst
  <2>2. CASE i # 1
    <3>1. j # 1 /\ i - 1 < j - 1
      BY <2>2, <1>7, <1>1, <1>3
    <3>. QED
      BY <3>1, <2>2, <1>4 DEF NewestFirst
  <2>. QED
    BY <2>1, <2>2
<1>8. NewestFirst'
  BY <1>6, <1>7 DEF NewestFirst
<1>. QED
  BY <1>2, <1>4, <1>5, <1>8

\* A step that keeps the numbers where they are keeps their order.
LEMMA NumbersStay ==
    ASSUME NewestFirst, last_refnum' = last_refnum, DOMAIN timers' = DOMAIN timers,
           \A i \in DOMAIN timers : timers'[i].refnum = timers[i].refnum
    PROVE  NewestFirst'
  BY DEF NewestFirst

\* What a /timer command does: timers go, or one comes that is newer than all.
LEMMA TimerCommandStep ==
    ASSUME TypeOK, NewestFirst, TimerCommand
    PROVE  /\ timers' \in Seq(TimerType) /\ last_refnum' \in 0 .. MaxTimers
           /\ last_refnum <= last_refnum'
           /\ NewestFirst'
           /\ \A k \in DOMAIN timers' :
                 \/ \E j \in DOMAIN timers : timers'[k] = timers[j]
                 \/ /\ timers'[k].refnum = last_refnum
                    /\ timers'[k].runs = 0 /\ timers'[k].times = timers'[k].total
<1>1. last_refnum \in 0 .. MaxTimers /\ MaxTimers \in Nat
  BY TimerAssumption DEF TypeOK
<1>2. CASE \E c \in Commands, i \in Intervals, n \in Times : AddTo(c, i, n)
  <2>1. PICK c \in Commands, i \in Intervals, n \in Times : AddTo(c, i, n)
    BY <1>2
  <2>. DEFINE t == [refnum |-> last_refnum, command |-> c, interval |-> i, times |-> n,
                    age |-> 0, runs |-> 0, total |-> n]
  <2>2. t \in TimerType
    <3>1. last_refnum \in Refnums
      BY <1>1, <2>1 DEF AddTo, Refnums
    <3>2. n \in Nat /\ 0 \in 0 .. MaxInterval
      BY TimerAssumption, MaxIntervalType
    <3>. QED
      BY <3>1, <3>2 DEF TimerType
  <2>3. timers' = <<t>> \o timers /\ last_refnum' = last_refnum + 1 /\ last_refnum < MaxTimers
    BY <2>1 DEF AddTo
  <2>4. t.refnum = last_refnum /\ t.runs = 0 /\ t.times = t.total
    OBVIOUS
  <2>. HIDE DEF t
  <2>. QED
    BY <1>1, <2>2, <2>3, <2>4, ListAdded
<1>3. CASE \E i \in DOMAIN timers : timers' = RemoveAt(timers, i) /\ UNCHANGED last_refnum
  BY <1>1, <1>3, ListRemoved
<1>4. CASE \E c \in Commands : DelFrom(c)
  BY <1>3, <1>4 DEF DelFrom
<1>5. CASE \E r \in Refnums : DelRefnumFrom(r)
  BY <1>3, <1>5, PosIsIt DEF DelRefnumFrom, Without
<1>6. CASE PurgeAll
  <2>1. timers' = <<>> /\ last_refnum' = last_refnum
    BY <1>6 DEF PurgeAll
  <2>. QED
    BY <1>1, <2>1 DEF NewestFirst
<1>. QED
  BY <1>2, <1>4, <1>5, <1>6 DEF TimerCommand

\* The type of the walk's frame.
PassType ==
    [at : {"idle", "visit", "command", "undefined"},
     cur : Refnums \cup {None}, next : Refnums \cup {None}, left : 0 .. MaxCommands]

\* Going to a node or to none.
LEMMA GotoType ==
    ASSUME NEW r \in Refnums \cup {None}
    PROVE  /\ Goto(r) \in PassType /\ Idle \in PassType /\ Undefined \in PassType
           /\ Goto(r).at \in {"idle", "visit"}
           /\ Goto(r).at = "visit" => Goto(r).cur = r /\ r # None
           /\ Idle.at = "idle" /\ Undefined.at = "undefined"
<1>1. 0 \in 0 .. MaxCommands
  BY TimerAssumption
<1>2. Idle \in PassType /\ Undefined \in PassType
  BY <1>1 DEF Idle, Undefined, PassType
<1>. QED
  BY <1>1, <1>2 DEF Goto, Idle, Undefined, PassType

\* The numbers in the frame.
LEMMA FrameType ==
    ASSUME TypeOK
    PROVE  /\ pass.at \in {"idle", "visit", "command", "undefined"}
           /\ pass.cur \in Nat /\ pass.next \in Refnums \cup {None} /\ pass.next \in Nat
           /\ pass.left \in 0 .. MaxCommands
  BY NoneType DEF TypeOK

\* A /timer command keeps the invariant, and may be one of several in the
\* command of a timer.
LEMMA CommandStep ==
    ASSUME IInv, TimerCommand, pass.at = "idle" \/ pass.at = "command",
           pass' = pass \/ (pass.left > 0 /\ pass' = [pass EXCEPT !.left = @ - 1])
    PROVE  IInv'
<1>1. /\ timers' \in Seq(TimerType) /\ last_refnum' \in 0 .. MaxTimers
      /\ last_refnum <= last_refnum'
      /\ NewestFirst'
      /\ \A k \in DOMAIN timers' :
            \/ \E j \in DOMAIN timers : timers'[k] = timers[j]
            \/ /\ timers'[k].refnum = last_refnum
               /\ timers'[k].runs = 0 /\ timers'[k].times = timers'[k].total
  BY TimerCommandStep DEF IInv
<1>2. pass'.at = pass.at /\ pass'.cur = pass.cur /\ pass'.next = pass.next /\ pass' \in PassType
  <2>1. CASE pass' = pass
    BY <2>1 DEF IInv, TypeOK, PassType
  <2>2. CASE pass.left > 0 /\ pass' = [pass EXCEPT !.left = @ - 1]
    <3>1. pass \in PassType /\ pass.left - 1 \in 0 .. MaxCommands
      BY <2>2, TimerAssumption DEF IInv, TypeOK, PassType
    <3>. QED
      BY <2>2, <3>1 DEF PassType
  <2>. QED
    BY <2>1, <2>2
<1>3. TypeOK'
  BY <1>1, <1>2 DEF TypeOK, PassType
<1>4. last_refnum \in Nat /\ last_refnum' \in Nat /\ pass.cur \in Nat /\ pass.next \in Nat
  BY <1>1, FrameType, TimerAssumption DEF IInv, TypeOK
<1>5. WalkInv'
  BY <1>1, <1>2, <1>4 DEF IInv, WalkInv
<1>6. RunsInv'
  <2>1. ASSUME NEW k \in DOMAIN timers' PROVE AddsUp(timers'[k], pass')
    <3>1. CASE \E j \in DOMAIN timers : timers'[k] = timers[j]
      BY <3>1, <1>2 DEF IInv, RunsInv, AddsUp
    <3>2. CASE /\ timers'[k].refnum = last_refnum
               /\ timers'[k].runs = 0 /\ timers'[k].times = timers'[k].total
      <4>1. timers'[k].total \in Nat
        BY <1>1, TimersType
      <4>2. ~(pass'.at = "command" /\ pass'.cur = timers'[k].refnum)
        BY <3>2, <1>2, <1>4 DEF IInv, WalkInv
      <4>. QED
        BY <3>2, <4>1, <4>2 DEF AddsUp
    <3>. QED
      BY <3>1, <3>2, <1>1
  <2>. QED
    BY <2>1 DEF RunsInv
<1>. QED
  BY <1>1, <1>3, <1>5, <1>6 DEF IInv

\* What stays as it is keeps the invariant: the walk moves to r, or stops.
LEMMA WalkOn ==
    ASSUME IInv, NEW r \in Refnums \cup {None},
           r # None => r < last_refnum,
           pass.at # "command",
           pass' = Goto(r) \/ pass' = Undefined,
           UNCHANGED <<timers, last_refnum>>
    PROVE  IInv'
<1>1. pass' \in PassType /\ pass'.at # "command" /\ (pass'.at = "visit" => pass'.cur < last_refnum)
  BY GotoType
<1>2. TypeOK' /\ NewestFirst'
  BY <1>1 DEF IInv, TypeOK, NewestFirst, PassType
<1>3. WalkInv'
  BY <1>1 DEF WalkInv
<1>4. RunsInv'
  BY <1>1 DEF IInv, RunsInv, AddsUp
<1>. QED
  BY <1>2, <1>3, <1>4 DEF IInv

\* Changing a timer where it is.
LEMMA RunsUpdate ==
    ASSUME NEW t \in TimerType, NEW n \in Nat
    PROVE  [t EXCEPT !.runs = n] \in TimerType
  BY DEF TimerType

LEMMA AgeUpdate ==
    ASSUME NEW t \in TimerType, NEW n \in Nat, NEW a \in 0 .. MaxInterval
    PROVE  /\ [t EXCEPT !.age = a] \in TimerType
           /\ [t EXCEPT !.age = a, !.times = n] \in TimerType
  BY DEF TimerType

\* A list of timers in which each is changed where it is.
LEMMA ListUpdated ==
    ASSUME TypeOK, NEW s, s = [i \in DOMAIN timers |-> s[i]],
           \A i \in DOMAIN timers : s[i] \in TimerType
    PROVE  s \in Seq(TimerType) /\ DOMAIN s = DOMAIN timers
<1>1. s \in [1 .. Len(timers) -> TimerType] /\ Len(timers) \in Nat
  BY ListType
<1>. QED
  BY <1>1, ListType

\* The walk reaches a timer that is due, and runs its command.
LEMMA TriggerStep ==
    ASSUME IInv, Trigger
    PROVE  IInv'
<1>. DEFINE r == pass.cur
            p == Pos(r)
<1>1. /\ TypeOK /\ NewestFirst /\ InList(r) /\ pass.at = "visit" /\ last_refnum' = last_refnum
      /\ r < last_refnum
  BY DEF IInv, Trigger, WalkInv
<1>2. /\ p \in DOMAIN timers /\ Timer(r) = timers[p] /\ timers[p].refnum = r
      /\ \A i \in DOMAIN timers : timers[i].refnum = r => i = p
  BY <1>1, PosIsIt
<1>3. PICK n \in 0 .. MaxCommands :
         pass' = [at |-> "command", cur |-> r, next |-> Successor(r), left |-> n]
  BY DEF Trigger
<1>4. /\ Successor(r) \in Refnums \cup {None}
      /\ Successor(r) # None => Successor(r) < r
      /\ \A i \in DOMAIN timers :
            timers[i].refnum < r => Successor(r) # None /\ timers[i].refnum <= Successor(r)
  BY <1>1, SuccessorIsNext
<1>5. r \in Refnums \cup {None}
  BY <1>1 DEF TypeOK
<1>. DEFINE m == IF timers[p].runs <= timers[p].total /\ timers[p].total > 0
                 THEN timers[p].runs + 1 ELSE timers[p].runs
            t == [timers[p] EXCEPT !.runs = m]
<1>6. m \in Nat /\ t \in TimerType
  <2>1. timers[p] \in TimerType /\ timers[p].runs \in Nat
    BY <1>1, <1>2, ListType
  <2>2. m \in Nat
    BY <2>1
  <2>. HIDE DEF m
  <2>. QED
    BY <2>1, <2>2, RunsUpdate
<1>7. timers' = [timers EXCEPT ![p] = t]
  BY <1>2 DEF Trigger
<1>8. /\ t.refnum = r /\ t.times = timers[p].times /\ t.total = timers[p].total /\ t.runs = m
  BY <1>1, <1>2, ListType DEF TimerType
<1>9. /\ DOMAIN timers' = DOMAIN timers
      /\ timers'[p] = t
      /\ \A i \in DOMAIN timers : i # p => timers'[i] = timers[i]
  BY <1>2, <1>7
<1>. HIDE DEF t
<1>10. timers' \in Seq(TimerType)
  BY <1>1, <1>2, <1>6, <1>7, ExceptSeq DEF TypeOK
<1>11. \A i \in DOMAIN timers : timers'[i].refnum = timers[i].refnum
  BY <1>2, <1>8, <1>9
<1>12. /\ pass'.at = "command" /\ pass'.cur = r /\ pass'.next = Successor(r)
       /\ pass' \in PassType
  BY <1>3, <1>4, <1>5 DEF PassType
<1>13. NewestFirst'
  BY <1>1, <1>9, <1>11, NumbersStay
<1>14. TypeOK' /\ WalkInv'
  <2>1. TypeOK'
    BY <1>1, <1>10, <1>12 DEF TypeOK, PassType
  <2>. HIDE DEF r, p
  <2>2. WalkInv'
    BY <1>1, <1>4, <1>9, <1>11, <1>12 DEF WalkInv
  <2>. QED
    BY <2>1, <2>2
<1>15. RunsInv'
  <2>1. ASSUME NEW i \in DOMAIN timers PROVE AddsUp(timers'[i], pass')
    <3>1. AddsUp(timers[i], pass)
      BY DEF IInv, RunsInv
    <3>2. CASE i = p
      <4>1. ASSUME timers[p].total > 0
            PROVE  timers[p].times > 0 /\ timers[p].runs + timers[p].times = timers[p].total
        BY <3>1, <3>2, <4>1, <1>1, <1>2, ListType DEF AddsUp
      <4>2. ASSUME timers[p].total > 0
            PROVE  m = timers[p].runs + 1
        BY <4>1, <4>2, <1>1, <1>2, ListType
      <4>3. timers[p].total \in Nat /\ timers[p].times \in Nat /\ timers[p].runs \in Nat
        BY <1>1, <1>2, ListType
      <4>. HIDE DEF m
      <4>4. pass'.at = "command" /\ pass'.cur = r
        BY <1>3
      <4>. QED
        BY <3>2, <4>1, <4>2, <4>3, <4>4, <1>8, <1>9 DEF AddsUp
    <3>3. CASE i # p
      BY <3>1, <3>3, <1>1, <1>2, <1>3, <1>9 DEF AddsUp
    <3>. QED
      BY <3>2, <3>3
  <2>. QED
    BY <2>1, <1>9 DEF RunsInv
<1>. QED
  BY <1>13, <1>14, <1>15 DEF IInv

\* Where the walk goes when a command is done.
LEMMA GotoNext ==
    ASSUME IInv, pass.at = "command", pass' = Goto(pass.next), last_refnum' = last_refnum
    PROVE  /\ pass' \in PassType /\ pass'.at \in {"idle", "visit"}
           /\ pass'.at = "visit" => pass'.cur < last_refnum'
<1>1. pass.next \in Refnums \cup {None} /\ pass.cur \in Nat /\ last_refnum \in Nat /\ pass.next \in Nat
  BY FrameType, TimerAssumption DEF IInv, TypeOK
<1>2. pass.next # None => pass.next < last_refnum
  BY <1>1 DEF IInv, WalkInv
<1>. QED
  BY <1>1, <1>2, GotoType

\* run_mcommand is done and the timer stays.
LEMMA AgainStep ==
    ASSUME IInv, Again
    PROVE  IInv'
<1>. DEFINE r == pass.cur
            p == Pos(r)
<1>1. /\ TypeOK /\ NewestFirst /\ InList(r) /\ pass.at = "command" /\ last_refnum' = last_refnum
      /\ Timer(r).times # 1 /\ pass' = Goto(pass.next)
  BY DEF IInv, Again
<1>2. /\ p \in DOMAIN timers /\ Timer(r) = timers[p] /\ timers[p].refnum = r
      /\ \A i \in DOMAIN timers : timers[i].refnum = r => i = p
      /\ timers[p] \in TimerType /\ timers[p].times \in Nat
      /\ timers[p].runs \in Nat /\ timers[p].total \in Nat
  BY <1>1, PosIsIt, ListType
<1>3. /\ pass' \in PassType /\ pass'.at \in {"idle", "visit"}
      /\ pass'.at = "visit" => pass'.cur < last_refnum'
  BY <1>1, GotoNext
<1>. DEFINE m == IF timers[p].times > 1 THEN timers[p].times - 1 ELSE timers[p].times
            t == [timers[p] EXCEPT !.age = 0, !.times = m]
<1>4. m \in Nat
  BY <1>2
<1>5. t \in TimerType
  <2>1. 0 \in 0 .. MaxInterval
    BY MaxIntervalType
  <2>. HIDE DEF m
  <2>. QED
    BY <2>1, <1>2, <1>4, AgeUpdate
<1>6. timers' = [timers EXCEPT ![p] = t]
  <2>1. timers' = [timers EXCEPT ![p].age = 0, ![p].times = IF @ > 1 THEN @ - 1 ELSE @]
    BY DEF Again
  <2>. QED
    BY <2>1, <1>2 DEF TimerType
<1>7. t.refnum = r /\ t.times = m /\ t.total = timers[p].total /\ t.runs = timers[p].runs
  BY <1>2 DEF TimerType
<1>8. /\ DOMAIN timers' = DOMAIN timers
      /\ timers'[p] = t
      /\ \A i \in DOMAIN timers : i # p => timers'[i] = timers[i]
  BY <1>2, <1>6
<1>. HIDE DEF t
<1>9. timers' \in Seq(TimerType)
  BY <1>1, <1>2, <1>5, <1>6, ExceptSeq DEF TypeOK
<1>10. \A i \in DOMAIN timers : timers'[i].refnum = timers[i].refnum
  BY <1>2, <1>7, <1>8
<1>11. NewestFirst'
  BY <1>1, <1>8, <1>10, NumbersStay
<1>12. TypeOK' /\ WalkInv'
  BY <1>1, <1>3, <1>9 DEF TypeOK, PassType, WalkInv
<1>13. RunsInv'
  <2>1. ASSUME NEW i \in DOMAIN timers PROVE AddsUp(timers'[i], pass')
    <3>1. AddsUp(timers[i], pass)
      BY DEF IInv, RunsInv
    <3>2. CASE i = p
      BY <3>1, <3>2, <1>1, <1>2, <1>3, <1>7, <1>8 DEF AddsUp
    <3>3. CASE i # p
      BY <3>1, <3>3, <1>1, <1>2, <1>3, <1>8 DEF AddsUp
    <3>. QED
      BY <3>2, <3>3
  <2>. QED
    BY <2>1, <1>8 DEF RunsInv
<1>. QED
  BY <1>11, <1>12, <1>13 DEF IInv

\* run_mcommand is done and the timer has made its last run.
LEMMA LastRunStep ==
    ASSUME IInv, LastRun
    PROVE  IInv'
<1>. DEFINE r == pass.cur
            p == Pos(r)
<1>1. /\ TypeOK /\ NewestFirst /\ InList(r) /\ pass.at = "command" /\ last_refnum' = last_refnum
      /\ pass' = Goto(pass.next) /\ timers' = RemoveAt(timers, p)
  BY DEF IInv, LastRun, Without
<1>2. /\ p \in DOMAIN timers
      /\ \A i \in DOMAIN timers : timers[i].refnum = r => i = p
  BY <1>1, PosIsIt
<1>3. /\ pass' \in PassType /\ pass'.at \in {"idle", "visit"}
      /\ pass'.at = "visit" => pass'.cur < last_refnum'
  BY <1>1, GotoNext
<1>4. /\ timers' \in Seq(TimerType)
      /\ NewestFirst'
      /\ \A k \in DOMAIN timers' : \E j \in DOMAIN timers : j # p /\ timers'[k] = timers[j]
  BY <1>1, <1>2, ListRemoved
<1>5. TypeOK' /\ WalkInv'
  BY <1>1, <1>3, <1>4 DEF TypeOK, PassType, WalkInv
<1>6. RunsInv'
  <2>1. ASSUME NEW k \in DOMAIN timers' PROVE AddsUp(timers'[k], pass')
    <3>1. PICK j \in DOMAIN timers : j # p /\ timers'[k] = timers[j]
      BY <1>4
    <3>2. AddsUp(timers[j], pass) /\ timers[j].refnum # r
      BY <3>1, <1>2 DEF IInv, RunsInv
    <3>. QED
      BY <3>1, <3>2, <1>3 DEF AddsUp
  <2>. QED
    BY <2>1 DEF RunsInv
<1>. QED
  BY <1>4, <1>5, <1>6 DEF IInv

\* A second passes.
LEMMA TickStep ==
    ASSUME IInv, Tick
    PROVE  IInv'
<1>. DEFINE a(i) == IF timers[i].age < MaxInterval THEN timers[i].age + 1 ELSE timers[i].age
<1>1. /\ timers' = [i \in DOMAIN timers |-> [timers[i] EXCEPT !.age = a(i)]]
      /\ UNCHANGED <<last_refnum, pass>>
      /\ TypeOK /\ NewestFirst
  BY DEF Tick, IInv
<1>2. ASSUME NEW i \in DOMAIN timers
      PROVE  /\ timers'[i] \in TimerType
             /\ timers'[i].refnum = timers[i].refnum /\ timers'[i].times = timers[i].times
             /\ timers'[i].runs = timers[i].runs /\ timers'[i].total = timers[i].total
  <2>1. timers[i] \in TimerType /\ timers[i].age \in 0 .. MaxInterval /\ MaxInterval \in Nat
    BY <1>1, ListType, MaxIntervalType
  <2>2. a(i) \in 0 .. MaxInterval
    BY <2>1
  <2>3. timers'[i] = [timers[i] EXCEPT !.age = a(i)]
    BY <1>1
  <2>. HIDE DEF a
  <2>. QED
    BY <2>1, <2>2, <2>3 DEF TimerType
<1>3. DOMAIN timers' = DOMAIN timers /\ timers' = [i \in DOMAIN timers |-> timers'[i]]
  BY <1>1
<1>4. timers' \in Seq(TimerType)
  BY <1>1, <1>2, <1>3, ListUpdated
<1>5. NewestFirst'
  BY <1>1, <1>2, <1>3, NumbersStay
<1>6. TypeOK' /\ WalkInv'
  BY <1>1, <1>2, <1>3, <1>4 DEF IInv, TypeOK, WalkInv
<1>7. RunsInv'
  BY <1>1, <1>2, <1>3 DEF IInv, RunsInv, AddsUp
<1>. QED
  BY <1>5, <1>6, <1>7 DEF IInv

\* The steps of the walk that leave the list alone.
LEMMA WalkStep ==
    ASSUME IInv, Begin \/ Skip \/ NestedOther \/ Dangling
    PROVE  IInv'
<1>1. TypeOK /\ NewestFirst /\ last_refnum \in Nat /\ pass.cur \in Nat
  BY FrameType, TimerAssumption DEF IInv, TypeOK
<1>2. CASE Begin
  <2>1. 1 \in DOMAIN timers
    BY <1>1, <1>2, ListType, EmptySeq DEF Begin, TypeOK
  <2>. QED
    BY <2>1, <1>1, <1>2, ListType, WalkOn DEF Begin, NewestFirst
<1>3. CASE Skip
  <2>1. InList(pass.cur) /\ pass.at = "visit" /\ pass.cur < last_refnum
    BY <1>3 DEF Skip, IInv, WalkInv
  <2>2. /\ Successor(pass.cur) \in Refnums \cup {None}
        /\ Successor(pass.cur) # None => Successor(pass.cur) < pass.cur
    BY <2>1, <1>1, SuccessorIsNext
  <2>3. Successor(pass.cur) \in Nat
    BY <2>2, NoneType
  <2>4. Successor(pass.cur) # None => Successor(pass.cur) < last_refnum
    BY <2>1, <2>2, <2>3, <1>1
  <2>. QED
    BY <2>1, <2>2, <2>4, <1>3, WalkOn DEF Skip
<1>4. CASE NestedOther
  <2>1. /\ pass.at = "command" /\ pass.left > 0 /\ pass' = [pass EXCEPT !.left = @ - 1]
        /\ UNCHANGED <<timers, last_refnum>>
    BY <1>4 DEF NestedOther
  <2>2. pass \in PassType /\ pass.left - 1 \in 0 .. MaxCommands
    BY <2>1, <1>1, FrameType, TimerAssumption DEF TypeOK, PassType
  <2>3. pass' \in PassType /\ pass'.at = pass.at /\ pass'.cur = pass.cur /\ pass'.next = pass.next
    BY <2>1, <2>2 DEF PassType
  <2>. QED
    BY <2>1, <2>3 DEF IInv, TypeOK, NewestFirst, WalkInv, RunsInv, AddsUp, PassType
<1>5. CASE Dangling
  <2>1. pass' = Undefined /\ UNCHANGED <<timers, last_refnum>>
    BY <1>5 DEF Dangling
  <2>2. pass' \in PassType /\ pass'.at = "undefined"
    BY <2>1, GotoType
  <2>3. RunsInv'
    <3>1. ASSUME NEW i \in DOMAIN timers PROVE AddsUp(timers[i], pass')
      <4>1. AddsUp(timers[i], pass)
        BY DEF IInv, RunsInv
      <4>2. ~(pass.at = "command" /\ pass.cur = timers[i].refnum)
        BY <1>5 DEF Dangling, InList
      <4>. QED
        BY <4>1, <4>2, <2>2 DEF AddsUp
    <3>. QED
      BY <3>1, <2>1 DEF RunsInv
  <2>. QED
    BY <2>1, <2>2, <2>3 DEF IInv, TypeOK, NewestFirst, WalkInv, PassType
<1>. QED
  BY <1>2, <1>3, <1>4, <1>5

\* In the first state there is no timer.
LEMMA InitInv == Init => IInv
<1>. SUFFICES ASSUME Init PROVE IInv
  OBVIOUS
<1>1. timers = <<>> /\ last_refnum = 0 /\ pass = Idle /\ Idle \in PassType /\ Idle.at = "idle"
  BY GotoType, NoneType DEF Init
<1>2. 0 \in 0 .. MaxTimers
  BY TimerAssumption
<1>. QED
  BY <1>1, <1>2 DEF IInv, TypeOK, NewestFirst, WalkInv, RunsInv, PassType

\* Every step keeps the invariant.
LEMMA NextInv == IInv /\ [Next]_vars => IInv'
<1>. SUFFICES ASSUME IInv, [Next]_vars PROVE IInv'
  OBVIOUS
<1>1. CASE UserCommand
  BY <1>1, CommandStep DEF UserCommand
<1>2. CASE NestedCommand
  BY <1>2, CommandStep DEF NestedCommand
<1>3. CASE Begin \/ Skip \/ NestedOther \/ Dangling
  BY <1>3, WalkStep
<1>4. CASE Trigger
  BY <1>4, TriggerStep
<1>5. CASE Again
  BY <1>5, AgainStep
<1>6. CASE LastRun
  BY <1>6, LastRunStep
<1>7. CASE Tick
  BY <1>7, TickStep
<1>8. CASE UNCHANGED vars
  BY <1>8 DEF vars, IInv, TypeOK, NewestFirst, WalkInv, RunsInv, AddsUp
<1>. QED
  BY <1>1, <1>2, <1>3, <1>4, <1>5, <1>6, <1>7, <1>8 DEF Next, Run, Stopped

\* What was saved as next is the node after the one the walk stands on.
LEMMA InvSkipsNone == IInv => NoTimerSkipped
<1>. SUFFICES ASSUME IInv, pass.at = "command", InList(pass.cur),
                     pass.next = None \/ InList(pass.next)
              PROVE  Successor(pass.cur) = pass.next
  BY DEF NoTimerSkipped
<1>. DEFINE r == pass.cur
            n == pass.next
<1>1. /\ TypeOK /\ NewestFirst
      /\ n = None \/ n < r
      /\ \A i \in DOMAIN timers : timers[i].refnum < r => n # None /\ timers[i].refnum <= n
      /\ r \in Nat /\ n \in Nat
  BY FrameType DEF IInv, WalkInv
<1>2. /\ Successor(r) # None => InList(Successor(r)) /\ Successor(r) < r
      /\ \A i \in DOMAIN timers :
            timers[i].refnum < r => Successor(r) # None /\ timers[i].refnum <= Successor(r)
      /\ Successor(r) \in Nat
  BY <1>1, SuccessorIsNext, NoneType
<1>3. CASE n = None
  BY <1>1, <1>2, <1>3 DEF InList
<1>4. CASE n # None
  <2>1. Successor(r) # None /\ n <= Successor(r)
    BY <1>1, <1>2, <1>4 DEF InList
  <2>2. Successor(r) <= n
    BY <2>1, <1>1, <1>2 DEF InList
  <2>. QED
    BY <2>1, <2>2, <1>1, <1>2
<1>. QED
  BY <1>3, <1>4

-----------------------------------------------------------------------------
(***************************************************************************)
(* Theorems                                                                *)
(***************************************************************************)

\* The list is in order and typed, the walk's two pointers stand in it where
\* they should, and the runs add up, in every state of timer_run and of the
\* /timer commands: the inductive invariant.
THEOREM Invariance == Spec => []IInv
  BY InitInv, NextInv, PTL DEF Spec

\* The list, the numbers and the frame of timer_run have their types.
THEOREM TypeCorrect == Spec => []TypeOK
<1>1. IInv => TypeOK
  BY DEF IInv
<1>. QED
  BY <1>1, Invariance, PTL

\* timer_run leaves no timer out, whatever a command adds to the list or
\* deletes from it, for any number of timers and of commands.
THEOREM NoneSkipped == Spec => []NoTimerSkipped
  BY InvSkipsNone, Invariance, PTL

\* timer_run runs a timer as often as "timer add" asked for.
THEOREM RunsAsAsked == Spec => []RunsAddUp
<1>1. IInv => RunsAddUp
  BY DEF IInv, RunsInv, AddsUp, RunsAddUp
<1>. QED
  BY <1>1, Invariance, PTL
=============================================================================
