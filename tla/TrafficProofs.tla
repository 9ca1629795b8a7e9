---------------------------- MODULE TrafficProofs ----------------------------
(***************************************************************************)
(* Proofs about Traffic, for every value of its constants: what waits for  *)
(* the connection is written once and in order, who is connected and read  *)
(* from overtakes nothing, the server knows who is away, and the autoreply *)
(* tables are accounted for; of what the server sends nothing is shown     *)
(* twice or out of order, and all of it if the reads end with lines.       *)
(*                                                                         *)
(* The commands depend on outq, wire and seen only; the lemmas are about   *)
(* a record c of the three, as irc_send and pork_set_back change it, and   *)
(* the actions put them together.                                          *)
(***************************************************************************)
EXTENDS Traffic, ListLemmas

Kinds == {"say", "away", "back"}
Cmd == [kind : Kinds, n : Nat]

\* The history: what the reads fill is of no matter here.
HistoryOK(s) ==
    /\ s = [sent |-> s.sent, shown |-> s.shown, cut |-> s.cut, queued |-> s.queued,
            overtook |-> s.overtook, untold |-> s.untold, backs |-> s.backs,
            commands |-> s.commands]
    /\ s.queued \in Nat /\ s.backs \in Nat /\ s.commands \in Nat
    /\ s.overtook \in BOOLEAN /\ s.untold \in BOOLEAN

\* What irc_send works on.
SendingOK(c) ==
    /\ c = [outq |-> c.outq, wire |-> c.wire, seen |-> c.seen]
    /\ c.outq \in Seq(Cmd) /\ c.wire \in Seq(Cmd)
    /\ HistoryOK(c.seen)

\* QueuedOnceInOrder and ServerKnowsAway of any such record.
InOrder(c) ==
    LET done   == c.seen.queued - Len(c.outq)
        waited == {k \in DOMAIN c.wire : c.wire[k].n # 0}
    IN  /\ done >= 0
        /\ {c.wire[k].n : k \in waited} = 1 .. done
        /\ \A j, k \in waited : j < k => c.wire[j].n < c.wire[k].n
        /\ \A k \in DOMAIN c.outq : c.outq[k].n = done + k

AwayKnown(c, a) ==
    ~c.seen.untold /\ ~c.seen.overtook => (a <=> ToldAway(c.wire \o c.outq))

\* Both, where a says whether the user is away.
SendInv(c, a) == SendingOK(c) /\ InOrder(c) /\ AwayKnown(c, a)

\* A session that was read from has a socket and nothing that waits.
LoginInv ==
    /\ link # "down" => sock
    /\ live => sock
    /\ live /\ Running => outq = <<>>

IInv ==
    /\ TypeOK /\ SendingOK(Now) /\ LoginInv
    /\ QueuedOnceInOrder /\ ServerKnowsAway /\ TablesAccounted

-----------------------------------------------------------------------------
(***************************************************************************)
(* Lemmas                                                                  *)
(***************************************************************************)

\* irc_send touches the queue, the wire and three parts of the history.
LEMMA IrcSendType ==
    ASSUME NEW c, SendingOK(c), NEW kind \in Kinds, NEW res
    PROVE  /\ SendingOK(IrcSend(c, kind, res))
           /\ IrcSend(c, kind, res).seen.backs = c.seen.backs
           /\ res # "queued" => IrcSend(c, kind, res).outq = c.outq
           /\ c.outq = <<>> => IrcSend(c, kind, res).seen.overtook = c.seen.overtook
<1> DEFINE d == IrcSend(c, kind, res)
           s == c.seen
<1> SUFFICES /\ SendingOK(d) /\ d.seen.backs = s.backs
             /\ res # "queued" => d.outq = c.outq
             /\ c.outq = <<>> => d.seen.overtook = s.overtook
  OBVIOUS
<1>1. /\ c = [outq |-> c.outq, wire |-> c.wire, seen |-> s]
      /\ c.outq \in Seq(Cmd) /\ c.wire \in Seq(Cmd)
      /\ HistoryOK(s) /\ s.queued \in Nat
  BY DEF SendingOK, HistoryOK
<1>2. CASE res = "queued"
  <2> DEFINE e == [kind |-> kind, n |-> s.queued + 1]
             t == [s EXCEPT !.queued = @ + 1]
  <2>1. HistoryOK(t) /\ t.backs = s.backs /\ t.overtook = s.overtook
    <3>1. t = [sent |-> s.sent, shown |-> s.shown, cut |-> s.cut, queued |-> s.queued + 1,
               overtook |-> s.overtook, untold |-> s.untold, backs |-> s.backs,
               commands |-> s.commands]
      BY <1>1 DEF HistoryOK
    <3>2. s.queued + 1 \in Nat
      BY <1>1
    <3>. HIDE DEF t
    <3>. QED  BY <1>1, <3>1, <3>2 DEF HistoryOK
  <2>2. e \in Cmd
    BY <1>1 DEF Cmd
  <2>. HIDE DEF e
  <2>3. Append(c.outq, e) \in Seq(Cmd)
    BY <1>1, <2>2
  <2>4. d = [outq |-> Append(c.outq, e), wire |-> c.wire, seen |-> t]
    BY <1>1, <1>2 DEF IrcSend, QueueAdd, e
  <2>. HIDE DEF d, t
  <2>. QED  BY <1>1, <1>2, <2>1, <2>3, <2>4 DEF SendingOK
<1>3. CASE res = "written"
  <2> DEFINE e == [kind |-> kind, n |-> 0]
             t == [s EXCEPT !.overtook = @ \/ c.outq # <<>>]
  <2>1. HistoryOK(t) /\ t.backs = s.backs
    BY <1>1 DEF HistoryOK
  <2>2. c.outq = <<>> => t.overtook = s.overtook
    BY <1>1 DEF HistoryOK
  <2>3. e \in Cmd
    BY <1>1 DEF Cmd
  <2>. HIDE DEF e
  <2>4. Append(c.wire, e) \in Seq(Cmd)
    BY <1>1, <2>3
  <2>5. d = [outq |-> c.outq, wire |-> Append(c.wire, e), seen |-> t]
    BY <1>1, <1>3 DEF IrcSend, e
  <2>. HIDE DEF d, t
  <2>. QED  BY <1>1, <1>3, <2>1, <2>2, <2>4, <2>5 DEF SendingOK
<1>4. CASE res \notin {"queued", "written"}
  <2> DEFINE t == [s EXCEPT !.untold = @ \/ kind \in {"away", "back"}]
  <2>1. HistoryOK(t) /\ t.backs = s.backs /\ t.overtook = s.overtook
    BY <1>1 DEF HistoryOK
  <2>2. d = [outq |-> c.outq, wire |-> c.wire, seen |-> t]
    BY <1>1, <1>4 DEF IrcSend
  <2>. HIDE DEF d, t
  <2>. QED  BY <1>1, <2>1, <2>2 DEF SendingOK
<1>. QED  BY <1>2, <1>3, <1>4

\* What irc_send queues goes behind all that waits, and what it writes at once
\* did not wait.
LEMMA IrcSendOrder ==
    ASSUME NEW c, SendingOK(c), InOrder(c), NEW kind \in Kinds, NEW res
    PROVE  InOrder(IrcSend(c, kind, res))
<1> DEFINE d == IrcSend(c, kind, res)
           q == c.outq
           w == c.wire
           Waited(s) == {k \in DOMAIN s : s[k].n # 0}
<1> SUFFICES InOrder(d)
  OBVIOUS
<1>1. /\ q \in Seq(Cmd) /\ w \in Seq(Cmd) /\ c.seen.queued \in Nat
      /\ Len(q) \in Nat /\ Len(w) \in Nat
  BY DEF SendingOK, HistoryOK
<1>2. CASE res = "queued"
  <2> DEFINE e == [kind |-> kind, n |-> c.seen.queued + 1]
  <2>1. /\ d.wire = w /\ d.outq = Append(q, e) /\ d.seen.queued = c.seen.queued + 1
    BY <1>2 DEF IrcSend, QueueAdd, SendingOK, HistoryOK
  <2>2. /\ Len(Append(q, e)) = Len(q) + 1
        /\ \A k \in 1 .. Len(q) : Append(q, e)[k] = q[k]
        /\ Append(q, e)[Len(q) + 1] = e
    BY <1>1
  <2>3. d.seen.queued - Len(d.outq) = c.seen.queued - Len(q)
    BY SMTT(30), <1>1, <2>1, <2>2
  <2>4. \A k \in DOMAIN d.outq : d.outq[k].n = c.seen.queued - Len(q) + k
    <3>1. DOMAIN d.outq = 1 .. Len(q) + 1 /\ DOMAIN q = 1 .. Len(q)
      BY <1>1, <2>1, <2>2
    <3>2. \A k \in 1 .. Len(q) : q[k].n = c.seen.queued - Len(q) + k
      BY <3>1 DEF InOrder
    <3>3. e.n = c.seen.queued - Len(q) + (Len(q) + 1)
      BY <1>1
    <3>. QED  BY SMTT(30), <1>1, <2>1, <2>2, <3>1, <3>2, <3>3
  <2>. QED  BY <2>1, <2>3, <2>4 DEF InOrder
<1>3. CASE res = "written"
  <2> DEFINE e == [kind |-> kind, n |-> 0]
  <2>1. d.wire = Append(w, e) /\ d.outq = q /\ d.seen.queued = c.seen.queued
    BY <1>3 DEF IrcSend, SendingOK, HistoryOK
  <2>2. /\ DOMAIN d.wire = 1 .. Len(w) + 1 /\ DOMAIN w = 1 .. Len(w)
        /\ \A k \in 1 .. Len(w) : d.wire[k] = w[k]
        /\ d.wire[Len(w) + 1] = e
    BY <1>1, <2>1
  <2>3. Waited(d.wire) = Waited(w) /\ \A k \in Waited(w) : d.wire[k] = w[k]
    BY SMTT(30), <1>1, <2>2
  <2>4. {d.wire[k].n : k \in Waited(d.wire)} = {w[k].n : k \in Waited(w)}
    BY <2>3
  <2>. HIDE DEF d
  <2>. QED  BY <2>1, <2>3, <2>4 DEF InOrder
<1>4. CASE res \notin {"queued", "written"}
  <2>1. d.wire = w /\ d.outq = q /\ d.seen.queued = c.seen.queued
    BY <1>4 DEF IrcSend, SendingOK, HistoryOK
  <2>. HIDE DEF d
  <2>. QED  BY <2>1 DEF InOrder
<1>. QED  BY <1>2, <1>3, <1>4

\* One more command decides whether the user is away, unless it is about
\* something else.
LEMMA ToldAwayAppend ==
    ASSUME NEW s \in Seq(Cmd), NEW e \in Cmd
    PROVE  /\ e.kind = "away" => ToldAway(Append(s, e))
           /\ e.kind = "back" => ~ToldAway(Append(s, e))
           /\ e.kind = "say" => (ToldAway(Append(s, e)) <=> ToldAway(s))
<1> DEFINE t == Append(s, e)
           n == Len(s)
<1>1. /\ n \in Nat /\ DOMAIN s = 1 .. n /\ DOMAIN t = 1 .. n + 1
      /\ \A k \in 1 .. n : t[k] = s[k]
      /\ t[n + 1] = e
  OBVIOUS
<1>. HIDE DEF t, n
<1>2. ASSUME e.kind = "away" PROVE ToldAway(t)
  BY <1>1, <1>2 DEF ToldAway
<1>3. ASSUME e.kind = "back" PROVE ~ToldAway(t)
  BY <1>1, <1>3 DEF ToldAway
<1>4. ASSUME e.kind = "say" PROVE ToldAway(t) <=> ToldAway(s)
  <2>1. ASSUME ToldAway(t) PROVE ToldAway(s)
    <3>1. PICK k \in DOMAIN t : t[k].kind = "away" /\ \A j \in DOMAIN t : j > k => t[j].kind # "back"
      BY <2>1 DEF ToldAway
    <3>2. k \in DOMAIN s
      BY <1>1, <1>4, <3>1
    <3>. QED  BY <1>1, <3>1, <3>2 DEF ToldAway
  <2>2. ASSUME ToldAway(s) PROVE ToldAway(t)
    <3>1. PICK k \in DOMAIN s : s[k].kind = "away" /\ \A j \in DOMAIN s : j > k => s[j].kind # "back"
      BY <2>2 DEF ToldAway
    <3>2. k \in DOMAIN t
      BY <1>1, <3>1
    <3>3. \A j \in DOMAIN t : j > k => t[j].kind # "back"
      BY <1>1, <1>4, <3>1
    <3>. QED  BY <1>1, <3>1, <3>2, <3>3 DEF ToldAway
  <2>. QED  BY <2>1, <2>2
<1>. QED  BY <1>2, <1>3, <1>4 DEF t

\* After a command that says so the server knows who is away, and after any
\* other as it did before.
LEMMA IrcSendAway ==
    ASSUME NEW c, SendingOK(c), NEW kind \in Kinds, NEW res, NEW a \in BOOLEAN, NEW b \in BOOLEAN,
           kind = "say" => AwayKnown(c, a) /\ b = a,
           kind = "away" => b = TRUE,
           kind = "back" => b = FALSE
    PROVE  AwayKnown(IrcSend(c, kind, res), b)
<1> DEFINE d == IrcSend(c, kind, res)
           q == c.outq
           w == c.wire
<1> SUFFICES AwayKnown(d, b)
  OBVIOUS
<1>1. q \in Seq(Cmd) /\ w \in Seq(Cmd) /\ c.seen.queued \in Nat
  BY DEF SendingOK, HistoryOK
<1>2. ASSUME NEW e \in Cmd, e.kind = kind,
             d.seen.untold = c.seen.untold,
             d.seen.overtook = c.seen.overtook,
             d.wire \o d.outq = Append(w \o q, e)
      PROVE  AwayKnown(d, b)
  <2> DEFINE s == w \o q
  <2>1. s \in Seq(Cmd)
    BY <1>1
  <2>. HIDE DEF s
  <2>2. /\ kind = "away" => ToldAway(Append(s, e))
        /\ kind = "back" => ~ToldAway(Append(s, e))
        /\ kind = "say" => (ToldAway(Append(s, e)) <=> ToldAway(s))
    BY <1>2, <2>1, ToldAwayAppend
  <2>3. d.wire \o d.outq = Append(s, e)
    BY <1>2 DEF s
  <2>. HIDE DEF d
  <2>. QED  BY <1>2, <2>2, <2>3 DEF AwayKnown, Kinds, s
<1>3. CASE res = "queued"
  <2> DEFINE e == [kind |-> kind, n |-> c.seen.queued + 1]
  <2>1. /\ d.wire = w /\ d.outq = Append(q, e)
        /\ d.seen.untold = c.seen.untold /\ d.seen.overtook = c.seen.overtook
    BY <1>3 DEF IrcSend, QueueAdd, SendingOK, HistoryOK
  <2>2. e \in Cmd /\ e.kind = kind
    BY <1>1 DEF Cmd
  <2>. HIDE DEF e
  <2>3. w \o Append(q, e) = Append(w \o q, e)
    <3>. HIDE DEF d, q, w
    <3>. QED  BY <1>1, <2>2, ConcatAppend
  <2>. HIDE DEF d
  <2>. QED  BY <1>2, <2>1, <2>2, <2>3
<1>4. CASE res = "written" /\ q = <<>>
  <2> DEFINE e == [kind |-> kind, n |-> 0]
  <2>1. /\ d.wire = Append(w, e) /\ d.outq = q
        /\ d.seen.untold = c.seen.untold /\ d.seen.overtook = c.seen.overtook
    BY <1>4 DEF IrcSend, SendingOK, HistoryOK
  <2>2. e \in Cmd /\ e.kind = kind
    BY DEF Cmd
  <2>. HIDE DEF e
  <2>3. Append(w, e) \o q = Append(w \o q, e)
    BY <1>1, <1>4, <2>2
  <2>. HIDE DEF d
  <2>. QED  BY <1>2, <2>1, <2>2, <2>3
<1>5. CASE res = "written" /\ q # <<>>
  <2>1. d.seen.overtook = TRUE
    BY <1>5 DEF IrcSend, SendingOK, HistoryOK
  <2>. QED  BY <2>1 DEF AwayKnown
<1>6. CASE res \notin {"queued", "written"}
  <2>1. /\ d.wire = w /\ d.outq = q /\ d.seen.overtook = c.seen.overtook
        /\ d.seen.untold = (c.seen.untold \/ kind \in {"away", "back"})
    BY <1>6 DEF IrcSend, SendingOK, HistoryOK
  <2>. HIDE DEF d
  <2>2. CASE kind = "say"
    BY <2>1, <2>2 DEF AwayKnown
  <2>3. CASE kind \in {"away", "back"}
    BY <2>1, <2>3 DEF AwayKnown
  <2>. QED  BY <2>2, <2>3 DEF Kinds
<1>. QED  BY <1>3, <1>4, <1>5, <1>6

\* What is flushed is written behind all that was written, in the order it
\* waited in.
LEMMA FlushOrder ==
    ASSUME NEW q \in Seq(Cmd), NEW w \in Seq(Cmd), NEW s, HistoryOK(s), NEW t, t.queued = s.queued,
           NEW n \in 0 .. Len(q),
           InOrder([outq |-> q, wire |-> w, seen |-> s])
    PROVE  InOrder([outq |-> Flushed(q, n), wire |-> w \o SubSeq(q, 1, n), seen |-> t])
<1> DEFINE done == s.queued - Len(q)
           p == SubSeq(q, n + 1, Len(q))
           f == SubSeq(q, 1, n)
           v == w \o f
           Waited(x) == {k \in DOMAIN x : x[k].n # 0}
<1>1. /\ Len(q) \in Nat /\ Len(w) \in Nat /\ s.queued \in Nat /\ n \in Nat /\ n <= Len(q)
      /\ \A k \in 1 .. Len(w) : w[k] \in Cmd /\ w[k].n \in Nat
  <2>1. \A k \in 1 .. Len(w) : w[k] \in Cmd
    BY ElementOfSeq
  <2>2. \A x \in Cmd : x.n \in Nat
    BY DEF Cmd
  <2>3. Len(q) \in Nat /\ Len(w) \in Nat /\ s.queued \in Nat /\ n \in Nat /\ n <= Len(q)
    BY DEF HistoryOK
  <2>. QED  BY <2>1, <2>2, <2>3
<1>2. /\ DOMAIN w = 1 .. Len(w) /\ DOMAIN q = 1 .. Len(q)
      /\ done >= 0 /\ {w[k].n : k \in Waited(w)} = 1 .. done
      /\ \A j, k \in Waited(w) : j < k => w[j].n < w[k].n
      /\ \A k \in 1 .. Len(q) : q[k].n = done + k
  BY DEF InOrder
<1>3. /\ f \in Seq(Cmd) /\ Len(f) = n /\ DOMAIN f = 1 .. n
      /\ \A k \in 1 .. n : f[k] = q[k]
  BY SplitSeq
<1>4. /\ p \in Seq(Cmd) /\ Len(p) = Len(q) - n /\ DOMAIN p = 1 .. Len(q) - n
      /\ \A k \in 1 .. Len(q) - n : p[k] = q[n + k]
  BY SplitSeq
<1>. HIDE DEF f, p
<1>5. /\ v \in Seq(Cmd) /\ DOMAIN v = 1 .. Len(w) + n
      /\ \A k \in 1 .. Len(w) : v[k] = w[k]
      /\ \A k \in Len(w) + 1 .. Len(w) + n : v[k] = f[k - Len(w)]
  <2>1. /\ v \in Seq(Cmd) /\ Len(v) = Len(w) + Len(f)
        /\ \A k \in 1 .. Len(w) + Len(f) : v[k] = IF k <= Len(w) THEN w[k] ELSE f[k - Len(w)]
    BY <1>3, ConcatProperties
  <2>. QED  BY <2>1, <1>1, <1>3
<1>. HIDE DEF v
<1>6. done \in Nat
  BY <1>1, <1>2
<1>. HIDE DEF done
<1>7. \A k \in Len(w) + 1 .. Len(w) + n : v[k].n = done + (k - Len(w))
  <2>1. ASSUME NEW k \in Len(w) + 1 .. Len(w) + n PROVE v[k].n = done + (k - Len(w))
    <3>1. k - Len(w) \in 1 .. n /\ k - Len(w) \in 1 .. Len(q)
      BY <1>1
    <3>2. v[k] = q[k - Len(w)]
      BY <3>1, <1>3, <1>5
    <3>. QED  BY <3>1, <3>2, <1>2
  <2>. QED  BY <2>1
<1>8. \A k \in DOMAIN v : k \in Waited(v) <=> k \in Waited(w) \/ k \in Len(w) + 1 .. Len(w) + n
  BY <1>1, <1>2, <1>5, <1>6, <1>7
<1>9. {v[k].n : k \in Waited(v)} = 1 .. done + n
  <2>1. ASSUME NEW k \in Waited(v) PROVE v[k].n \in 1 .. done + n
    <3>1. CASE k \in Waited(w)
      <4>1. w[k].n \in 1 .. done /\ v[k] = w[k]
        BY <3>1, <1>2, <1>5
      <4>. QED  BY <4>1, <1>1, <1>6
    <3>2. CASE k \in Len(w) + 1 .. Len(w) + n
      BY <3>2, <1>1, <1>6, <1>7
    <3>. QED  BY <3>1, <3>2, <1>8
  <2>2. ASSUME NEW m \in 1 .. done + n PROVE \E k \in Waited(v) : v[k].n = m
    <3>1. CASE m <= done
      <4>1. m \in 1 .. done
        BY <3>1, <1>6
      <4>2. PICK k \in Waited(w) : w[k].n = m
        BY <4>1, <1>2
      <4>3. k \in Waited(v) /\ v[k].n = m
        BY <4>2, <1>1, <1>2, <1>5, <1>8
      <4>. QED  BY <4>3
    <3>2. CASE m > done
      <4>1. Len(w) + (m - done) \in Len(w) + 1 .. Len(w) + n
        BY <3>2, <1>1, <1>6
      <4>2. v[Len(w) + (m - done)].n = m /\ Len(w) + (m - done) \in DOMAIN v
        BY SMTT(30), <4>1, <1>1, <1>5, <1>6, <1>7
      <4>. QED  BY <4>1, <4>2, <1>8
    <3>. QED  BY <3>1, <3>2, <1>6
  <2>. QED  BY <2>1, <2>2
<1>10. ASSUME NEW j \in Waited(v), NEW k \in Waited(v), j < k PROVE v[j].n < v[k].n
  <2>1. CASE k \in Waited(w)
    <3>1. j \in Waited(w) /\ v[j] = w[j] /\ v[k] = w[k]
      BY <2>1, <1>1, <1>2, <1>5, <1>8, <1>10
    <3>. QED  BY <2>1, <3>1, <1>2, <1>10
  <2>2. CASE k \in Len(w) + 1 .. Len(w) + n /\ j \in Waited(w)
    <3>1. w[j].n \in 1 .. done /\ v[j] = w[j]
      BY <2>2, <1>2, <1>5
    <3>. QED  BY <2>2, <3>1, <1>1, <1>6, <1>7
  <2>3. CASE k \in Len(w) + 1 .. Len(w) + n /\ j \in Len(w) + 1 .. Len(w) + n
    BY <2>3, <1>1, <1>6, <1>7, <1>10
  <2>. QED  BY <2>1, <2>2, <2>3, <1>8
<1>11. \A k \in DOMAIN p : p[k].n = done + n + k
  <2>1. ASSUME NEW k \in 1 .. Len(q) - n PROVE p[k].n = done + n + k
    <3>1. n + k \in 1 .. Len(q)
      BY <1>1
    <3>2. q[n + k].n = done + (n + k)
      BY <3>1, <1>2
    <3>. QED  BY <3>2, <1>1, <1>4, <1>6
  <2>. QED  BY <2>1, <1>4
<1>12. t.queued - Len(p) = done + n
  BY <1>1, <1>4 DEF done
<1> DEFINE d == [outq |-> p, wire |-> v, seen |-> t]
<1>13. d.outq = p /\ d.wire = v /\ d.seen = t
  OBVIOUS
<1>. HIDE DEF d
<1>14. InOrder(d)
  <2>1. done + n >= 0
    BY <1>1, <1>6
  <2>. QED  BY <2>1, <1>9, <1>10, <1>11, <1>12, <1>13 DEF InOrder
<1>. QED  BY <1>14 DEF d, p, v, f, Flushed

\* Written and waiting commands together are the same before and after.
LEMMA FlushKeeps ==
    ASSUME NEW q \in Seq(Cmd), NEW w \in Seq(Cmd), NEW n \in 0 .. Len(q)
    PROVE  /\ Flushed(q, n) \in Seq(Cmd) /\ w \o SubSeq(q, 1, n) \in Seq(Cmd)
           /\ n = Len(q) => Flushed(q, n) = <<>>
           /\ (w \o SubSeq(q, 1, n)) \o Flushed(q, n) = w \o q
<1>1. /\ SubSeq(q, 1, n) \in Seq(Cmd)
      /\ SubSeq(q, n + 1, Len(q)) \in Seq(Cmd)
      /\ Len(SubSeq(q, n + 1, Len(q))) = Len(q) - n
  BY SplitSeq
<1>2. (w \o SubSeq(q, 1, n)) \o SubSeq(q, n + 1, Len(q)) = w \o q
  BY SplitConcat
<1>3. n = Len(q) => SubSeq(q, n + 1, Len(q)) = <<>>
  BY <1>1
<1>4. w \o SubSeq(q, 1, n) \in Seq(Cmd)
  BY <1>1
<1>. QED  BY <1>1, <1>2, <1>3, <1>4 DEF Flushed
-----------------------------------------------------------------------------
(***************************************************************************)
(* The commands                                                            *)
(***************************************************************************)

\* What the record c stands for.
LEMMA NowInv ==
    /\ Now.outq = outq /\ Now.wire = wire /\ Now.seen = seen
    /\ SendInv(Now, away) <=> SendingOK(Now) /\ QueuedOnceInOrder /\ ServerKnowsAway
  BY DEF Now, SendInv, InOrder, AwayKnown, QueuedOnceInOrder, ServerKnowsAway

\* irc_send keeps both.
LEMMA IrcSendInv ==
    ASSUME NEW c, SendingOK(c), InOrder(c), NEW kind \in Kinds, NEW res,
           NEW a \in BOOLEAN, NEW b \in BOOLEAN,
           kind = "say" => AwayKnown(c, a) /\ b = a,
           kind = "away" => b = TRUE,
           kind = "back" => b = FALSE
    PROVE  SendInv(IrcSend(c, kind, res), b)
  BY IrcSendType, IrcSendOrder, IrcSendAway DEF SendInv

\* A change of the rest of the history is of no matter to the order.
LEMMA HistoryChange ==
    ASSUME NEW c, SendingOK(c), InOrder(c), NEW t, HistoryOK(t), t.queued = c.seen.queued
    PROVE  /\ SendingOK([c EXCEPT !.seen = t]) /\ InOrder([c EXCEPT !.seen = t])
           /\ [c EXCEPT !.seen = t].seen = t /\ [c EXCEPT !.seen = t].outq = c.outq
<1> DEFINE d == [c EXCEPT !.seen = t]
<1>1. d = [outq |-> c.outq, wire |-> c.wire, seen |-> t]
  BY DEF SendingOK
<1>2. d.outq = c.outq /\ d.wire = c.wire /\ d.seen = t
  BY <1>1
<1>. HIDE DEF d
<1>3. SendingOK(d)
  BY <1>1, <1>2 DEF SendingOK
<1>4. InOrder(d)
  BY <1>2 DEF InOrder
<1>. QED  BY <1>2, <1>3, <1>4 DEF d

\* The server was not told.
LEMMA UntoldHistory ==
    ASSUME NEW s, HistoryOK(s), NEW b \in BOOLEAN
    PROVE  LET t == [s EXCEPT !.untold = b]
           IN  /\ HistoryOK(t) /\ t.queued = s.queued /\ t.backs = s.backs
               /\ t.overtook = s.overtook /\ t.untold = b
<1> DEFINE t == [s EXCEPT !.untold = b]
<1>1. t = [sent |-> s.sent, shown |-> s.shown, cut |-> s.cut, queued |-> s.queued,
           overtook |-> s.overtook, untold |-> b, backs |-> s.backs, commands |-> s.commands]
  BY DEF HistoryOK
<1>. HIDE DEF t
<1>2. /\ HistoryOK(t) /\ t.queued = s.queued /\ t.backs = s.backs
      /\ t.overtook = s.overtook /\ t.untold = b
  BY <1>1 DEF HistoryOK
<1>. QED  BY <1>2 DEF t

\* The end of a command.
LEMMA CommandedInv ==
    ASSUME NEW c, NEW a, SendInv(c, a), Commanded(c), away' = a
    PROVE  /\ SendingOK(Now)' /\ QueuedOnceInOrder' /\ ServerKnowsAway'
           /\ outq' = c.outq
           /\ seen'.backs = c.seen.backs /\ seen'.overtook = c.seen.overtook
<1> DEFINE s == c.seen
<1>1. /\ outq' = c.outq /\ wire' = c.wire
      /\ seen' = [s EXCEPT !.commands = @ + 1]
      /\ HistoryOK(s) /\ c.outq \in Seq(Cmd) /\ c.wire \in Seq(Cmd)
  BY DEF Commanded, SendInv, SendingOK
<1>2. /\ HistoryOK(seen') /\ seen'.queued = s.queued /\ seen'.backs = s.backs
      /\ seen'.overtook = s.overtook /\ seen'.untold = s.untold
  <2>1. seen' = [sent |-> s.sent, shown |-> s.shown, cut |-> s.cut, queued |-> s.queued,
                 overtook |-> s.overtook, untold |-> s.untold, backs |-> s.backs,
                 commands |-> s.commands + 1]
    BY <1>1 DEF HistoryOK
  <2>. HIDE DEF s
  <2>2. s.commands + 1 \in Nat
    BY <1>1 DEF HistoryOK
  <2>. QED  BY <1>1, <2>1, <2>2 DEF HistoryOK
<1>3. SendingOK(Now)'
  BY <1>1, <1>2 DEF SendingOK, Now
<1>4. QueuedOnceInOrder'
  BY <1>1, <1>2 DEF SendInv, InOrder, QueuedOnceInOrder
<1>5. ServerKnowsAway'
  BY <1>1, <1>2 DEF SendInv, AwayKnown, ServerKnowsAway
<1>. QED  BY <1>1, <1>2, <1>3, <1>4, <1>5

\* Who has a socket queues nothing.
LEMMA ResultsWhenLive ==
    ASSUME LoginInv, live, NEW res \in SendResults
    PROVE  res # "queued"
  BY DEF LoginInv, SendResults

\* What each of them has to show: that it leaves a record d that is right, that
\* a connected session queues nothing, and that the tables are right.
LEMMA CommandInv ==
    ASSUME IInv, Running, NEW d, NEW a \in BOOLEAN,
           SendInv(d, a), Commanded(d), away' = a, UNCHANGED <<link, sock, live, state>>,
           live => d.outq = outq,
           live => d.seen.overtook = seen.overtook,
           tables' \in Nat, tables' = d.seen.backs + (IF a THEN 1 ELSE 0)
    PROVE  IInv' /\ (seen'.overtook # seen.overtook => ~live)
<1>1. /\ SendingOK(Now)' /\ QueuedOnceInOrder' /\ ServerKnowsAway'
      /\ outq' = d.outq /\ seen'.backs = d.seen.backs /\ seen'.overtook = d.seen.overtook
  BY CommandedInv
<1>2. TypeOK' /\ TablesAccounted'
  BY <1>1 DEF IInv, TypeOK, TablesAccounted
<1>3. live => outq = <<>> /\ outq' = <<>>
  BY <1>1 DEF IInv, LoginInv
<1>4. LoginInv'
  BY <1>3 DEF IInv, LoginInv, Running
<1>. QED  BY <1>1, <1>2, <1>3, <1>4 DEF IInv

\* The commands that only send: /ctcp, /send, /me and the others, and the
\* update.
LEMMA SaidInv ==
    ASSUME IInv, Running, Said
    PROVE  IInv' /\ (seen'.overtook # seen.overtook => ~live)
<1>1. PICK res \in SendResults : Commanded(IrcSend(Now, "say", res))
  BY DEF Said
<1>2. UNCHANGED <<link, sock, live, net, left, away, tables, state>>
  BY DEF Said
<1>3. SendInv(Now, away) /\ SendingOK(Now) /\ away \in BOOLEAN /\ "say" \in Kinds
  BY NowInv DEF IInv, TypeOK, Kinds
<1> DEFINE d == IrcSend(Now, "say", res)
<1>4. SendInv(d, away)
  BY <1>3, IrcSendInv DEF SendInv
<1>5. /\ d.seen.backs = seen.backs
      /\ res # "queued" => d.outq = outq
      /\ outq = <<>> => d.seen.overtook = seen.overtook
  BY <1>3, IrcSendType, NowInv
<1>. HIDE DEF d
<1>6. live => d.outq = outq /\ d.seen.overtook = seen.overtook
  BY <1>5, ResultsWhenLive DEF IInv, LoginInv
<1>7. tables' \in Nat /\ tables' = d.seen.backs + (IF away THEN 1 ELSE 0)
  BY <1>2, <1>5 DEF IInv, TypeOK, TablesAccounted
<1>. QED  BY <1>1, <1>2, <1>3, <1>4, <1>5, <1>6, <1>7, CommandInv DEF d

\* /away with a message, whether the line fits or not.
LEMMA CmdAwayInv ==
    ASSUME IInv, CmdAway
    PROVE  IInv' /\ (seen'.overtook # seen.overtook => ~live)
<1>1. /\ Running /\ away' = TRUE /\ tables' = TablesWhenAway
      /\ UNCHANGED <<link, sock, live, net, left, state>>
  BY DEF CmdAway, MayCommand
<1>2. /\ SendingOK(Now) /\ InOrder(Now) /\ "away" \in Kinds
      /\ Now.outq = outq /\ Now.seen = seen /\ HistoryOK(seen)
  BY NowInv DEF IInv, Kinds, SendInv, SendingOK
<1>3. tables' \in Nat /\ tables' = seen.backs + 1
  <2>1. seen.backs \in Nat
    BY <1>2 DEF HistoryOK
  <2>. QED  BY <1>1, <2>1 DEF IInv, TypeOK, TablesAccounted, TablesWhenAway
<1>4. ASSUME NEW res \in SendResults, Commanded(IrcSend(Now, "away", res))
      PROVE  IInv' /\ (seen'.overtook # seen.overtook => ~live)
  <2> DEFINE d == IrcSend(Now, "away", res)
  <2>1. SendInv(d, TRUE)
    BY <1>2, IrcSendInv
  <2>2. /\ d.seen.backs = seen.backs
        /\ res # "queued" => d.outq = outq
        /\ outq = <<>> => d.seen.overtook = seen.overtook
    BY <1>2, IrcSendType
  <2>. HIDE DEF d
  <2>3. live => d.outq = outq /\ d.seen.overtook = seen.overtook
    BY <1>1, <2>2, ResultsWhenLive DEF IInv, LoginInv
  <2>. QED  BY <1>1, <1>3, <1>4, <2>1, <2>2, <2>3, CommandInv DEF d
<1>5. ASSUME Commanded([Now EXCEPT !.seen.untold = TRUE])
      PROVE  IInv' /\ (seen'.overtook # seen.overtook => ~live)
  <2> DEFINE t == [seen EXCEPT !.untold = TRUE]
             d == [Now EXCEPT !.seen = t]
  <2>1. d = [Now EXCEPT !.seen.untold = TRUE]
    BY DEF Now
  <2>2. /\ HistoryOK(t) /\ t.queued = seen.queued /\ t.backs = seen.backs
        /\ t.overtook = seen.overtook /\ t.untold = TRUE
    BY <1>2, UntoldHistory
  <2>. HIDE DEF t
  <2>3. SendingOK(d) /\ InOrder(d) /\ d.seen = t /\ d.outq = outq
    BY <1>2, <2>2, HistoryChange
  <2>. HIDE DEF d
  <2>4. SendInv(d, TRUE)
    BY <2>2, <2>3 DEF SendInv, AwayKnown
  <2>. QED  BY <1>1, <1>3, <1>5, <2>1, <2>2, <2>3, <2>4, CommandInv
<1>. QED  BY <1>4, <1>5 DEF CmdAway

\* pork_set_back at the end of a command that has left the record c.
LEMMA BackInv ==
    ASSUME IInv, Running, away, NEW res \in SendResults, NEW c, SendingOK(c), InOrder(c),
           c.seen.backs = seen.backs,
           live => c.outq = outq,
           live => c.seen.overtook = seen.overtook,
           Back(c, res), UNCHANGED <<link, sock, live, state>>
    PROVE  IInv' /\ (seen'.overtook # seen.overtook => ~live)
<1> DEFINE t == [c.seen EXCEPT !.backs = IF res = "failed" THEN @ + 1 ELSE @]
           e == [c EXCEPT !.seen = t]
           d == IrcSend(e, "back", res)
<1>1. e = [c EXCEPT !.seen.backs = IF res = "failed" THEN @ + 1 ELSE @]
  OBVIOUS
<1>2. /\ HistoryOK(t) /\ t.queued = c.seen.queued /\ t.overtook = c.seen.overtook
      /\ t.backs = IF res = "failed" THEN seen.backs + 1 ELSE seen.backs
  <2> DEFINE s == c.seen
             b == IF res = "failed" THEN s.backs + 1 ELSE s.backs
  <2>1. HistoryOK(s) /\ s.backs = seen.backs
    BY DEF SendingOK
  <2>. HIDE DEF s
  <2>2. b \in Nat
    BY <2>1 DEF HistoryOK
  <2>3. t = [sent |-> s.sent, shown |-> s.shown, cut |-> s.cut, queued |-> s.queued,
             overtook |-> s.overtook, untold |-> s.untold, backs |-> b,
             commands |-> s.commands]
    BY <2>1 DEF HistoryOK, s
  <2>. HIDE DEF t
  <2>4. HistoryOK(t)
    <3>. HIDE DEF b
    <3>. QED  BY <2>1, <2>2, <2>3 DEF HistoryOK
  <2>. QED  BY <2>1, <2>3, <2>4 DEF s
<1>. HIDE DEF t
<1>3. SendingOK(e) /\ InOrder(e) /\ e.seen = t /\ e.outq = c.outq
  BY <1>2, HistoryChange
<1>4. away' = FALSE /\ tables' = TablesWhenBack(res) /\ Commanded(d)
  BY <1>1 DEF Back
<1>. HIDE DEF e
<1>5. SendInv(d, FALSE)
  BY <1>3, IrcSendInv DEF Kinds
<1>6. /\ d.seen.backs = t.backs
      /\ res # "queued" => d.outq = c.outq
      /\ c.outq = <<>> => d.seen.overtook = c.seen.overtook
  BY <1>2, <1>3, IrcSendType DEF Kinds
<1>. HIDE DEF d
<1>7. tables' \in Nat /\ tables' = d.seen.backs
  <2>1. seen.backs \in Nat /\ tables = seen.backs + 1
    BY DEF IInv, SendingOK, HistoryOK, Now, TablesAccounted
  <2>. QED  BY <1>2, <1>4, <1>6, <2>1 DEF TablesWhenBack
<1>8. res # "queued" \/ ~live
  BY ResultsWhenLive DEF IInv
<1>9. (live => d.outq = outq) /\ (live => d.seen.overtook = seen.overtook)
  BY <1>6, <1>8 DEF IInv, LoginInv
<1>10. tables' = d.seen.backs + (IF FALSE THEN 1 ELSE 0) /\ FALSE \in BOOLEAN
  BY <1>7
<1>. QED  BY <1>4, <1>5, <1>7, <1>9, <1>10, CommandInv

\* /away without a message.
LEMMA CmdBackInv ==
    ASSUME IInv, CmdBack
    PROVE  IInv' /\ (seen'.overtook # seen.overtook => ~live)
<1>1. PICK res \in SendResults : Back(Now, res)
  BY DEF CmdBack
<1>2. Running /\ away /\ UNCHANGED <<link, sock, live, net, left, state>>
  BY DEF CmdBack, MayCommand
<1>3. SendingOK(Now) /\ InOrder(Now) /\ Now.outq = outq /\ Now.seen = seen
  BY NowInv DEF IInv, SendInv
<1>. QED  BY <1>1, <1>2, <1>3, BackInv

\* /msg: what it sends, and what it sends to come back.
LEMMA CmdMsgInv ==
    ASSUME IInv, CmdMsg
    PROVE  IInv' /\ (seen'.overtook # seen.overtook => ~live)
<1>1. PICK res \in SendResults, res2 \in SendResults :
         IF res # "failed" /\ away /\ RemovesAway
         THEN Back(IrcSend(Now, "say", res), res2)
         ELSE Commanded(IrcSend(Now, "say", res)) /\ UNCHANGED <<away, tables>>
  BY DEF CmdMsg
<1>2. Running /\ live /\ UNCHANGED <<link, sock, live, net, left, state>>
  BY DEF CmdMsg, MayCommand
<1>3. /\ SendInv(Now, away) /\ SendingOK(Now) /\ InOrder(Now) /\ away \in BOOLEAN
      /\ Now.outq = outq /\ Now.seen = seen
  BY NowInv DEF IInv, TypeOK, SendInv
<1> DEFINE d == IrcSend(Now, "say", res)
<1>4. SendInv(d, away)
  BY <1>3, IrcSendInv DEF Kinds, SendInv
<1>5. /\ d.seen.backs = seen.backs
      /\ res # "queued" => d.outq = outq
      /\ outq = <<>> => d.seen.overtook = seen.overtook
  BY <1>3, IrcSendType DEF Kinds
<1>6. d.outq = outq /\ d.seen.overtook = seen.overtook
  BY <1>2, <1>5, ResultsWhenLive DEF IInv, LoginInv
<1>7. CASE Back(d, res2) /\ away
  <2>1. SendingOK(d) /\ InOrder(d)
    BY <1>4 DEF SendInv
  <2>. HIDE DEF d
  <2>. QED  BY <1>2, <1>5, <1>6, <1>7, <2>1, BackInv
<1>8. CASE Commanded(d) /\ UNCHANGED <<away, tables>>
  <2>1. tables' \in Nat /\ tables' = d.seen.backs + (IF away THEN 1 ELSE 0)
    BY <1>5, <1>8 DEF IInv, TypeOK, TablesAccounted
  <2>. HIDE DEF d
  <2>. QED  BY <1>2, <1>3, <1>4, <1>6, <1>8, <2>1, CommandInv
<1>. QED  BY <1>1, <1>7, <1>8

-----------------------------------------------------------------------------
(***************************************************************************)
(* The connection                                                          *)
(***************************************************************************)

\* What leaves the queue, the wire and their history alone keeps all about
\* them.
LEMMA HistoryInv ==
    ASSUME IInv, UNCHANGED <<outq, wire, away, tables>>,
           HistoryOK(seen'), seen'.queued = seen.queued, seen'.overtook = seen.overtook,
           seen'.untold = seen.untold, seen'.backs = seen.backs
    PROVE  /\ SendingOK(Now)' /\ QueuedOnceInOrder' /\ ServerKnowsAway' /\ TablesAccounted'
<1>1. SendingOK(Now)'
  BY DEF IInv, SendingOK, Now
<1>2. QueuedOnceInOrder'
  BY DEF IInv, QueuedOnceInOrder
<1>3. ServerKnowsAway'
  BY DEF IInv, ServerKnowsAway
<1>4. TablesAccounted'
  BY DEF IInv, TablesAccounted
<1>. QED  BY <1>1, <1>2, <1>3, <1>4

\* /disconnect: the account goes, and a ".q" with it.
LEMMA CmdDisconnectInv ==
    ASSUME IInv, CmdDisconnect
    PROVE  IInv' /\ (seen'.overtook # seen.overtook => ~live)
<1>1. /\ Running /\ state' = "ended" /\ link' = "down" /\ live' = FALSE
      /\ UNCHANGED <<sock, net, left, away, tables>>
  BY DEF CmdDisconnect, MayCommand
<1>2. PICK res \in SendResults : Commanded(IF live THEN IrcSend(Now, "say", res) ELSE Now)
  BY DEF CmdDisconnect
<1>3. /\ SendInv(Now, away) /\ SendingOK(Now) /\ InOrder(Now) /\ away \in BOOLEAN
      /\ Now.outq = outq /\ Now.seen = seen
  BY NowInv DEF IInv, TypeOK, SendInv
<1> DEFINE d == IF live THEN IrcSend(Now, "say", res) ELSE Now
<1>4. SendInv(d, away) /\ d.seen.backs = seen.backs
  BY <1>3, IrcSendInv, IrcSendType DEF Kinds, SendInv
<1>5. live => d.seen.overtook = seen.overtook
  BY <1>1, <1>3, IrcSendType DEF Kinds, IInv, LoginInv
<1>. HIDE DEF d
<1>6. /\ SendingOK(Now)' /\ QueuedOnceInOrder' /\ ServerKnowsAway'
      /\ seen'.backs = seen.backs /\ seen'.overtook = d.seen.overtook
  BY <1>1, <1>2, <1>4, CommandedInv DEF d
<1>7. TypeOK' /\ LoginInv' /\ TablesAccounted'
  BY <1>1, <1>6 DEF IInv, TypeOK, LoginInv, TablesAccounted, Running
<1>. QED  BY <1>5, <1>6, <1>7 DEF IInv


\* irc_event: whatever it reads, and however much it flushes.
LEMMA EventInv ==
    ASSUME IInv, Event
    PROVE  IInv' /\ seen'.overtook = seen.overtook
<1>1. PICK k \in 1 .. Len(net), n \in 0 .. Len(outq) :
         LET chunk == SubSeq(net, 1, k)
             a     == Scanned(chunk)
             bad   == Overruns(a) \/ \E i \in 1 .. Len(a.done) : Torn(a.done[i])
         IN  /\ Running /\ link # "down"
             /\ live' = (live \/ \E i \in 1 .. Len(a.done) : Opens(a.done[i]))
             /\ seen' = [seen EXCEPT !.shown = @ \o a.done, !.cut = @ \/ chunk[k] # "\n"]
             /\ IF bad THEN /\ n = 0 /\ state' = "crashed" /\ UNCHANGED <<link, outq, wire>>
                ELSE /\ wire' = wire \o SubSeq(outq, 1, n)
                     /\ outq' = Flushed(outq, n)
                     /\ state' = IF n = Len(outq) THEN "running" ELSE "stuck"
                     /\ link' = IF n = Len(outq) THEN link ELSE "broken"
             /\ UNCHANGED <<sock, away, tables>>
  BY Zenon DEF Event
<1>2. /\ Running /\ link # "down" /\ UNCHANGED <<sock, away, tables>>
      /\ \/ /\ state' = "crashed" /\ UNCHANGED <<link, outq, wire>>
         \/ /\ wire' = wire \o SubSeq(outq, 1, n)
            /\ outq' = Flushed(outq, n)
            /\ state' = IF n = Len(outq) THEN "running" ELSE "stuck"
            /\ link' = IF n = Len(outq) THEN link ELSE "broken"
  BY <1>1
<1>3. live' \in BOOLEAN
  BY <1>1
<1>4. /\ HistoryOK(seen') /\ seen'.queued = seen.queued /\ seen'.overtook = seen.overtook
      /\ seen'.untold = seen.untold /\ seen'.backs = seen.backs
  <2>1. PICK shown, cut : seen' = [seen EXCEPT !.shown = shown, !.cut = cut]
    BY <1>1
  <2>2. HistoryOK(seen)
    BY DEF IInv, SendingOK, Now
  <2> DEFINE r == [seen EXCEPT !.shown = shown]
  <2>3. r = [sent |-> seen.sent, shown |-> shown, cut |-> seen.cut, queued |-> seen.queued,
             overtook |-> seen.overtook, untold |-> seen.untold, backs |-> seen.backs,
             commands |-> seen.commands]
    BY <2>2 DEF HistoryOK
  <2>4. seen' = [r EXCEPT !.cut = cut]
    BY <2>1
  <2>. HIDE DEF r
  <2>5. seen' = [sent |-> seen.sent, shown |-> shown, cut |-> cut, queued |-> seen.queued,
                 overtook |-> seen.overtook, untold |-> seen.untold, backs |-> seen.backs,
                 commands |-> seen.commands]
    BY <2>3, <2>4
  <2>. QED  BY <2>2, <2>5 DEF HistoryOK
<1>5. outq \in Seq(Cmd) /\ wire \in Seq(Cmd) /\ HistoryOK(seen) /\ InOrder(Now)
  BY NowInv DEF IInv, SendInv, SendingOK
<1>6. CASE state' = "crashed" /\ UNCHANGED <<link, outq, wire>>
  <2>1. SendingOK(Now)' /\ QueuedOnceInOrder' /\ ServerKnowsAway' /\ TablesAccounted'
    BY <1>2, <1>4, <1>6, HistoryInv
  <2>2. TypeOK' /\ LoginInv'
    BY <1>2, <1>3, <1>6 DEF IInv, TypeOK, LoginInv, Running
  <2>. QED  BY <1>4, <2>1, <2>2 DEF IInv
<1>7. CASE /\ wire' = wire \o SubSeq(outq, 1, n)
           /\ outq' = Flushed(outq, n)
           /\ state' = IF n = Len(outq) THEN "running" ELSE "stuck"
           /\ link' = IF n = Len(outq) THEN link ELSE "broken"
  <2>1. /\ outq' \in Seq(Cmd) /\ wire' \in Seq(Cmd)
        /\ n = Len(outq) => outq' = <<>>
        /\ wire' \o outq' = wire \o outq
    BY <1>5, <1>7, FlushKeeps
  <2>2. SendingOK(Now)'
    BY <1>4, <2>1 DEF SendingOK, Now
  <2>3. QueuedOnceInOrder'
    <3>1. InOrder([outq |-> outq, wire |-> wire, seen |-> seen])
      BY <1>5 DEF Now
    <3>2. InOrder([outq |-> Flushed(outq, n), wire |-> wire \o SubSeq(outq, 1, n), seen |-> seen'])
      BY <1>4, <1>5, <3>1, FlushOrder
    <3>3. InOrder([outq |-> outq', wire |-> wire', seen |-> seen'])
      BY <1>7, <3>2
    <3>. QED  BY <3>3 DEF InOrder, QueuedOnceInOrder
  <2>4. ServerKnowsAway'
    BY <1>2, <1>4, <2>1 DEF IInv, ServerKnowsAway
  <2>5. TablesAccounted'
    BY <1>2, <1>4 DEF IInv, TablesAccounted
  <2>6. TypeOK' /\ LoginInv'
    BY <1>2, <1>3, <1>7, <2>1 DEF IInv, TypeOK, LoginInv, Running
  <2>. QED  BY <1>4, <2>2, <2>3, <2>4, <2>5, <2>6 DEF IInv
<1>. QED  BY <1>2, <1>6, <1>7

\* The steps of the connection alone.
LEMMA ConnectionInv ==
    ASSUME IInv, Connected \/ PeerBreaks \/ ReadFails \/ ServerSends
    PROVE  IInv' /\ seen'.overtook = seen.overtook
<1>1. UNCHANGED <<outq, wire, away, tables>> /\ Running
  BY DEF Connected, PeerBreaks, ReadFails, ServerSends
<1>2. /\ HistoryOK(seen') /\ seen'.queued = seen.queued /\ seen'.overtook = seen.overtook
      /\ seen'.untold = seen.untold /\ seen'.backs = seen.backs
  <2>1. HistoryOK(seen)
    BY DEF IInv, SendingOK, Now
  <2>2. CASE Connected \/ PeerBreaks
    BY <2>1, <2>2 DEF Connected, PeerBreaks
  <2>3. CASE ReadFails
    <3>1. PICK cut : seen' = [seen EXCEPT !.cut = cut]
      BY <2>3 DEF ReadFails
    <3>2. seen' = [sent |-> seen.sent, shown |-> seen.shown, cut |-> cut, queued |-> seen.queued,
                   overtook |-> seen.overtook, untold |-> seen.untold, backs |-> seen.backs,
                   commands |-> seen.commands]
      BY <2>1, <3>1 DEF HistoryOK
    <3>. QED  BY <2>1, <3>2 DEF HistoryOK
  <2>4. CASE ServerSends
    <3>1. PICK sent : seen' = [seen EXCEPT !.sent = sent]
      BY <2>4 DEF ServerSends
    <3>2. seen' = [sent |-> sent, shown |-> seen.shown, cut |-> seen.cut, queued |-> seen.queued,
                   overtook |-> seen.overtook, untold |-> seen.untold, backs |-> seen.backs,
                   commands |-> seen.commands]
      BY <2>1, <3>1 DEF HistoryOK
    <3>. QED  BY <2>1, <3>2 DEF HistoryOK
  <2>. QED  BY <2>2, <2>3, <2>4
<1>3. SendingOK(Now)' /\ QueuedOnceInOrder' /\ ServerKnowsAway' /\ TablesAccounted'
  BY <1>1, <1>2, HistoryInv
<1>4. TypeOK' /\ LoginInv'
  <2>1. CASE Connected
    BY <1>1, <2>1 DEF IInv, TypeOK, LoginInv, Running, Connected
  <2>2. CASE PeerBreaks
    BY <1>1, <2>2 DEF IInv, TypeOK, LoginInv, Running, PeerBreaks
  <2>3. CASE ReadFails
    BY <1>1, <2>3 DEF IInv, TypeOK, LoginInv, Running, ReadFails
  <2>4. CASE ServerSends
    BY <1>1, <2>4 DEF IInv, TypeOK, LoginInv, Running, ServerSends
  <2>. QED  BY <2>1, <2>2, <2>3, <2>4
<1>. QED  BY <1>2, <1>3, <1>4 DEF IInv

-----------------------------------------------------------------------------
(***************************************************************************)
(* Theorems                                                                *)
(***************************************************************************)

\* Nothing waits and nobody was told anything at the start.
LEMMA InitInv == Init => IInv
<1>. SUFFICES ASSUME Init PROVE IInv
  OBVIOUS
<1>1. SendingOK(Now)
  <2>1. HistoryOK(seen)
    BY DEF Init, NothingSeen, HistoryOK
  <2>2. outq \in Seq(Cmd) /\ wire \in Seq(Cmd)
    BY DEF Init
  <2>. QED  BY <2>1, <2>2 DEF Now, SendingOK
<1>2. TypeOK /\ LoginInv /\ TablesAccounted
  <2>1. TypeOK /\ LoginInv
    BY DEF Init, TypeOK, LoginInv
  <2>2. tables = 0 /\ seen.backs = 0 /\ away = FALSE
    BY DEF Init, NothingSeen
  <2>. QED  BY <2>1, <2>2 DEF TablesAccounted
<1>3. QueuedOnceInOrder /\ ServerKnowsAway
  <2>1. /\ seen.queued = 0 /\ outq = <<>> /\ wire = <<>> /\ Len(outq) = 0
        /\ DOMAIN wire = {} /\ DOMAIN outq = {} /\ wire \o outq = <<>> /\ away = FALSE
    BY DEF Init, NothingSeen
  <2>2. {k \in DOMAIN wire : wire[k].n # 0} = {} /\ 1 .. seen.queued - Len(outq) = {}
    BY <2>1
  <2>3. QueuedOnceInOrder
    BY <2>1, <2>2 DEF QueuedOnceInOrder
  <2>4. ~ToldAway(<<>>)
    BY DEF ToldAway
  <2>. QED  BY <2>1, <2>3, <2>4 DEF ServerKnowsAway
<1>. QED  BY <1>1, <1>2, <1>3 DEF IInv

\* No step takes any of it away, and none writes past what waits once the
\* session is connected.
LEMMA NextInv ==
    ASSUME IInv, [Next]_vars
    PROVE  IInv' /\ (seen'.overtook # seen.overtook => ~live)
<1>1. CASE CmdSay \/ CmdSend \/ IrcUpdate
  BY <1>1, SaidInv DEF CmdSay, CmdSend, IrcUpdate, MayCommand
<1>2. CASE CmdAway
  BY <1>2, CmdAwayInv
<1>3. CASE CmdBack
  BY <1>3, CmdBackInv
<1>4. CASE CmdMsg
  BY <1>4, CmdMsgInv
<1>5. CASE CmdDisconnect
  BY <1>5, CmdDisconnectInv
<1>6. CASE Event
  BY <1>6, EventInv
<1>7. CASE Connected \/ PeerBreaks \/ ReadFails \/ ServerSends
  BY <1>7, ConnectionInv
<1>8. CASE Stopped \/ UNCHANGED vars
  <2>1. UNCHANGED vars
    BY <1>8 DEF Stopped
  <2>2. HistoryOK(seen') /\ UNCHANGED <<outq, wire, seen, away, tables>>
    BY <2>1 DEF IInv, SendingOK, Now, vars
  <2>3. SendingOK(Now)' /\ QueuedOnceInOrder' /\ ServerKnowsAway' /\ TablesAccounted'
    BY <2>2, HistoryInv
  <2>. QED  BY <2>1, <2>3 DEF IInv, TypeOK, LoginInv, Running, vars
<1>. QED  BY <1>1, <1>2, <1>3, <1>4, <1>5, <1>6, <1>7, <1>8 DEF Next

\* The inductive invariant holds of every state.
THEOREM Invariance == Spec => []IInv
<1>1. IInv /\ [Next]_vars => IInv'
  BY NextInv
<1>. QED  BY <1>1, InitInv, PTL DEF Spec

\* The connection, the flags and the count of tables keep their types.
THEOREM TypeCorrect == Spec => []TypeOK
<1>1. IInv => TypeOK
  BY DEF IInv
<1>. QED  BY <1>1, Invariance, PTL

\* What waited in the queue is written once and in the order it was given, over
\* any number of connections.
THEOREM OnceInOrder == Spec => []QueuedOnceInOrder
<1>1. IInv => QueuedOnceInOrder
  BY DEF IInv
<1>. QED  BY <1>1, Invariance, PTL

\* The server knows who is away, unless it was not told or told out of order.
THEOREM AwayIsKnown == Spec => []ServerKnowsAway
<1>1. IInv => ServerKnowsAway
  BY DEF IInv
<1>. QED  BY <1>1, Invariance, PTL

\* No autoreply table is lost but by a failure to come back.
THEOREM TablesAreAccounted == Spec => []TablesAccounted
<1>1. IInv => TablesAccounted
  BY DEF IInv
<1>. QED  BY <1>1, Invariance, PTL

\* A command is written past others that wait only before the session's first
\* input.
THEOREM OvertakingEnds == Spec => OvertakesOnlyBeforeLogin
<1>1. IInv /\ [Next]_vars => [seen'.overtook # seen.overtook => ~live]_vars
  BY NextInv
<1>. QED  BY <1>1, Invariance, PTL DEF Spec, OvertakesOnlyBeforeLogin

-----------------------------------------------------------------------------
(***************************************************************************)
(* Reading                                                                 *)
(*                                                                         *)
(* The loop of naken_input_dispatch is followed byte by byte, twice: for   *)
(* whatever bytes, what it has of them stands in them in order; and for    *)
(* those of whole lines, it has the texts of the lines it went through.    *)
(***************************************************************************)

\* What the loop over a read has: the line it is in began at start, and what it
\* has of the text stands in the bytes it went through.
ScanState == [line : Seq(STRING), done : Seq(Seq(STRING)), start : Nat, at : Nat]

ScanFits(a, bytes, k) ==
    /\ a \in ScanState /\ a.at = k + 1 /\ a.start \in 1 .. k + 1
    /\ Len(a.line) <= k + 1 - a.start
    /\ Embeds(FlattenSeq(a.done), SubSeq(bytes, 1, a.start - 1))
    /\ Embeds(a.line, SubSeq(bytes, a.start, k))

\* The loop is one: after the k-th byte it has what Scan makes of that byte.
LEMMA ScanType ==
    ASSUME NEW a \in ScanState, NEW c \in STRING
    PROVE  Scan(a, c) \in ScanState
<1>1. /\ a.line \in Seq(STRING) /\ a.done \in Seq(Seq(STRING)) /\ a.start \in Nat /\ a.at \in Nat
      /\ a = [line |-> a.line, done |-> a.done, start |-> a.start, at |-> a.at]
  BY DEF ScanState
<1>2. Append(a.done, a.line) \in Seq(Seq(STRING)) /\ Append(a.line, c) \in Seq(STRING)
      /\ <<>> \in Seq(STRING)
  BY <1>1, AppendProperties
<1>3. CASE c = "\n"
  BY <1>1, <1>2, <1>3 DEF Scan, ScanState
<1>4. CASE c # "\n" /\ c = "\r"
  <2>1. Scan(a, c) = [line |-> a.line, done |-> a.done, start |-> a.start, at |-> a.at + 1]
    BY <1>1, <1>4 DEF Scan
  <2>. QED  BY <1>1, <2>1 DEF ScanState
<1>5. CASE c # "\n" /\ c # "\r"
  <2>1. Scan(a, c) = [line |-> Append(a.line, c), done |-> a.done, start |-> a.start, at |-> a.at + 1]
    BY <1>1, <1>5 DEF Scan
  <2>. QED  BY <1>1, <1>2, <2>1 DEF ScanState
<1>. QED  BY <1>3, <1>4, <1>5

\* It begins with a line and goes on so.
LEMMA ScanTurns ==
    ASSUME NEW bytes \in Seq(STRING), NEW n \in 0 .. Len(bytes)
    PROVE  /\ ScanUpTo(bytes, n)[0] = LineStart
           /\ \A k \in 1 .. n : ScanUpTo(bytes, n)[k] = Scan(ScanUpTo(bytes, n)[k - 1], bytes[k])
           /\ \A k \in 0 .. n : ScanUpTo(bytes, n)[k] \in ScanState
<1> DEFINE Turns(f) == f = [k \in 0 .. n |-> IF k = 0 THEN LineStart ELSE Scan(f[k - 1], bytes[k])]
           g == [k \in 1 .. n |-> [x \in ScanState |-> Scan(x, bytes[k])]]
           h == ScanUpTo(bytes, n)
<1>1. n \in Nat /\ \A k \in 1 .. n : bytes[k] \in STRING
  BY ElementOfSeq
<1>2. h = CHOOSE f : Turns(f)
  BY DEF ScanUpTo
<1>. HIDE DEF h
<1>3. PICK s : s \in [0 .. n -> ScanState] /\ IsLoop(s, LineStart, g, n)
  <2>1. ASSUME NEW k \in 1 .. n, NEW x \in ScanState PROVE Scan(x, bytes[k]) \in ScanState
    BY <1>1, ScanType
  <2>2. TurnsIn(ScanState, g, n)
    BY <2>1 DEF TurnsIn
  <2>3. LineStart \in ScanState
    BY DEF LineStart, ScanState
  <2>. HIDE DEF g
  <2>. QED  BY <1>1, <2>2, <2>3, LoopExists
<1>4. s[0] = LineStart /\ \A k \in 1 .. n : s[k] = Scan(s[k - 1], bytes[k])
  <2>1. ASSUME NEW k \in 1 .. n PROVE s[k] = Scan(s[k - 1], bytes[k])
    <3>1. s[k] = g[k][s[k - 1]] /\ s[k - 1] \in ScanState
      <4>. HIDE DEF g
      <4>. QED  BY <1>1, <1>3 DEF IsLoop
    <3>. QED  BY <3>1
  <2>. QED  BY <1>3, <2>1 DEF IsLoop
<1>5. Turns(s)
  <2>1. s = [k \in 0 .. n |-> s[k]]
    BY <1>3
  <2>2. ASSUME NEW k \in 0 .. n
        PROVE  s[k] = IF k = 0 THEN LineStart ELSE Scan(s[k - 1], bytes[k])
    <3>1. CASE k = 0
      BY <3>1, <1>4
    <3>2. CASE k # 0
      <4>1. k \in 1 .. n
        BY <3>2
      <4>. QED  BY <3>2, <4>1, <1>4
    <3>. QED  BY <3>1, <3>2
  <2>. QED  BY <2>1, <2>2
<1>6. Turns(h)
  <2>. HIDE DEF Turns
  <2>. QED  BY <1>2, <1>5
<1>7. h[0] = LineStart /\ \A k \in 1 .. n : h[k] = Scan(h[k - 1], bytes[k])
  <2>1. \A k \in 0 .. n : h[k] = IF k = 0 THEN LineStart ELSE Scan(h[k - 1], bytes[k])
    BY <1>6
  <2>2. 0 \in 0 .. n /\ \A k \in 1 .. n : k \in 0 .. n /\ k # 0
    BY <1>1
  <2>. QED  BY <2>1, <2>2
<1>8. \A k \in 0 .. n : h[k] \in ScanState
  <2> DEFINE T == {k \in 0 .. n : h[k] \in ScanState}
  <2>1. 0 \in T
    <3>1. LineStart \in ScanState /\ 0 \in 0 .. n
      BY <1>1 DEF LineStart, ScanState
    <3>. QED  BY <3>1, <1>7
  <2>2. ASSUME NEW k \in 1 .. n, k - 1 \in T PROVE k \in T
    <3>1. h[k - 1] \in ScanState /\ h[k] = Scan(h[k - 1], bytes[k]) /\ bytes[k] \in STRING
      BY <1>1, <1>7, <2>2
    <3>2. Scan(h[k - 1], bytes[k]) \in ScanState
      BY <3>1, ScanType
    <3>. QED  BY <3>1, <3>2
  <2>3. \A k \in 1 .. n : k - 1 \in T => k \in T
    BY <2>2
  <2>4. \A k \in 0 .. n : k \in T
    <3>. HIDE DEF T
    <3>. QED  BY <1>1, <2>1, <2>3, UpToInduction
  <2>. QED  BY <2>4
<1>. QED  BY <1>7, <1>8 DEF h
\* A turn of it.
LEMMA ScanKeepsFit ==
    ASSUME NEW bytes \in Seq(STRING), NEW k \in 1 .. Len(bytes), NEW a, ScanFits(a, bytes, k - 1)
    PROVE  ScanFits(Scan(a, bytes[k]), bytes, k)
<1> DEFINE c == bytes[k]
           b == Scan(a, c)
<1>1. /\ a.line \in Seq(STRING) /\ a.done \in Seq(Seq(STRING)) /\ a.at = k
      /\ a.start \in 1 .. k /\ Len(a.line) <= k - a.start /\ k \in Nat
      /\ a = [line |-> a.line, done |-> a.done, start |-> a.start, at |-> a.at]
  BY DEF ScanFits, ScanState
<1>2. c \in STRING /\ Len(bytes) \in Nat
  BY ElementOfSeq
<1> DEFINE p == SubSeq(bytes, 1, a.start - 1)
           q == SubSeq(bytes, a.start, k - 1)
<1>3. Embeds(FlattenSeq(a.done), p) /\ Embeds(a.line, q)
  BY DEF ScanFits
<1>4. p \in Seq(STRING) /\ q \in Seq(STRING)
  <2>1. a.start \in 1 .. Len(bytes) + 1 /\ a.start - 1 \in 0 .. Len(bytes) /\ k - 1 \in 0 .. Len(bytes)
        /\ 1 \in 1 .. Len(bytes) + 1
    BY <1>1, <1>2
  <2>. HIDE DEF c, b
  <2>. QED  BY <2>1, SubSeqSeq
<1>5. FlattenSeq(a.done) \in Seq(STRING)
  BY <1>1, FlattenType
<1>6. b \in ScanState
  BY <1>2, ScanType DEF ScanFits
<1>7. SubSeq(bytes, a.start, k) = q \o <<c>> /\ SubSeq(bytes, 1, k) = SubSeq(bytes, 1, k - 1) \o <<c>>
  <2>1. a.start \in 1 .. Len(bytes) /\ 1 \in 1 .. Len(bytes) /\ a.start <= k /\ 1 <= k
        /\ k \in a.start .. Len(bytes) /\ k \in 1 .. Len(bytes)
    BY <1>1, <1>2
  <2>. QED  BY <2>1, SubSeqRecursiveSecond
<1>8. SubSeq(bytes, 1, k - 1) = p \o q
  <2>1. 1 \in 1 .. Len(bytes) + 1 /\ a.start - 1 \in 0 .. Len(bytes)
        /\ k - 1 \in a.start - 1 .. Len(bytes) /\ a.start - 1 + 1 = a.start
    BY <1>1, <1>2
  <2>2. SubSeq(bytes, 1, a.start - 1) \o SubSeq(bytes, a.start - 1 + 1, k - 1) = SubSeq(bytes, 1, k - 1)
    <3>1. ASSUME NEW j \in 0 .. Len(bytes), NEW i \in j .. Len(bytes)
          PROVE  SubSeq(bytes, 1, j) \o SubSeq(bytes, j + 1, i) = SubSeq(bytes, 1, i)
      <4>1. 1 \in 1 .. Len(bytes) + 1 /\ j \in 1 - 1 .. Len(bytes)
        BY <1>2
      <4>. QED  BY <4>1, ConcatAdjacentSubSeq
    <3>. QED  BY <2>1, <3>1
  <2>. QED  BY <2>1, <2>2
<1>9. <<c>> \in Seq(STRING)
  BY <1>2
<1>. HIDE DEF p, q, c, b
<1>10. CASE c = "\n"
  <2>1. b = [line |-> <<>>, done |-> Append(a.done, a.line), start |-> k + 1, at |-> k + 1]
    BY <1>1, <1>10 DEF b, Scan
  <2>2. FlattenSeq(b.done) = FlattenSeq(a.done) \o a.line
    BY <1>1, <2>1, FlattenAppend
  <2>3. Embeds(FlattenSeq(b.done), p \o q)
    BY <1>1, <1>3, <1>4, <1>5, <2>2, EmbedsConcat
  <2>4. FlattenSeq(b.done) \in Seq(STRING) /\ p \o q \in Seq(STRING)
    BY <1>1, <1>4, <1>5, <2>2, ConcatProperties
  <2>5. Embeds(FlattenSeq(b.done), (p \o q) \o <<c>>)
    BY <1>9, <2>3, <2>4, EmbedsInLonger
  <2>6. Embeds(FlattenSeq(b.done), SubSeq(bytes, 1, b.start - 1))
    <3>1. b.start - 1 = k
      BY <1>1, <2>1
    <3>. QED  BY <3>1, <1>7, <1>8, <2>5
  <2>7. Embeds(b.line, SubSeq(bytes, b.start, k))
    <3>1. b.line = <<>> /\ SubSeq(bytes, b.start, k) = <<>>
      BY <1>1, <2>1
    <3>2. <<>> \in Seq(STRING)
      OBVIOUS
    <3>. QED  BY <3>1, <3>2, EmbedsEmpty
  <2>8. b.at = k + 1 /\ b.start \in 1 .. k + 1 /\ Len(b.line) <= k + 1 - b.start
    BY <1>1, <2>1
  <2>. QED  BY <1>6, <2>6, <2>7, <2>8 DEF ScanFits, b, c
<1>11. CASE c # "\n"
  <2>1. /\ b.done = a.done /\ b.start = a.start /\ b.at = k + 1
        /\ b.line = IF c = "\r" THEN a.line ELSE Append(a.line, c)
    BY <1>1, <1>11 DEF b, Scan
  <2>2. Embeds(b.line, q \o <<c>>) /\ Len(b.line) <= Len(a.line) + 1
    <3>1. CASE c = "\r"
      <4>1. Embeds(a.line, q \o <<c>>)
        BY <1>1, <1>3, <1>4, <1>9, EmbedsInLonger
      <4>2. Len(a.line) <= Len(a.line) + 1
        BY <1>1
      <4>. QED  BY <2>1, <3>1, <4>1, <4>2
    <3>2. CASE c # "\r"
      <4>1. b.line = a.line \o <<c>>
        BY <1>1, <1>2, <2>1, <3>2, AppendIsConcat
      <4>2. Embeds(<<c>>, <<c>>)
        BY <1>9, EmbedsSelf
      <4>3. Embeds(a.line \o <<c>>, q \o <<c>>)
        BY <1>1, <1>3, <1>4, <1>9, <4>2, EmbedsConcat
      <4>4. Len(b.line) <= Len(a.line) + 1
        BY <1>1, <1>2, <2>1, <3>2, AppendProperties
      <4>. QED  BY <4>1, <4>3, <4>4
    <3>. QED  BY <3>1, <3>2
  <2>3. Len(b.line) <= k + 1 - b.start
    <3>1. Len(a.line) \in Nat /\ Len(b.line) \in Nat
      BY <1>1, <1>6 DEF ScanState
    <3>. QED  BY <3>1, <1>1, <2>1, <2>2
  <2>4. b.start \in 1 .. k + 1
    BY <1>1, <2>1
  <2>5. Embeds(FlattenSeq(b.done), SubSeq(bytes, 1, b.start - 1))
    BY <1>3, <2>1 DEF p
  <2>6. Embeds(b.line, SubSeq(bytes, b.start, k))
    BY <1>7, <2>1, <2>2
  <2>. QED  BY <1>6, <2>1, <2>3, <2>4, <2>5, <2>6 DEF ScanFits, b, c
<1>. QED  BY <1>10, <1>11

\* What a read makes of n bytes.
LEMMA ScanFitsAll ==
    ASSUME NEW bytes \in Seq(STRING), NEW n \in 0 .. Len(bytes)
    PROVE  ScanFits(ScanUpTo(bytes, n)[n], bytes, n)
<1> DEFINE h == ScanUpTo(bytes, n)
           T == {k \in 0 .. n : ScanFits(h[k], bytes, k)}
<1>1. n \in Nat
  OBVIOUS
<1>2. /\ h[0] = LineStart
      /\ \A k \in 1 .. n : h[k] = Scan(h[k - 1], bytes[k])
  BY ScanTurns
<1>. HIDE DEF h
<1>3. ScanFits(LineStart, bytes, 0)
  <2>1. LineStart \in ScanState
    BY DEF LineStart, ScanState
  <2>2. LineStart.at = 0 + 1 /\ LineStart.start \in 1 .. 0 + 1
        /\ Len(LineStart.line) <= 0 + 1 - LineStart.start
    BY DEF LineStart
  <2>3. SubSeq(bytes, 1, 0) = <<>> /\ SubSeq(bytes, 1, 1 - 1) = <<>>
    OBVIOUS
  <2>4. Embeds(<<>>, <<>>)
    <3>1. <<>> \in Seq(STRING)
      OBVIOUS
    <3>. QED  BY <3>1, EmbedsEmpty
  <2>5. FlattenSeq(LineStart.done) = <<>> /\ LineStart.line = <<>> /\ LineStart.start = 1
    BY FlattenEmpty DEF LineStart
  <2>. QED  BY <2>1, <2>2, <2>3, <2>4, <2>5 DEF ScanFits
<1>4. 0 \in T
  BY <1>1, <1>2, <1>3
<1>5. \A k \in 1 .. n : k - 1 \in T => k \in T
  <2>1. ASSUME NEW k \in 1 .. n, k - 1 \in T PROVE k \in T
    <3>1. ScanFits(h[k - 1], bytes, k - 1) /\ k \in 1 .. Len(bytes) /\ h[k] = Scan(h[k - 1], bytes[k])
      BY <2>1, <1>2
    <3>2. ScanFits(h[k], bytes, k)
      BY <3>1, ScanKeepsFit
    <3>. QED  BY <3>2
  <2>. QED  BY <2>1
<1>6. \A k \in 0 .. n : k \in T
  <2>. HIDE DEF T
  <2>. QED  BY <1>1, <1>4, <1>5, UpToInduction
<1>. QED  BY <1>1, <1>6 DEF h

\* What a read shows and keeps stands in the bytes it had.
LEMMA ReadParts ==
    ASSUME NEW chunk \in Seq(STRING), left \in Seq(STRING)
    PROVE  LET bytes == left \o chunk
               a     == Scanned(chunk)
           IN  /\ a \in ScanState /\ Kept(bytes, a) \in Seq(STRING)
               /\ Embeds(FlattenSeq(a.done) \o Kept(bytes, a), bytes)
<1> DEFINE bytes == left \o chunk
           n == Len(chunk)
           a == Scanned(chunk)
<1>1. bytes \in Seq(STRING) /\ n \in 0 .. Len(bytes) /\ Len(bytes) \in Nat
  BY ConcatSeq
<1>2. ScanFits(a, bytes, n)
  <2>1. a = ScanUpTo(bytes, n)[n]
    BY DEF Scanned
  <2>. HIDE DEF a, n, bytes
  <2>. QED  BY <1>1, <2>1, ScanFitsAll
<1>. HIDE DEF a, n, bytes
<1> DEFINE i == a.start - 1
           e == a.start + Len(a.line) - 1
           kept == SubSeq(bytes, a.start, e)
           front == SubSeq(bytes, 1, i)
           rest == SubSeq(bytes, e + 1, Len(bytes))
<1>3. /\ a \in ScanState /\ Len(a.line) \in Nat /\ a.start \in 1 .. n + 1
      /\ Len(a.line) <= n + 1 - a.start /\ Embeds(FlattenSeq(a.done), front)
      /\ FlattenSeq(a.done) \in Seq(STRING)
  BY <1>2, FlattenType DEF ScanFits, ScanState
<1>4. /\ i \in 0 .. Len(bytes) /\ e \in i .. Len(bytes) /\ a.start = i + 1
      /\ e \in 0 .. Len(bytes) /\ a.start \in 1 .. Len(bytes) + 1 /\ e + 1 \in 1 .. Len(bytes) + 1
      /\ 1 \in 1 .. Len(bytes) + 1
  <2>1. ASSUME NEW st \in 1 .. n + 1, NEW l \in Nat, l <= n + 1 - st, NEW b \in Nat, n \in 0 .. b
        PROVE  /\ st - 1 \in 0 .. b /\ st + l - 1 \in st - 1 .. b /\ st = st - 1 + 1
               /\ st + l - 1 \in 0 .. b /\ st \in 1 .. b + 1 /\ st + l - 1 + 1 \in 1 .. b + 1
               /\ 1 \in 1 .. b + 1
    BY <2>1
  <2>. QED  BY <1>1, <1>3, <2>1
<1>5. Kept(bytes, a) = kept
  BY DEF Kept
<1>6. kept \in Seq(STRING) /\ front \in Seq(STRING) /\ rest \in Seq(STRING)
  <2>1. Len(bytes) \in 0 .. Len(bytes)
    BY <1>1
  <2>. HIDE DEF i, e
  <2>. QED  BY <1>1, <1>4, <2>1, SubSeqSeq
<1>7. front \o kept = SubSeq(bytes, 1, e)
  <2>1. ASSUME NEW x \in 0 .. Len(bytes), NEW y \in x .. Len(bytes)
        PROVE  SubSeq(bytes, 1, x) \o SubSeq(bytes, x + 1, y) = SubSeq(bytes, 1, y)
    <3>1. 1 \in 1 .. Len(bytes) + 1 /\ x \in 1 - 1 .. Len(bytes)
      BY <1>1
    <3>. QED  BY <1>1, <3>1, ConcatAdjacentSubSeq
  <2>. HIDE DEF i, e
  <2>. QED  BY <1>4, <2>1
<1>8. SubSeq(bytes, 1, e) \o rest = bytes
  <2>. HIDE DEF i, e
  <2>. QED  BY <1>1, <1>4, SplitSeq
<1>. HIDE DEF i, e, kept, front, rest
<1>9. Embeds(FlattenSeq(a.done) \o kept, front \o kept)
  <2>1. Embeds(kept, kept)
    BY <1>6, EmbedsSelf
  <2>. QED  BY <1>3, <1>6, <2>1, EmbedsConcat
<1>10. FlattenSeq(a.done) \o kept \in Seq(STRING) /\ front \o kept \in Seq(STRING)
  BY <1>3, <1>6, ConcatProperties
<1>11. Embeds(FlattenSeq(a.done) \o kept, (front \o kept) \o rest)
  BY <1>6, <1>9, <1>10, EmbedsInLonger
<1>12. (front \o kept) \o rest = bytes
  BY <1>7, <1>8
<1>. QED  BY <1>3, <1>5, <1>6, <1>11, <1>12 DEF a, bytes

\* The search for a part finds it wherever it is.
LEMMA FoundTurns ==
    ASSUME NEW s \in Seq(STRING), NEW t \in Seq(STRING)
    PROVE  /\ FoundUpTo(s, t)[0] = 0
           /\ \A k \in 1 .. Len(t) : FoundUpTo(s, t)[k] = FoundNext(s, FoundUpTo(s, t)[k - 1], t[k])
           /\ \A k \in 0 .. Len(t) : FoundUpTo(s, t)[k] \in 0 .. Len(s)
<1> DEFINE n == Len(t)
           X == 0 .. Len(s)
           Turns(f) == f = [k \in 0 .. n |-> IF k = 0 THEN 0 ELSE FoundNext(s, f[k - 1], t[k])]
           g == [k \in 1 .. n |-> [x \in X |-> FoundNext(s, x, t[k])]]
           h == FoundUpTo(s, t)
<1>1. n \in Nat /\ Len(s) \in Nat
  OBVIOUS
<1>2. h = CHOOSE f : Turns(f)
  BY DEF FoundUpTo
<1>. HIDE DEF h, n
<1>3. ASSUME NEW k \in 1 .. n, NEW x \in X PROVE FoundNext(s, x, t[k]) \in X
  BY <1>1 DEF FoundNext
<1>4. PICK r : r \in [0 .. n -> X] /\ IsLoop(r, 0, g, n)
  <2>1. TurnsIn(X, g, n)
    BY <1>3 DEF TurnsIn
  <2>2. 0 \in X
    BY <1>1
  <2>. HIDE DEF g, X
  <2>. QED  BY <1>1, <2>1, <2>2, LoopExists
<1>5. r[0] = 0 /\ \A k \in 1 .. n : r[k] = FoundNext(s, r[k - 1], t[k])
  <2>1. ASSUME NEW k \in 1 .. n PROVE r[k] = FoundNext(s, r[k - 1], t[k])
    <3>1. r[k] = g[k][r[k - 1]] /\ r[k - 1] \in X
      <4>. HIDE DEF g, X
      <4>. QED  BY <1>1, <1>4 DEF IsLoop
    <3>. QED  BY <3>1
  <2>. QED  BY <1>4, <2>1 DEF IsLoop
<1>6. Turns(r)
  <2>1. r = [k \in 0 .. n |-> r[k]]
    BY <1>4
  <2>2. ASSUME NEW k \in 0 .. n
        PROVE  r[k] = IF k = 0 THEN 0 ELSE FoundNext(s, r[k - 1], t[k])
    <3>1. CASE k = 0
      BY <3>1, <1>5
    <3>2. CASE k # 0
      <4>1. k \in 1 .. n
        BY <3>2
      <4>. QED  BY <3>2, <4>1, <1>5
    <3>. QED  BY <3>1, <3>2
  <2>. QED  BY <2>1, <2>2
<1>7. Turns(h)
  <2>. HIDE DEF Turns
  <2>. QED  BY <1>2, <1>6
<1>8. h[0] = 0 /\ \A k \in 1 .. n : h[k] = FoundNext(s, h[k - 1], t[k])
  <2>1. \A k \in 0 .. n : h[k] = IF k = 0 THEN 0 ELSE FoundNext(s, h[k - 1], t[k])
    BY <1>7
  <2>2. 0 \in 0 .. n /\ \A k \in 1 .. n : k \in 0 .. n /\ k # 0
    BY <1>1
  <2>. QED  BY <2>1, <2>2
<1>9. \A k \in 0 .. n : h[k] \in X
  <2> DEFINE T == {k \in 0 .. n : h[k] \in X}
  <2>. HIDE DEF X
  <2>1. 0 \in T
    <3>1. 0 \in X /\ 0 \in 0 .. n
      BY <1>1 DEF X
    <3>. QED  BY <3>1, <1>8
  <2>2. \A k \in 1 .. n : k - 1 \in T => k \in T
    <3>1. ASSUME NEW k \in 1 .. n, k - 1 \in T PROVE k \in T
      <4>1. h[k - 1] \in X /\ h[k] = FoundNext(s, h[k - 1], t[k])
        BY <3>1, <1>8
      <4>2. FoundNext(s, h[k - 1], t[k]) \in X
        BY <4>1, <1>3
      <4>. QED  BY <4>1, <4>2
    <3>. QED  BY <3>1
  <2>3. \A k \in 0 .. n : k \in T
    <3>. HIDE DEF T
    <3>. QED  BY <1>1, <2>1, <2>2, UpToInduction
  <2>. QED  BY <2>3
<1>. QED  BY <1>8, <1>9 DEF h, n

\* It finds what is there.
LEMMA EmbedsIsPart ==
    ASSUME NEW s \in Seq(STRING), NEW t \in Seq(STRING), Embeds(s, t)
    PROVE  IsPart(s, t)
<1>1. PICK f : Places(f, s, t)
  BY DEF Embeds
<1> DEFINE n == Len(t)
           m == Len(s)
           h == FoundUpTo(s, t)
           Reached(k) == \A i \in 1 .. m : f[i] <= k => h[k] >= i
           T == {k \in 0 .. n : Reached(k)}
<1>2. /\ n \in Nat /\ m \in Nat /\ h[0] = 0
      /\ \A k \in 1 .. n : h[k] = FoundNext(s, h[k - 1], t[k])
      /\ \A k \in 0 .. n : h[k] \in 0 .. m
  BY FoundTurns
<1>3. /\ \A i \in 1 .. m : f[i] \in 1 .. n /\ s[i] = t[f[i]]
      /\ Rises(f, m)
  BY <1>1 DEF Places
<1>. HIDE DEF h, n, m
<1>4. 0 \in T
  <2>1. \A i \in 1 .. m : ~(f[i] <= 0)
    BY <1>2, <1>3
  <2>. QED  BY <1>2, <2>1
<1>5. \A k \in 1 .. n : k - 1 \in T => k \in T
  <2>1. ASSUME NEW k \in 1 .. n, k - 1 \in T, NEW i \in 1 .. m, f[i] <= k PROVE h[k] >= i
    <3>1. /\ h[k - 1] \in 0 .. m /\ h[k] \in 0 .. m /\ h[k] = FoundNext(s, h[k - 1], t[k])
          /\ Reached(k - 1)
      <4>1. k - 1 \in 0 .. n /\ k \in 0 .. n
        BY <1>2
      <4>. QED  BY <2>1, <4>1, <1>2
    <3>2. h[k] >= h[k - 1]
      BY <3>1, <1>2 DEF FoundNext
    <3>3. f[i] \in 1 .. n /\ s[i] = t[f[i]]
      BY <1>3
    <3>4. CASE f[i] <= k - 1
      <4>1. h[k - 1] >= i
        BY <3>1, <3>4
      <4>. QED  BY <3>1, <3>2, <4>1, <1>2
    <3>5. CASE ~(f[i] <= k - 1)
      <4>1. f[i] = k
        BY <2>1, <3>3, <3>5
      <4>2. h[k - 1] >= i - 1
        <5>1. CASE i = 1
          BY <5>1, <3>1, <1>2
        <5>2. CASE i # 1
          <6>1. i - 1 \in 1 .. m /\ i - 1 < i
            BY <5>2, <1>2
          <6>2. f[i - 1] < f[i]
            BY <6>1, <1>3 DEF Rises
          <6>3. f[i - 1] \in 1 .. n
            BY <6>1, <1>3
          <6>4. f[i - 1] <= k - 1
            BY <4>1, <6>2, <6>3, <1>2
          <6>. QED  BY <3>1, <6>1, <6>4
        <5>. QED  BY <5>1, <5>2
      <4>3. CASE h[k - 1] >= i
        BY <3>1, <3>2, <4>3, <1>2
      <4>4. CASE ~(h[k - 1] >= i)
        <5>1. h[k - 1] = i - 1
          BY <3>1, <4>2, <4>4, <1>2
        <5>2. h[k - 1] < m /\ h[k - 1] + 1 = i
          BY <5>1, <1>2
        <5>3. s[h[k - 1] + 1] = t[k]
          BY <5>2, <3>3, <4>1
        <5>4. h[k] = h[k - 1] + 1
          BY <3>1, <5>2, <5>3 DEF FoundNext, m
        <5>. QED  BY <5>2, <5>4, <1>2
      <4>. QED  BY <4>3, <4>4
    <3>. QED  BY <3>4, <3>5
  <2>2. ASSUME NEW k \in 1 .. n, k - 1 \in T PROVE k \in T
    <3>1. \A i \in 1 .. m : f[i] <= k => h[k] >= i
      BY <2>1, <2>2
    <3>. QED  BY <3>1
  <2>. QED  BY <2>2
<1>6. \A k \in 0 .. n : k \in T
  <2>. HIDE DEF T
  <2>. QED  BY <1>2, <1>4, <1>5, UpToInduction
<1>7. n \in T
  BY <1>2, <1>6
<1>8. h[n] = m
  <2>1. h[n] \in 0 .. m
    BY <1>2
  <2>2. CASE m = 0
    BY <2>1, <2>2
  <2>3. CASE m # 0
    <3>1. m \in 1 .. m /\ f[m] <= n
      <4>1. m \in 1 .. m
        BY <2>3, <1>2
      <4>. QED  BY <4>1, <1>2, <1>3
    <3>2. h[n] >= m
      BY <1>7, <3>1
    <3>. QED  BY <2>1, <3>2, <1>2
  <2>. QED  BY <2>2, <2>3
<1>. QED  BY <1>8 DEF IsPart, h, n, m

\* What the commands leave alone.
Received(s) == <<s.sent, s.shown, s.cut>>

\* irc_send does not.
LEMMA IrcSendReceived ==
    ASSUME NEW c, SendingOK(c), NEW kind, NEW res
    PROVE  Received(IrcSend(c, kind, res).seen) = Received(c.seen)
<1> DEFINE s == c.seen
           d == IrcSend(c, kind, res)
<1>1. /\ c = [outq |-> c.outq, wire |-> c.wire, seen |-> s]
      /\ s = [sent |-> s.sent, shown |-> s.shown, cut |-> s.cut, queued |-> s.queued,
              overtook |-> s.overtook, untold |-> s.untold, backs |-> s.backs,
              commands |-> s.commands]
  BY DEF SendingOK, HistoryOK
<1>2. CASE res = "queued"
  <2>1. PICK q : d = [c EXCEPT !.outq = q, !.seen.queued = @ + 1]
    BY <1>2 DEF IrcSend
  <2>2. d.seen = [s EXCEPT !.queued = @ + 1]
    BY <1>1, <2>1
  <2>. QED  BY <1>1, <2>2 DEF Received
<1>3. CASE res = "written"
  <2>1. PICK w, o : d = [c EXCEPT !.wire = w, !.seen.overtook = o]
    BY <1>3 DEF IrcSend
  <2>2. d.seen = [s EXCEPT !.overtook = o]
    BY <1>1, <2>1
  <2>. QED  BY <1>1, <2>2 DEF Received
<1>4. CASE res # "queued" /\ res # "written"
  <2>1. PICK u : d = [c EXCEPT !.seen.untold = u]
    BY <1>4 DEF IrcSend
  <2>2. d.seen = [s EXCEPT !.untold = u]
    BY <1>1, <2>1
  <2>. QED  BY <1>1, <2>2 DEF Received
<1>. QED  BY <1>2, <1>3, <1>4

\* Nor the end of a command.
LEMMA CommandedReceived ==
    ASSUME NEW c, SendingOK(c), Commanded(c)
    PROVE  Received(seen') = Received(c.seen)
<1> DEFINE s == c.seen
<1>1. /\ s = [sent |-> s.sent, shown |-> s.shown, cut |-> s.cut, queued |-> s.queued,
              overtook |-> s.overtook, untold |-> s.untold, backs |-> s.backs,
              commands |-> s.commands]
      /\ seen' = [s EXCEPT !.commands = @ + 1]
  BY DEF SendingOK, HistoryOK, Commanded
<1>. QED  BY <1>1 DEF Received

\* Coming back, too.
LEMMA BackReceived ==
    ASSUME NEW c, SendingOK(c), NEW res, Back(c, res)
    PROVE  Received(seen') = Received(c.seen)
<1> DEFINE s == c.seen
           t == [c.seen EXCEPT !.backs = IF res = "failed" THEN @ + 1 ELSE @]
           e == [c EXCEPT !.seen = t]
<1>1. HistoryOK(s) /\ c.outq \in Seq(Cmd) /\ c.wire \in Seq(Cmd)
      /\ c = [outq |-> c.outq, wire |-> c.wire, seen |-> s]
  BY DEF SendingOK
<1>2. e = [c EXCEPT !.seen.backs = IF res = "failed" THEN @ + 1 ELSE @]
  OBVIOUS
<1>3. HistoryOK(t) /\ Received(t) = Received(s)
  <2> DEFINE b == IF res = "failed" THEN s.backs + 1 ELSE s.backs
  <2>1. b \in Nat
    BY <1>1 DEF HistoryOK
  <2>2. t = [sent |-> s.sent, shown |-> s.shown, cut |-> s.cut, queued |-> s.queued,
             overtook |-> s.overtook, untold |-> s.untold, backs |-> b,
             commands |-> s.commands]
    BY <1>1 DEF HistoryOK
  <2>. HIDE DEF t, b
  <2>. QED  BY <1>1, <2>1, <2>2 DEF HistoryOK, Received
<1>. HIDE DEF t
<1>4. SendingOK(e) /\ Received(e.seen) = Received(s)
  <2>1. e = [outq |-> c.outq, wire |-> c.wire, seen |-> t]
    BY <1>1
  <2>. HIDE DEF e
  <2>. QED  BY <1>1, <1>3, <2>1 DEF SendingOK
<1>5. Commanded(IrcSend(e, "back", res))
  BY <1>2 DEF Back
<1>. HIDE DEF e
<1>6. SendingOK(IrcSend(e, "back", res))
  BY <1>4, IrcSendType DEF Kinds
<1>7. Received(IrcSend(e, "back", res).seen) = Received(e.seen)
  BY <1>4, IrcSendReceived
<1>. QED  BY <1>4, <1>5, <1>6, <1>7, CommandedReceived

\* No command touches the input.
LEMMA CommandsReceiveNothing ==
    ASSUME IInv,
           CmdSay \/ CmdSend \/ IrcUpdate \/ CmdAway \/ CmdBack \/ CmdMsg \/ CmdDisconnect
    PROVE  /\ UNCHANGED <<net, left>> /\ Received(seen') = Received(seen)
           /\ Running /\ state' \in {state, "ended"}
<1>1. SendingOK(Now) /\ Now.seen = seen
  BY NowInv DEF IInv
<1>2. ASSUME NEW kind \in Kinds, NEW res
      PROVE  /\ SendingOK(IrcSend(Now, kind, res))
             /\ Received(IrcSend(Now, kind, res).seen) = Received(seen)
  BY <1>1, IrcSendType, IrcSendReceived
<1>3. ASSUME NEW kind \in Kinds, NEW res, Commanded(IrcSend(Now, kind, res))
      PROVE  Received(seen') = Received(seen)
  BY <1>2, <1>3, CommandedReceived
<1>4. "say" \in Kinds /\ "away" \in Kinds
  BY DEF Kinds
<1>5. CASE CmdSay \/ CmdSend \/ IrcUpdate
  <2>1. Said /\ Running
    BY <1>5 DEF CmdSay, CmdSend, IrcUpdate, MayCommand
  <2>. QED  BY <2>1, <1>3, <1>4 DEF Said
<1>6. CASE CmdAway
  <2>1. CASE \E res \in SendResults : Commanded(IrcSend(Now, "away", res))
    BY <1>3, <1>4, <1>6, <2>1 DEF CmdAway, MayCommand
  <2>2. CASE Commanded([Now EXCEPT !.seen.untold = TRUE])
    <3> DEFINE t == [seen EXCEPT !.untold = TRUE]
               d == [Now EXCEPT !.seen = t]
    <3>1. HistoryOK(seen) /\ SendingOK(Now) /\ InOrder(Now)
      BY <1>1, NowInv DEF IInv, SendingOK, SendInv
    <3>2. d = [Now EXCEPT !.seen.untold = TRUE]
      BY DEF Now
    <3>3. HistoryOK(t) /\ t.queued = seen.queued /\ Received(t) = Received(seen)
      BY <3>1, UntoldHistory DEF HistoryOK, Received
    <3>. HIDE DEF t
    <3>4. SendingOK(d) /\ d.seen = t
      BY <1>1, <3>1, <3>3, HistoryChange
    <3>. HIDE DEF d
    <3>5. Commanded(d)
      BY <2>2, <3>2
    <3>6. Received(seen') = Received(seen)
      BY <3>3, <3>4, <3>5, CommandedReceived
    <3>. QED  BY <1>6, <3>6 DEF CmdAway, MayCommand
  <2>. QED  BY <1>6, <2>1, <2>2 DEF CmdAway
<1>7. CASE CmdBack
  <2>1. PICK res : Back(Now, res)
    BY <1>7 DEF CmdBack
  <2>2. Received(seen') = Received(seen)
    BY <1>1, <2>1, BackReceived
  <2>. QED  BY <1>7, <2>2 DEF CmdBack, MayCommand
<1>8. CASE CmdMsg
  <2>1. PICK res, res2 : Back(IrcSend(Now, "say", res), res2) \/ Commanded(IrcSend(Now, "say", res))
    BY <1>8 DEF CmdMsg
  <2>2. CASE Back(IrcSend(Now, "say", res), res2)
    <3> DEFINE d == IrcSend(Now, "say", res)
    <3>1. SendingOK(d) /\ Received(d.seen) = Received(seen)
      BY <1>2, <1>4
    <3>. HIDE DEF d
    <3>2. Received(seen') = Received(seen)
      BY <2>2, <3>1, BackReceived DEF d
    <3>. QED  BY <1>8, <3>2 DEF CmdMsg, MayCommand
  <2>3. CASE Commanded(IrcSend(Now, "say", res))
    BY <1>3, <1>4, <1>8, <2>3 DEF CmdMsg, MayCommand
  <2>. QED  BY <2>1, <2>2, <2>3
<1>9. CASE CmdDisconnect
  <2>1. PICK res : Commanded(IF live THEN IrcSend(Now, "say", res) ELSE Now)
    BY <1>9 DEF CmdDisconnect
  <2>2. Received(seen') = Received(seen)
    <3>1. CASE live
      BY <1>3, <1>4, <2>1, <3>1
    <3>2. CASE ~live
      BY <1>1, <2>1, <3>2, CommandedReceived
    <3>. QED  BY <3>1, <3>2
  <2>. QED  BY <1>9, <2>2 DEF CmdDisconnect, MayCommand
<1>. QED  BY <1>5, <1>6, <1>7, <1>8, <1>9

\* What is read: bytes, of the lines that the server sends.
ReadingOK ==
    /\ net \in Seq(STRING) /\ left \in Seq(STRING)
    /\ seen.sent \in Seq(Lines) /\ seen.shown \in Seq(Seq(STRING)) /\ seen.cut \in BOOLEAN

\* All of it was sent: what was shown, what is kept, and what is still to read.
PartsKept == Embeds((FlattenSeq(seen.shown) \o left) \o net, FlattenSeq(seen.sent))

\* Lines are sequences of bytes.
LEMMA LinesAreBytes ==
    ASSUME NEW ls \in Seq(Lines)
    PROVE  ls \in Seq(Seq(STRING)) /\ FlattenSeq(ls) \in Seq(STRING)
<1>1. Lines \subseteq Seq(STRING)
  BY TrafficAssumption
<1>2. ls \in Seq(Seq(STRING))
  BY <1>1
<1>. QED  BY <1>2, FlattenType

\* Bytes put together in whichever order.
LEMMA BytesAssociate ==
    \A a, b, c \in Seq(STRING) : (a \o b) \o c = a \o (b \o c)
<1>. TAKE a, b, c \in Seq(STRING)
<1>. QED  BY ConcatAssociative

\* What a read does.
EventReads(k) ==
    LET chunk == SubSeq(net, 1, k)
        a     == Scanned(chunk)
        bad   == Overruns(a) \/ \E i \in 1 .. Len(a.done) : Torn(a.done[i])
    IN  /\ net' = SubSeq(net, k + 1, Len(net))
        /\ left' = Kept(left \o chunk, a)
        /\ seen'.sent = seen.sent /\ seen'.shown = seen.shown \o a.done
        /\ seen'.cut = (seen.cut \/ chunk[k] # "\n")
        /\ state' = "crashed" <=> bad

\* Every irc_event does so.
LEMMA EventReading ==
    ASSUME IInv, Event
    PROVE  Running /\ \E k \in 1 .. Len(net) : EventReads(k)
<1>1. PICK k \in 1 .. Len(net), n \in 0 .. Len(outq) :
         LET chunk == SubSeq(net, 1, k)
             a     == Scanned(chunk)
             bad   == Overruns(a) \/ \E i \in 1 .. Len(a.done) : Torn(a.done[i])
         IN  /\ Running
             /\ net' = SubSeq(net, k + 1, Len(net))
             /\ left' = Kept(left \o chunk, a)
             /\ seen' = [seen EXCEPT !.shown = @ \o a.done, !.cut = @ \/ chunk[k] # "\n"]
             /\ IF bad THEN state' = "crashed"
                ELSE state' = IF n = Len(outq) THEN "running" ELSE "stuck"
  BY Zenon DEF Event
<1> DEFINE chunk == SubSeq(net, 1, k)
           a == Scanned(chunk)
           bad == Overruns(a) \/ \E i \in 1 .. Len(a.done) : Torn(a.done[i])
           shown == seen.shown \o a.done
           cut == seen.cut \/ chunk[k] # "\n"
<1>2. /\ Running /\ net' = SubSeq(net, k + 1, Len(net)) /\ left' = Kept(left \o chunk, a)
      /\ seen' = [seen EXCEPT !.shown = shown, !.cut = cut]
      /\ IF bad THEN state' = "crashed"
         ELSE state' = IF n = Len(outq) THEN "running" ELSE "stuck"
  BY <1>1
<1>3. HistoryOK(seen)
  BY DEF IInv, SendingOK, Now
<1>. HIDE DEF chunk, a, bad, shown, cut
<1>4. seen'.sent = seen.sent /\ seen'.shown = shown /\ seen'.cut = cut
  BY <1>2, <1>3 DEF HistoryOK
<1>5. state' = "crashed" <=> bad
  BY <1>2
<1>6. EventReads(k)
  BY <1>2, <1>4, <1>5 DEF EventReads, chunk, a, bad, shown, cut
<1>. QED  BY <1>2, <1>6

\* The part of a read that does not depend on where it ends.
LEMMA EventType ==
    ASSUME ReadingOK, NEW k \in 1 .. Len(net), EventReads(k)
    PROVE  /\ ReadingOK' /\ SubSeq(net, 1, k) \in Seq(STRING)
           /\ Scanned(SubSeq(net, 1, k)) \in ScanState
           /\ Embeds(FlattenSeq(Scanned(SubSeq(net, 1, k)).done) \o left', left \o SubSeq(net, 1, k))
           /\ SubSeq(net, 1, k) \o net' = net
<1> DEFINE chunk == SubSeq(net, 1, k)
           a == Scanned(chunk)
<1>1. net \in Seq(STRING) /\ left \in Seq(STRING) /\ k \in 0 .. Len(net) /\ Len(net) \in Nat
  BY DEF ReadingOK
<1>2. chunk \in Seq(STRING) /\ net' \in Seq(STRING) /\ chunk \o net' = net
  BY <1>1, SplitSeq DEF EventReads
<1>3. left' = Kept(left \o chunk, a) /\ seen'.shown = seen.shown \o a.done /\ seen'.sent = seen.sent
      /\ seen'.cut \in BOOLEAN
  BY DEF EventReads
<1>. HIDE DEF chunk
<1>4. /\ a \in ScanState /\ left' \in Seq(STRING)
      /\ Embeds(FlattenSeq(a.done) \o left', left \o chunk)
  BY <1>1, <1>2, <1>3, ReadParts
<1>. HIDE DEF a
<1>5. seen'.shown \in Seq(Seq(STRING))
  <2>1. a.done \in Seq(Seq(STRING))
    BY <1>4 DEF ScanState
  <2>2. seen.shown \in Seq(Seq(STRING))
    BY DEF ReadingOK
  <2>. QED  BY <1>3, <2>1, <2>2, ConcatProperties
<1>6. ReadingOK'
  BY <1>2, <1>3, <1>4, <1>5 DEF ReadingOK
<1>. QED  BY <1>2, <1>4, <1>6 DEF chunk, a

\* What a read takes from the network it shows or keeps, or drops.
LEMMA EventParts ==
    ASSUME ReadingOK, PartsKept, NEW k \in 1 .. Len(net), EventReads(k)
    PROVE  PartsKept'
<1> DEFINE chunk == SubSeq(net, 1, k)
           a == Scanned(chunk)
           w == FlattenSeq(seen.shown)
           d == FlattenSeq(a.done)
           u == FlattenSeq(seen.sent)
<1>1. /\ ReadingOK' /\ chunk \in Seq(STRING) /\ a \in ScanState
      /\ Embeds(d \o left', left \o chunk) /\ chunk \o net' = net
  BY EventType
<1>2. seen'.shown = seen.shown \o a.done /\ seen'.sent = seen.sent
  BY DEF EventReads
<1>. HIDE DEF chunk, a
<1>3. /\ net \in Seq(STRING) /\ left \in Seq(STRING) /\ net' \in Seq(STRING) /\ left' \in Seq(STRING)
      /\ seen.shown \in Seq(Seq(STRING)) /\ a.done \in Seq(Seq(STRING))
      /\ w \in Seq(STRING) /\ d \in Seq(STRING) /\ u \in Seq(STRING)
  BY <1>1, FlattenType, LinesAreBytes DEF ReadingOK, ScanState
<1>4. FlattenSeq(seen'.shown) = w \o d /\ FlattenSeq(seen'.sent) = u
  BY <1>2, <1>3, FlattenConcat
<1>5. Embeds((w \o left) \o net, u)
  BY DEF PartsKept
<1>. HIDE DEF w, d, u
<1>6. /\ d \o left' \in Seq(STRING) /\ left \o chunk \in Seq(STRING)
      /\ w \o (d \o left') \in Seq(STRING) /\ w \o (left \o chunk) \in Seq(STRING)
      /\ w \o left \in Seq(STRING) /\ (w \o left) \o net \in Seq(STRING)
      /\ (w \o (d \o left')) \o net' \in Seq(STRING)
      /\ (w \o (left \o chunk)) \o net' \in Seq(STRING)
  <2>1. d \o left' \in Seq(STRING) /\ left \o chunk \in Seq(STRING) /\ w \o left \in Seq(STRING)
    BY <1>1, <1>3, ConcatProperties
  <2>2. w \o (d \o left') \in Seq(STRING) /\ w \o (left \o chunk) \in Seq(STRING)
        /\ (w \o left) \o net \in Seq(STRING)
    BY <1>3, <2>1, ConcatProperties
  <2>. QED  BY <1>3, <2>1, <2>2, ConcatProperties
<1>7. Embeds(w \o (d \o left'), w \o (left \o chunk))
  <2>1. Embeds(w, w)
    BY <1>3, EmbedsSelf
  <2>. QED  BY <1>1, <1>3, <1>6, <2>1, EmbedsConcat
<1>8. Embeds((w \o (d \o left')) \o net', (w \o (left \o chunk)) \o net')
  <2>1. Embeds(net', net')
    BY <1>3, EmbedsSelf
  <2>. QED  BY <1>3, <1>6, <1>7, <2>1, EmbedsConcat
<1>9. (w \o (left \o chunk)) \o net' = (w \o left) \o net
  <2>1. (w \o left) \o chunk = w \o (left \o chunk)
    <3>1. w \in Seq(STRING) /\ left \in Seq(STRING) /\ chunk \in Seq(STRING)
      BY <1>1, <1>3
    <3>. QED  BY <3>1, BytesAssociate
  <2>2. ((w \o left) \o chunk) \o net' = (w \o left) \o (chunk \o net')
    <3>1. w \o left \in Seq(STRING) /\ chunk \in Seq(STRING) /\ net' \in Seq(STRING)
      BY <1>1, <1>3, <1>6
    <3>. QED  BY <3>1, BytesAssociate
  <2>. QED  BY <1>1, <2>1, <2>2
<1>10. (w \o d) \o left' = w \o (d \o left')
  <2>1. w \in Seq(STRING) /\ d \in Seq(STRING) /\ left' \in Seq(STRING)
    BY <1>3
  <2>. QED  BY <2>1, BytesAssociate
<1>11. Embeds((w \o (d \o left')) \o net', u)
  BY <1>3, <1>5, <1>6, <1>8, <1>9, EmbedsTransitive
<1>. QED  BY <1>4, <1>10, <1>11 DEF PartsKept

\* The steps of the connection: a line more is sent, or what was not read goes.
LEMMA ServerSendsParts ==
    ASSUME IInv, ReadingOK, PartsKept, ServerSends
    PROVE  ReadingOK' /\ PartsKept'
<1>1. PICK l \in Lines : net' = net \o l /\ seen' = [seen EXCEPT !.sent = Append(@, l)]
                         /\ left' = left
  BY DEF ServerSends
<1>2. HistoryOK(seen)
  BY DEF IInv, SendingOK, Now
<1>3. seen'.sent = Append(seen.sent, l) /\ seen'.shown = seen.shown /\ seen'.cut = seen.cut
  BY <1>1, <1>2 DEF HistoryOK
<1>4. l \in Seq(STRING) /\ net \in Seq(STRING) /\ left \in Seq(STRING)
      /\ seen.sent \in Seq(Lines) /\ seen.shown \in Seq(Seq(STRING))
  BY TrafficAssumption DEF ReadingOK
<1>5. seen.sent \in Seq(Seq(STRING))
  BY <1>4, LinesAreBytes
<1>6. FlattenSeq(seen'.sent) = FlattenSeq(seen.sent) \o l
  BY <1>3, <1>4, <1>5, FlattenAppend
<1>7. FlattenSeq(seen.sent) \in Seq(STRING) /\ FlattenSeq(seen.shown) \in Seq(STRING)
  BY <1>4, <1>5, FlattenType
<1> DEFINE w == FlattenSeq(seen.shown)
           u == FlattenSeq(seen.sent)
<1>8. Embeds((w \o left) \o net, u)
  BY DEF PartsKept
<1>. HIDE DEF w, u
<1>9. w \o left \in Seq(STRING) /\ (w \o left) \o net \in Seq(STRING) /\ u \in Seq(STRING)
      /\ w \in Seq(STRING)
  BY <1>4, <1>7, ConcatProperties DEF w, u
<1>10. Embeds(((w \o left) \o net) \o l, u \o l)
  <2>1. Embeds(l, l)
    BY <1>4, EmbedsSelf
  <2>. QED  BY <1>4, <1>8, <1>9, <2>1, EmbedsConcat
<1>11. ((w \o left) \o net) \o l = (w \o left) \o (net \o l)
  <2>1. w \o left \in Seq(STRING) /\ net \in Seq(STRING) /\ l \in Seq(STRING)
    BY <1>4, <1>9
  <2>. QED  BY <2>1, BytesAssociate
<1>12. PartsKept'
  BY <1>1, <1>3, <1>6, <1>10, <1>11 DEF PartsKept, w, u
<1>13. ReadingOK'
  <2>1. net \o l \in Seq(STRING) /\ Append(seen.sent, l) \in Seq(Lines)
    BY <1>4, ConcatProperties, AppendProperties
  <2>. QED  BY <1>1, <1>3, <2>1 DEF ReadingOK
<1>. QED  BY <1>12, <1>13

\* Or what was not read is lost with the connection.
LEMMA ReadFailsParts ==
    ASSUME IInv, ReadingOK, PartsKept, ReadFails
    PROVE  ReadingOK' /\ PartsKept'
<1>1. net' = <<>> /\ left' = left
      /\ seen' = [seen EXCEPT !.cut = @ \/ net # <<>> \/ left # <<>>]
  BY DEF ReadFails
<1>2. HistoryOK(seen) /\ seen.cut \in BOOLEAN
  BY DEF IInv, SendingOK, Now, ReadingOK
<1>3. seen'.sent = seen.sent /\ seen'.shown = seen.shown /\ seen'.cut \in BOOLEAN
  BY <1>1, <1>2 DEF HistoryOK
<1>4. ReadingOK'
  <2>1. <<>> \in Seq(STRING)
    OBVIOUS
  <2>. QED  BY <1>1, <1>3, <2>1 DEF ReadingOK
<1> DEFINE w == FlattenSeq(seen.shown)
           u == FlattenSeq(seen.sent)
<1>5. /\ left \in Seq(STRING) /\ net \in Seq(STRING) /\ w \in Seq(STRING) /\ u \in Seq(STRING)
      /\ <<>> \in Seq(STRING)
  BY FlattenType, LinesAreBytes DEF ReadingOK
<1>6. Embeds((w \o left) \o net, u)
  BY DEF PartsKept
<1>7. w' = w /\ u' = u
  BY <1>3
<1>. HIDE DEF w, u
<1>8. w \o left \in Seq(STRING) /\ (w \o left) \o <<>> \in Seq(STRING)
      /\ (w \o left) \o net \in Seq(STRING)
  <2>1. w \o left \in Seq(STRING)
    BY <1>5, ConcatProperties
  <2>. QED  BY <1>5, <2>1, ConcatProperties
<1>9. Embeds((w \o left) \o <<>>, (w \o left) \o net)
  <2>1. Embeds(<<>>, net) /\ Embeds(w \o left, w \o left)
    BY <1>5, <1>8, EmbedsSelf, EmbedsEmpty
  <2>. QED  BY <1>5, <1>8, <2>1, EmbedsConcat
<1>10. Embeds((w \o left) \o <<>>, u)
  BY <1>5, <1>6, <1>8, <1>9, EmbedsTransitive
<1>11. PartsKept'
  BY <1>1, <1>7, <1>10 DEF PartsKept, w, u
<1>. QED  BY <1>4, <1>11

\* What a line says.
LEMMA TextTurns ==
    ASSUME NEW l \in Seq(STRING)
    PROVE  /\ TextUpTo(l)[0] = <<>>
           /\ \A k \in 1 .. Len(l) : TextUpTo(l)[k] = IF l[k] = "\r" THEN TextUpTo(l)[k - 1]
                                                      ELSE Append(TextUpTo(l)[k - 1], l[k])
           /\ \A k \in 0 .. Len(l) : TextUpTo(l)[k] \in Seq(STRING)
<1> DEFINE n == Len(l)
           X == Seq(STRING)
           Turn(x, k) == IF l[k] = "\r" THEN x ELSE Append(x, l[k])
           Turns(f) == f = [k \in 0 .. n |-> IF k = 0 THEN <<>> ELSE
                                             IF l[k] = "\r" THEN f[k - 1] ELSE Append(f[k - 1], l[k])]
           g == [k \in 1 .. n |-> [x \in X |-> Turn(x, k)]]
           h == TextUpTo(l)
<1>1. n \in Nat /\ \A k \in 1 .. n : l[k] \in STRING
  BY ElementOfSeq
<1>2. h = CHOOSE f : Turns(f)
  BY DEF TextUpTo
<1>. HIDE DEF h, n
<1>3. ASSUME NEW k \in 1 .. n, NEW x \in X PROVE Turn(x, k) \in X
  <2>1. Append(x, l[k]) \in Seq(STRING)
    BY <1>1, AppendProperties
  <2>. QED  BY <2>1
<1>4. PICK r : r \in [0 .. n -> X] /\ IsLoop(r, <<>>, g, n)
  <2>1. TurnsIn(X, g, n)
    <3>. HIDE DEF Turn, X
    <3>. QED  BY <1>3 DEF TurnsIn
  <2>2. <<>> \in X
    OBVIOUS
  <2>. HIDE DEF g, X
  <2>. QED  BY <1>1, <2>1, <2>2, LoopExists
<1>5. r[0] = <<>> /\ \A k \in 1 .. n : r[k] = Turn(r[k - 1], k)
  <2>. HIDE DEF Turn
  <2>1. ASSUME NEW k \in 1 .. n PROVE r[k] = Turn(r[k - 1], k)
    <3>1. r[k] = g[k][r[k - 1]] /\ r[k - 1] \in X
      <4>. HIDE DEF g, X
      <4>. QED  BY <1>1, <1>4 DEF IsLoop
    <3>. QED  BY <3>1
  <2>. QED  BY <1>4, <2>1 DEF IsLoop
<1>6. Turns(r)
  <2>1. r = [k \in 0 .. n |-> r[k]]
    BY <1>4
  <2>2. ASSUME NEW k \in 0 .. n
        PROVE  r[k] = IF k = 0 THEN <<>> ELSE
                      IF l[k] = "\r" THEN r[k - 1] ELSE Append(r[k - 1], l[k])
    <3>1. CASE k = 0
      BY <3>1, <1>5
    <3>2. CASE k # 0
      <4>1. k \in 1 .. n
        BY <3>2
      <4>. QED  BY <3>2, <4>1, <1>5
    <3>. QED  BY <3>1, <3>2
  <2>. QED  BY <2>1, <2>2
<1>7. Turns(h)
  <2>. HIDE DEF Turns
  <2>. QED  BY <1>2, <1>6
<1>8. h[0] = <<>> /\ \A k \in 1 .. n : h[k] = Turn(h[k - 1], k)
  <2>1. \A k \in 0 .. n : h[k] = IF k = 0 THEN <<>> ELSE
                                 IF l[k] = "\r" THEN h[k - 1] ELSE Append(h[k - 1], l[k])
    BY <1>7
  <2>2. 0 \in 0 .. n /\ \A k \in 1 .. n : k \in 0 .. n /\ k # 0
    BY <1>1
  <2>. QED  BY <2>1, <2>2
<1>9. \A k \in 0 .. n : h[k] \in X
  <2> DEFINE T == {k \in 0 .. n : h[k] \in X}
  <2>. HIDE DEF X, Turn
  <2>1. 0 \in T
    <3>1. <<>> \in X /\ 0 \in 0 .. n
      BY <1>1 DEF X
    <3>. QED  BY <3>1, <1>8
  <2>2. \A k \in 1 .. n : k - 1 \in T => k \in T
    <3>1. ASSUME NEW k \in 1 .. n, k - 1 \in T PROVE k \in T
      <4>1. h[k - 1] \in X /\ h[k] = Turn(h[k - 1], k)
        BY <3>1, <1>8
      <4>2. Turn(h[k - 1], k) \in X
        BY <4>1, <1>3
      <4>. QED  BY <4>1, <4>2
    <3>. QED  BY <3>1
  <2>3. \A k \in 0 .. n : k \in T
    <3>. HIDE DEF T
    <3>. QED  BY <1>1, <2>1, <2>2, UpToInduction
  <2>. QED  BY <2>3
<1>. QED  BY <1>8, <1>9 DEF h, n

\* The first texts of some lines.
Texts(ls, k) == [i \in 1 .. k |-> Text(ls[i])]

\* A loop over the bytes of whole lines: m of them are done, and o bytes of the
\* next one were taken.
InLines(a, ls, k, m, o) ==
    /\ k = Len(FlattenSeq(SubSeq(ls, 1, m))) + o
    /\ a.done = Texts(ls, m)
    /\ o = 0 => a.line = <<>>
    /\ o > 0 => m < Len(ls) /\ o < Len(ls[m + 1]) /\ a.line = TextUpTo(ls[m + 1])[o]

AtLine(a, ls, k) ==
    a \in ScanState /\ \E m \in 0 .. Len(ls), o \in Nat : InLines(a, ls, k, m, o)

\* A line has one end, and it is the last byte.
LEMMA LineEnds ==
    ASSUME NEW l \in Lines
    PROVE  /\ l \in Seq(STRING) /\ Len(l) \in Nat /\ Len(l) > 0
           /\ \A k \in 1 .. Len(l) : l[k] \in STRING /\ (l[k] = "\n" <=> k = Len(l))
<1>1. l \in Seq(STRING) /\ Len(l) > 0 /\ l[Len(l)] = "\n" /\ \A k \in 1 .. Len(l) - 1 : l[k] # "\n"
  BY TrafficAssumption
<1>2. Len(l) \in Nat /\ \A k \in 1 .. Len(l) : l[k] \in STRING
  BY <1>1, ElementOfSeq
<1>3. ASSUME NEW k \in 1 .. Len(l) PROVE l[k] = "\n" <=> k = Len(l)
  <2>1. CASE k = Len(l)
    BY <2>1, <1>1
  <2>2. CASE k # Len(l)
    <3>1. k \in 1 .. Len(l) - 1
      BY <2>2, <1>2
    <3>. QED  BY <2>2, <3>1, <1>1
  <2>. QED  BY <2>1, <2>2
<1>. QED  BY <1>1, <1>2, <1>3

\* A byte more.
LEMMA ScanInLines ==
    ASSUME NEW ls \in Seq(Lines), NEW k \in 1 .. Len(FlattenSeq(ls)), NEW a, AtLine(a, ls, k - 1)
    PROVE  AtLine(Scan(a, FlattenSeq(ls)[k]), ls, k)
<1> DEFINE t == FlattenSeq(ls)
           P(m) == Len(FlattenSeq(SubSeq(ls, 1, m)))
           b == Scan(a, t[k])
<1>1. ls \in Seq(Seq(STRING)) /\ t \in Seq(STRING) /\ Len(t) \in Nat /\ Len(ls) \in Nat
  BY LinesAreBytes
<1>2. PICK m \in 0 .. Len(ls), o \in Nat : InLines(a, ls, k - 1, m, o)
  BY DEF AtLine
<1>3. /\ k - 1 = P(m) + o /\ a.done = Texts(ls, m)
      /\ o = 0 => a.line = <<>>
      /\ o > 0 => m < Len(ls) /\ o < Len(ls[m + 1]) /\ a.line = TextUpTo(ls[m + 1])[o]
  BY <1>2 DEF InLines
<1>4. m < Len(ls)
  <2>1. ASSUME m = Len(ls) PROVE FALSE
    <3>1. SubSeq(ls, 1, Len(ls)) = ls
      BY <1>1, SubSeqFull
    <3>2. SubSeq(ls, 1, m) = ls
      BY <2>1, <3>1
    <3>3. P(m) = Len(t)
      BY <3>2
    <3>. HIDE DEF P, t
    <3>4. k - 1 = Len(t) + o
      BY <1>3, <3>3
    <3>5. k \in 1 .. Len(t)
      BY DEF t
    <3>. QED  BY <1>1, <3>4, <3>5
  <2>. QED  BY <1>1, <2>1
<1> DEFINE l == ls[m + 1]
<1>5. m + 1 \in 1 .. Len(ls) /\ l \in Lines /\ m + 1 - 1 = m
  <2>1. m + 1 \in 1 .. Len(ls)
    BY <1>1, <1>4
  <2>. QED  BY <2>1, ElementOfSeq
<1>6. /\ l \in Seq(STRING) /\ Len(l) \in Nat /\ Len(l) > 0
      /\ \A i \in 1 .. Len(l) : l[i] \in STRING /\ (l[i] = "\n" <=> i = Len(l))
  BY <1>5, LineEnds
<1>7. o + 1 \in 1 .. Len(l)
  <2>1. CASE o = 0
    BY <2>1, <1>6
  <2>2. CASE o > 0
    BY <2>2, <1>3, <1>6
  <2>. QED  BY <2>1, <2>2
<1>8. P(m) \in Nat /\ P(m + 1) = P(m) + Len(l) /\ t[P(m) + (o + 1)] = l[o + 1]
  <2>1. ASSUME NEW x \in 1 .. Len(ls), NEW j \in 1 .. Len(ls[x])
        PROVE  P(x - 1) \in Nat /\ P(x) = P(x - 1) + Len(ls[x]) /\ t[P(x - 1) + j] = ls[x][j]
    BY <1>1, FlattenAt
  <2>. HIDE DEF P, t
  <2>2. ASSUME NEW x \in 1 .. Len(ls), NEW y, y = x - 1, NEW j \in 1 .. Len(ls[x])
        PROVE  P(y) \in Nat /\ P(x) = P(y) + Len(ls[x]) /\ t[P(y) + j] = ls[x][j]
    BY <2>1, <2>2
  <2>3. m = m + 1 - 1
    OBVIOUS
  <2>. QED  BY <1>5, <1>7, <2>2, <2>3
<1>9. k = P(m) + (o + 1) /\ t[k] = l[o + 1] /\ t[k] \in STRING
  <2>. HIDE DEF P, t
  <2>1. k \in Nat
    BY <1>1
  <2>2. k = P(m) + (o + 1)
    <3>1. k - 1 = P(m) + o /\ P(m) \in Nat
      BY <1>3, <1>8
    <3>2. \A x \in Nat : k - 1 = x + o => k = x + (o + 1)
      BY <2>1
    <3>. QED  BY <3>1, <3>2
  <2>. QED  BY <1>6, <1>7, <1>8, <2>2
<1>10. TextUpTo(l)[0] = <<>> /\ TextUpTo(l)[o + 1] = (IF l[o + 1] = "\r" THEN TextUpTo(l)[o]
                                                     ELSE Append(TextUpTo(l)[o], l[o + 1]))
  <2>1. ASSUME NEW x \in 1 .. Len(l), NEW y, y = x - 1
        PROVE  TextUpTo(l)[x] = IF l[x] = "\r" THEN TextUpTo(l)[y] ELSE Append(TextUpTo(l)[y], l[x])
    BY <1>6, <2>1, TextTurns
  <2>2. o = o + 1 - 1
    OBVIOUS
  <2>. QED  BY <1>6, <1>7, <2>1, <2>2, TextTurns
<1>11. a.line = TextUpTo(l)[o]
  BY <1>3, <1>10
<1>12. a \in ScanState /\ b \in ScanState
  BY <1>9, ScanType DEF AtLine
<1>13. /\ a = [line |-> a.line, done |-> a.done, start |-> a.start, at |-> a.at]
  BY <1>12 DEF ScanState
<1>. HIDE DEF P, t, l
<1>14. CASE o + 1 = Len(l)
  <2>1. t[k] = "\n"
    BY <1>6, <1>7, <1>9, <1>14
  <2>2. b.line = <<>> /\ b.done = Append(a.done, a.line)
    BY <2>1 DEF b, Scan
  <2>3. Text(l) = a.line
    <3>1. Len(l) - 1 = o
      BY <1>6, <1>14
    <3>. QED  BY <1>11, <3>1 DEF Text
  <2>4. Append(Texts(ls, m), Text(l)) = Texts(ls, m + 1)
    BY <1>1, <1>5 DEF Texts, l
  <2>5. k = P(m + 1) + 0
    BY <1>6, <1>8, <1>9, <1>14
  <2>6. InLines(b, ls, k, m + 1, 0)
    BY <1>3, <2>2, <2>3, <2>4, <2>5 DEF InLines, P
  <2>7. m + 1 \in 0 .. Len(ls) /\ 0 \in Nat
    BY <1>1, <1>5
  <2>. HIDE DEF b
  <2>8. AtLine(b, ls, k)
    BY <1>12, <2>6, <2>7 DEF AtLine
  <2>. QED  BY <2>8 DEF b, t
<1>15. CASE o + 1 # Len(l)
  <2>1. t[k] # "\n" /\ o + 1 < Len(l)
    BY <1>6, <1>7, <1>9, <1>15
  <2>2. b.done = a.done /\ b.line = IF t[k] = "\r" THEN a.line ELSE Append(a.line, t[k])
    BY <1>13, <2>1 DEF b, Scan
  <2>3. b.line = TextUpTo(l)[o + 1]
    BY <1>9, <1>10, <1>11, <2>2
  <2>4. InLines(b, ls, k, m, o + 1)
    <3>1. ~(o + 1 = 0)
      OBVIOUS
    <3>. HIDE DEF b
    <3>. QED  BY <1>3, <1>4, <1>9, <2>1, <2>2, <2>3, <3>1 DEF InLines, P, l
  <2>5. o + 1 \in Nat
    OBVIOUS
  <2>. HIDE DEF b
  <2>6. AtLine(b, ls, k)
    BY <1>12, <2>4, <2>5 DEF AtLine
  <2>. QED  BY <2>6 DEF b, t
<1>. QED  BY <1>14, <1>15

\* A read of lines, with nothing left of the last one, which ends with a line.
LEMMA ReadWholeLines ==
    ASSUME NEW ls \in Seq(Lines), NEW c \in 1 .. Len(FlattenSeq(ls)), FlattenSeq(ls)[c] = "\n",
           left = <<>>
    PROVE  LET chunk == SubSeq(FlattenSeq(ls), 1, c)
               a     == Scanned(chunk)
           IN  /\ Kept(left \o chunk, a) = <<>>
               /\ \E m \in 0 .. Len(ls) :
                     /\ a.done = Texts(ls, m)
                     /\ SubSeq(FlattenSeq(ls), c + 1, Len(FlattenSeq(ls)))
                          = FlattenSeq(SubSeq(ls, m + 1, Len(ls)))
<1> DEFINE t == FlattenSeq(ls)
           chunk == SubSeq(t, 1, c)
           a == Scanned(chunk)
           h == ScanUpTo(chunk, c)
<1>1. ls \in Seq(Seq(STRING)) /\ t \in Seq(STRING) /\ Len(t) \in Nat /\ Len(ls) \in Nat
      /\ c \in 0 .. Len(t) /\ c \in Nat
  BY LinesAreBytes
<1>2. chunk \in Seq(STRING) /\ Len(chunk) = c /\ \A k \in 1 .. c : chunk[k] = t[k]
  <2>. HIDE DEF t
  <2>. QED  BY <1>1, SplitSeq
<1>3. left \o chunk = chunk
  <2>. HIDE DEF chunk
  <2>. QED  BY <1>2, ConcatEmptySeq
<1>4. a = h[c]
  <2>. HIDE DEF chunk
  <2>. QED  BY <1>2, <1>3 DEF Scanned
<1>. HIDE DEF a, chunk, h
<1>5. /\ h[0] = LineStart
      /\ \A k \in 1 .. c : h[k] = Scan(h[k - 1], chunk[k])
  <2>1. c \in 0 .. Len(chunk)
    BY <1>1, <1>2
  <2>. QED  BY <1>2, <2>1, ScanTurns DEF h
<1> DEFINE T == {k \in 0 .. c : AtLine(h[k], ls, k)}
<1>6. 0 \in T
  <2>1. LineStart \in ScanState
    BY DEF LineStart, ScanState
  <2>2. SubSeq(ls, 1, 0) = <<>> /\ Len(<<>>) = 0
    OBVIOUS
  <2>3. Texts(ls, 0) = <<>>
    BY DEF Texts
  <2>4. Len(FlattenSeq(SubSeq(ls, 1, 0))) = 0
    BY <2>2, FlattenEmpty
  <2>5. InLines(LineStart, ls, 0, 0, 0)
    BY <2>3, <2>4 DEF InLines, LineStart
  <2>6. 0 \in 0 .. Len(ls) /\ 0 \in Nat /\ 0 \in 0 .. c
    BY <1>1
  <2>7. AtLine(LineStart, ls, 0)
    BY <2>1, <2>5, <2>6 DEF AtLine
  <2>. QED  BY <1>5, <2>6, <2>7
<1>7. \A k \in 1 .. c : k - 1 \in T => k \in T
  <2>1. ASSUME NEW k \in 1 .. c, k - 1 \in T PROVE k \in T
    <3>1. AtLine(h[k - 1], ls, k - 1) /\ h[k] = Scan(h[k - 1], t[k]) /\ k \in 1 .. Len(t)
      <4>. HIDE DEF t
      <4>. QED  BY <1>1, <1>2, <1>5, <2>1
    <3>2. AtLine(h[k], ls, k)
      BY <3>1, ScanInLines
    <3>. QED  BY <3>2
  <2>. QED  BY <2>1
<1>8. \A k \in 0 .. c : k \in T
  <2>. HIDE DEF T
  <2>. QED  BY <1>1, <1>6, <1>7, UpToInduction
<1>9. AtLine(a, ls, c)
  <2>1. c \in 0 .. c
    BY <1>1
  <2>. QED  BY <1>4, <1>8, <2>1
<1>10. PICK m \in 0 .. Len(ls), o \in Nat : InLines(a, ls, c, m, o)
  BY <1>9 DEF AtLine
<1> DEFINE n == Len(FlattenSeq(SubSeq(ls, 1, m)))
<1>11. o = 0
  <2>1. ASSUME o > 0 PROVE FALSE
    <3>1. c = n + o /\ m < Len(ls) /\ o < Len(ls[m + 1])
      BY <1>10, <2>1 DEF InLines
    <3>2. m + 1 \in 1 .. Len(ls) /\ m = m + 1 - 1
      BY <1>1, <3>1
    <3>3. ls[m + 1] \in Lines
      BY <3>2, ElementOfSeq
    <3>4. o \in 1 .. Len(ls[m + 1]) /\ o # Len(ls[m + 1])
      <4>1. Len(ls[m + 1]) \in Nat
        BY <3>3, LineEnds
      <4>. QED  BY <2>1, <3>1, <4>1
    <3>5. ls[m + 1][o] # "\n"
      BY <3>3, <3>4, LineEnds
    <3>6. ASSUME NEW x \in 1 .. Len(ls), m = x - 1, NEW j \in 1 .. Len(ls[x])
          PROVE  t[n + j] = ls[x][j]
      BY <1>1, <3>6, FlattenAt
    <3>. HIDE DEF n, t
    <3>7. t[n + o] = ls[m + 1][o]
      BY <3>2, <3>4, <3>6
    <3>8. t[c] = "\n"
      BY DEF t
    <3>. QED  BY <3>1, <3>5, <3>7, <3>8
  <2>. QED  BY <2>1
<1>12. a.line = <<>> /\ a.done = Texts(ls, m) /\ c = n
  <2>1. n \in Nat
    BY <1>1, FlattenSplit
  <2>. HIDE DEF n
  <2>2. a.line = <<>> /\ a.done = Texts(ls, m) /\ c = n + o
    BY <1>10, <1>11 DEF InLines, n
  <2>. QED  BY <1>11, <2>1, <2>2
<1>13. SubSeq(t, c + 1, Len(t)) = FlattenSeq(SubSeq(ls, m + 1, Len(ls)))
  BY <1>1, <1>12, FlattenSplit
<1>14. Kept(left \o chunk, a) = <<>>
  <2>1. a.start \in Nat /\ Len(a.line) = 0
    BY <1>9, <1>12 DEF AtLine, ScanState
  <2>2. a.start + Len(a.line) - 1 = a.start - 1
    BY <2>1
  <2>3. SubSeq(chunk, a.start, a.start - 1) = <<>>
    BY <1>2, <2>1
  <2>. QED  BY <1>3, <2>2, <2>3 DEF Kept
<1>. QED  BY <1>12, <1>13, <1>14 DEF a, chunk, t

\* A line that does not fit or misses its mark.
Harms(l) == ~(Len(Text(l)) < LineSize /\ ~Torn(Text(l)))

\* The first k lines were shown and the others are still to read.
InStep(k) ==
    /\ seen.shown = Texts(seen.sent, k)
    /\ net = FlattenSeq(SubSeq(seen.sent, k + 1, Len(seen.sent)))

WholeSoFar ==
    /\ ~seen.cut => left = <<>> /\ \E k \in 0 .. Len(seen.sent) : InStep(k)
    /\ state = "crashed" => seen.cut \/ \E i \in 1 .. Len(seen.sent) : Harms(seen.sent[i])

\* What a line says is a sequence of bytes.
LEMMA TextType ==
    ASSUME NEW l \in Lines
    PROVE  Text(l) \in Seq(STRING)
<1>1. l \in Seq(STRING) /\ Len(l) - 1 \in 0 .. Len(l)
  BY LineEnds
<1>. QED  BY <1>1, TextTurns DEF Text

\* A read that ends with a line, after others that did.
LEMMA EventWhole ==
    ASSUME ReadingOK, WholeSoFar, Running, NEW k \in 1 .. Len(net), EventReads(k)
    PROVE  WholeSoFar'
<1> DEFINE chunk == SubSeq(net, 1, k)
           a == Scanned(chunk)
           bad == Overruns(a) \/ \E i \in 1 .. Len(a.done) : Torn(a.done[i])
           sent == seen.sent
<1>1. /\ net' = SubSeq(net, k + 1, Len(net)) /\ left' = Kept(left \o chunk, a)
      /\ seen'.sent = sent /\ seen'.shown = seen.shown \o a.done
      /\ seen'.cut = (seen.cut \/ chunk[k] # "\n")
      /\ state' = "crashed" <=> bad
  BY DEF EventReads
<1>2. CASE seen'.cut
  BY <1>2 DEF WholeSoFar
<1>3. CASE ~seen'.cut
  <2>1. ~seen.cut /\ chunk[k] = "\n" /\ left = <<>>
    BY <1>1, <1>3 DEF WholeSoFar
  <2>2. PICK j \in 0 .. Len(sent) : InStep(j)
    BY <2>1 DEF WholeSoFar
  <2> DEFINE ls == SubSeq(sent, j + 1, Len(sent))
  <2>3. sent \in Seq(Lines) /\ Len(sent) \in Nat /\ net \in Seq(STRING)
    BY DEF ReadingOK
  <2>4. ls \in Seq(Lines) /\ Len(ls) = Len(sent) - j /\ \A i \in 1 .. Len(sent) - j : ls[i] = sent[j + i]
    <3>. HIDE DEF sent
    <3>. QED  BY <2>3, SplitSeq
  <2>5. net = FlattenSeq(ls) /\ seen.shown = Texts(sent, j)
    BY <2>2 DEF InStep
  <2>6. net[k] = "\n"
    <3>1. chunk[k] = net[k]
      BY <2>3
    <3>. QED  BY <2>1, <3>1
  <2>. HIDE DEF ls, a
  <2>7. /\ Kept(left \o chunk, a) = <<>>
        /\ \E m \in 0 .. Len(ls) :
              /\ a.done = Texts(ls, m)
              /\ SubSeq(net, k + 1, Len(net)) = FlattenSeq(SubSeq(ls, m + 1, Len(ls)))
    <3>1. k \in 1 .. Len(FlattenSeq(ls)) /\ FlattenSeq(ls)[k] = "\n"
      BY <2>5, <2>6
    <3>. QED  BY <2>1, <2>4, <2>5, <3>1, ReadWholeLines DEF a
  <2>8. PICK m \in 0 .. Len(ls) :
              /\ a.done = Texts(ls, m)
              /\ SubSeq(net, k + 1, Len(net)) = FlattenSeq(SubSeq(ls, m + 1, Len(ls)))
    BY <2>7
  <2>. HIDE DEF chunk, bad
  <2>9. left' = <<>>
    BY <1>1, <2>7
  <2>10. j + m \in 0 .. Len(sent)
    BY <2>3, <2>4
  <2>11. seen'.shown = Texts(sent, j + m)
    <3>1. Texts(sent, j) \o Texts(ls, m) = Texts(sent, j + m)
      <4> DEFINE x == Texts(sent, j)
                 y == Texts(ls, m)
                 z == Texts(sent, j + m)
      <4>1. /\ x \in Seq(Seq(STRING)) /\ Len(x) = j /\ \A i \in 1 .. j : x[i] = Text(sent[i])
        <5>1. \A i \in 1 .. j : sent[i] \in Lines
          BY <2>3, ElementOfSeq
        <5>2. \A i \in 1 .. j : Text(sent[i]) \in Seq(STRING)
          BY <5>1, TextType
        <5>. HIDE DEF sent
        <5>. QED  BY <5>2 DEF Texts
      <4>2. /\ y \in Seq(Seq(STRING)) /\ Len(y) = m /\ \A i \in 1 .. m : y[i] = Text(sent[j + i])
        <5>1. \A i \in 1 .. m : ls[i] \in Lines /\ ls[i] = sent[j + i]
          BY <2>3, <2>4, ElementOfSeq
        <5>2. \A i \in 1 .. m : Text(ls[i]) \in Seq(STRING)
          BY <5>1, TextType
        <5>. HIDE DEF sent
        <5>. QED  BY <5>1, <5>2, <2>4 DEF Texts
      <4>3. z \in Seq(Seq(STRING)) /\ Len(z) = j + m /\ \A i \in 1 .. j + m : z[i] = Text(sent[i])
        <5>1. \A i \in 1 .. j + m : sent[i] \in Lines
          BY <2>3, <2>10, ElementOfSeq
        <5>2. \A i \in 1 .. j + m : Text(sent[i]) \in Seq(STRING)
          BY <5>1, TextType
        <5>3. j + m \in Nat
          BY <2>10
        <5>. HIDE DEF sent
        <5>. QED  BY <5>2, <5>3 DEF Texts
      <4>. HIDE DEF x, y, z
      <4>4. /\ x \o y \in Seq(Seq(STRING)) /\ Len(x \o y) = j + m
            /\ \A i \in 1 .. j + m : (x \o y)[i] = IF i <= j THEN x[i] ELSE y[i - j]
        BY <4>1, <4>2, ConcatProperties
      <4>5. ASSUME NEW i \in 1 .. j + m PROVE (x \o y)[i] = z[i]
        <5>1. j \in Nat /\ m \in Nat
          OBVIOUS
        <5>2. CASE i <= j
          <6>1. i \in 1 .. j
            BY <5>1, <5>2
          <6>. QED  BY <4>1, <4>3, <4>4, <5>2, <6>1
        <5>3. CASE ~(i <= j)
          <6>1. i - j \in 1 .. m /\ j + (i - j) = i
            BY <5>1, <5>3
          <6>2. y[i - j] = Text(sent[i])
            BY <4>2, <6>1
          <6>. QED  BY <4>3, <4>4, <5>3, <6>2
        <5>. QED  BY <5>2, <5>3
      <4>6. x \o y = z
        BY <4>3, <4>4, <4>5, SeqEqual
      <4>. QED  BY <4>6 DEF x, y, z
    <3>. QED  BY <1>1, <2>5, <2>8, <3>1
  <2>12. net' = FlattenSeq(SubSeq(sent, j + m + 1, Len(sent)))
    <3>1. SubSeq(ls, m + 1, Len(sent) - j) = SubSeq(sent, j + m + 1, Len(sent))
      <4>1. m \in 0 .. Len(sent) - j
        BY <2>4
      <4>. QED  BY <2>3, <4>1, SuffixOfSuffix DEF ls
    <3>. QED  BY <1>1, <2>4, <2>8, <3>1
  <2>13. InStep(j + m)'
    BY <1>1, <2>11, <2>12 DEF InStep
  <2>14. bad => \E i \in 1 .. Len(sent) : Harms(sent[i])
    <3>1. Len(a.done) = m /\ \A i \in 1 .. m : a.done[i] = Text(sent[j + i])
      <4>1. m \in Nat /\ \A i \in 1 .. m : ls[i] = sent[j + i]
        <5>1. Len(sent) - j \in Int /\ m \in 0 .. Len(sent) - j
          BY <2>3, <2>4
        <5>2. \A i \in 1 .. m : i \in 1 .. Len(sent) - j
          BY <5>1
        <5>. QED  BY <2>4, <5>1, <5>2
      <4>. HIDE DEF sent
      <4>. QED  BY <2>8, <4>1 DEF Texts
    <3>2. LineSize \in Nat
      BY TrafficAssumption
    <3>3. ASSUME NEW i \in 1 .. m,
                 Len(a.done[i]) >= LineSize \/ Torn(a.done[i])
          PROVE  Harms(sent[j + i]) /\ j + i \in 1 .. Len(sent)
      <4>1. j + i \in 1 .. Len(sent)
        BY <2>3, <2>4
      <4>2. sent[j + i] \in Lines
        BY <2>3, <4>1, ElementOfSeq
      <4>3. Len(Text(sent[j + i])) \in Nat
        BY <4>2, TextType
      <4>4. a.done[i] = Text(sent[j + i])
        BY <3>1
      <4>5. Harms(sent[j + i])
        BY <3>2, <3>3, <4>3, <4>4 DEF Harms
      <4>. QED  BY <4>1, <4>5
    <3>4. bad => \E i \in 1 .. m : Len(a.done[i]) >= LineSize \/ Torn(a.done[i])
      BY <3>1 DEF bad, Overruns
    <3>. HIDE DEF sent
    <3>. QED  BY <3>3, <3>4
  <2>15. Len(seen'.sent) = Len(sent)
    BY <1>1
  <2>16. \E i \in 0 .. Len(seen.sent)' : InStep(i)'
    BY <2>10, <2>13, <2>15
  <2>. QED  BY <1>1, <2>9, <2>14, <2>16 DEF WholeSoFar
<1>. QED  BY <1>2, <1>3

\* A line more is one more to read.
LEMMA ServerSendsWhole ==
    ASSUME IInv, ReadingOK, WholeSoFar, ServerSends
    PROVE  WholeSoFar'
<1> DEFINE sent == seen.sent
           n == Len(sent)
<1>1. PICK l \in Lines : net' = net \o l /\ seen' = [seen EXCEPT !.sent = Append(@, l)]
                         /\ left' = left /\ Running /\ state' = state
  BY DEF ServerSends
<1>2. HistoryOK(seen) /\ sent \in Seq(Lines) /\ n \in Nat
  BY DEF IInv, SendingOK, Now, ReadingOK
<1>3. seen'.sent = Append(sent, l) /\ seen'.shown = seen.shown /\ seen'.cut = seen.cut
  BY <1>1, <1>2 DEF HistoryOK
<1>4. state' # "crashed"
  BY <1>1 DEF Running
<1>5. ASSUME ~seen.cut PROVE left' = <<>> /\ \E k \in 0 .. Len(seen'.sent) : InStep(k)'
  <2>1. PICK k \in 0 .. n : InStep(k)
    BY <1>5 DEF WholeSoFar
  <2> DEFINE ls == SubSeq(sent, k + 1, n)
             more == Append(sent, l)
  <2>. HIDE DEF sent
  <2>2. ls \in Seq(Lines) /\ Len(ls) = n - k /\ \A i \in 1 .. n - k : ls[i] = sent[k + i]
    BY <1>2, SplitSeq
  <2>3. more \in Seq(Lines) /\ Len(more) = n + 1 /\ more[n + 1] = l /\ \A i \in 1 .. n : more[i] = sent[i]
    BY <1>2
  <2>4. SubSeq(more, k + 1, n + 1) = Append(ls, l)
    <3> DEFINE x == SubSeq(more, k + 1, n + 1)
               y == Append(ls, l)
    <3>1. x \in Seq(Lines) /\ Len(x) = n + 1 - k /\ \A i \in 1 .. n + 1 - k : x[i] = more[k + i]
      <4>1. k \in 0 .. Len(more)
        BY <1>2, <2>3
      <4>. HIDE DEF more
      <4>. QED  BY <2>3, <4>1, SplitSeq
    <3>2. y \in Seq(Lines) /\ Len(y) = n - k + 1
          /\ y[n - k + 1] = l /\ \A i \in 1 .. n - k : y[i] = ls[i]
      <4>. HIDE DEF ls
      <4>. QED  BY <2>2, AppendProperties
    <3>. HIDE DEF x, y, more, ls
    <3>3. n \in Nat /\ k \in 0 .. n
      BY <1>2
    <3>4. ASSUME NEW i \in 1 .. n + 1 - k PROVE x[i] = y[i]
      <4>. HIDE DEF n
      <4>1. CASE i = n + 1 - k
        <5>1. k + i = n + 1 /\ i = n - k + 1
          BY <3>3, <4>1
        <5>. QED  BY <2>3, <3>1, <3>2, <5>1
      <4>2. CASE i # n + 1 - k
        <5>1. i \in 1 .. n - k /\ k + i \in 1 .. n
          BY <3>3, <4>2
        <5>. QED  BY <2>2, <2>3, <3>1, <3>2, <5>1
      <4>. QED  BY <4>1, <4>2
    <3>5. n + 1 - k = n - k + 1
      BY <3>3
    <3>6. x = y
      BY <3>1, <3>2, <3>4, <3>5, SeqEqual
    <3>. QED  BY <3>6 DEF x, y
  <2>5. net = FlattenSeq(ls) /\ seen.shown = Texts(sent, k)
    BY <2>1 DEF InStep, sent
  <2>. HIDE DEF ls, n
  <2>6. net' = FlattenSeq(Append(ls, l))
    <3>1. ls \in Seq(Seq(STRING)) /\ l \in Seq(STRING)
      BY <2>2, LinesAreBytes, LineEnds
    <3>. QED  BY <1>1, <2>5, <3>1, FlattenAppend
  <2>7. Texts(more, k) = Texts(sent, k)
    <3>1. \A i \in 1 .. k : more[i] = sent[i]
      BY <1>2, <2>3
    <3>. HIDE DEF more
    <3>. QED  BY <3>1 DEF Texts
  <2>8. InStep(k)'
    BY <1>3, <2>3, <2>4, <2>5, <2>6, <2>7 DEF InStep
  <2>9. k \in 0 .. Len(seen'.sent)
    BY <1>2, <1>3, <2>3
  <2>10. left' = <<>>
    BY <1>1, <1>5 DEF WholeSoFar
  <2>. QED  BY <2>8, <2>9, <2>10
<1>. QED  BY <1>3, <1>4, <1>5 DEF WholeSoFar

\* A connection that ends within nothing loses nothing.
LEMMA ReadFailsWhole ==
    ASSUME IInv, ReadingOK, WholeSoFar, ReadFails
    PROVE  WholeSoFar'
<1>1. /\ net' = <<>> /\ left' = left /\ state' \in {"running", "ended"}
      /\ seen' = [seen EXCEPT !.cut = @ \/ net # <<>> \/ left # <<>>]
  BY DEF ReadFails
<1>2. HistoryOK(seen)
  BY DEF IInv, SendingOK, Now
<1>3. seen'.sent = seen.sent /\ seen'.shown = seen.shown
      /\ seen'.cut = (seen.cut \/ net # <<>> \/ left # <<>>)
  BY <1>1, <1>2 DEF HistoryOK
<1>4. CASE seen'.cut
  BY <1>1, <1>4 DEF WholeSoFar
<1>5. CASE ~seen'.cut
  <2>1. net' = net /\ left' = left /\ ~seen.cut
    BY <1>1, <1>3, <1>5
  <2>2. state' # "crashed"
    BY <1>1
  <2>. QED  BY <1>3, <2>1, <2>2 DEF WholeSoFar, InStep
<1>. QED  BY <1>4, <1>5

-----------------------------------------------------------------------------
(***************************************************************************)
(* Theorems about what is read                                             *)
(***************************************************************************)

\* What was sent is shown once and in order, and all that was read at all.
ReadInv == ReadingOK /\ PartsKept /\ WholeSoFar

\* Nothing was sent at the start.
LEMMA InitReads == Init => ReadInv
<1>. SUFFICES ASSUME Init PROVE ReadInv
  OBVIOUS
<1>1. net = <<>> /\ left = <<>> /\ seen.sent = <<>> /\ seen.shown = <<>> /\ seen.cut = FALSE
      /\ state = "running"
  BY DEF Init, NothingSeen
<1>2. ReadingOK
  <2>1. <<>> \in Seq(STRING) /\ <<>> \in Seq(Lines) /\ <<>> \in Seq(Seq(STRING))
    OBVIOUS
  <2>. QED  BY <1>1, <2>1 DEF ReadingOK
<1>3. PartsKept
  <2>1. Embeds(<<>>, <<>>)
    <3>1. <<>> \in Seq(STRING)
      OBVIOUS
    <3>. QED  BY <3>1, EmbedsEmpty
  <2>2. (<<>> \o <<>>) \o <<>> = <<>>
    OBVIOUS
  <2>. QED  BY <1>1, <2>1, <2>2, FlattenEmpty DEF PartsKept
<1>4. WholeSoFar
  <2>1. Texts(<<>>, 0) = <<>>
    BY DEF Texts
  <2>2. SubSeq(<<>>, 0 + 1, Len(<<>>)) = <<>> /\ 0 \in 0 .. Len(<<>>)
    OBVIOUS
  <2>3. InStep(0)
    BY <1>1, <2>1, <2>2, FlattenEmpty DEF InStep
  <2>4. 0 \in 0 .. Len(seen.sent)
    BY <1>1, <2>2
  <2>. QED  BY <1>1, <2>3, <2>4 DEF WholeSoFar
<1>. QED  BY <1>2, <1>3, <1>4 DEF ReadInv

\* What leaves the input alone and does not take the program down.
LEMMA QuietReads ==
    ASSUME ReadInv, UNCHANGED <<net, left>>, Received(seen') = Received(seen),
           state' = "crashed" => state = "crashed"
    PROVE  ReadInv'
<1>1. seen'.sent = seen.sent /\ seen'.shown = seen.shown /\ seen'.cut = seen.cut
  BY DEF Received
<1>2. ReadingOK'
  BY <1>1 DEF ReadInv, ReadingOK
<1>3. PartsKept'
  BY <1>1 DEF ReadInv, PartsKept
<1>4. WholeSoFar'
  BY <1>1 DEF ReadInv, WholeSoFar, InStep
<1>. QED  BY <1>2, <1>3, <1>4 DEF ReadInv

\* No step disturbs any of it.
LEMMA NextReads ==
    ASSUME IInv, ReadInv, [Next]_vars
    PROVE  ReadInv'
<1>1. CASE CmdSay \/ CmdSend \/ IrcUpdate \/ CmdAway \/ CmdBack \/ CmdMsg \/ CmdDisconnect
  <2>1. /\ UNCHANGED <<net, left>> /\ Received(seen') = Received(seen)
        /\ Running /\ state' \in {state, "ended"}
    BY <1>1, CommandsReceiveNothing
  <2>. QED  BY <2>1, QuietReads DEF Running
<1>2. CASE Event
  <2>1. Running /\ \E k \in 1 .. Len(net) : EventReads(k)
    BY <1>2, EventReading
  <2>2. PICK k \in 1 .. Len(net) : EventReads(k)
    BY <2>1
  <2>. QED  BY <2>1, <2>2, EventType, EventParts, EventWhole DEF ReadInv
<1>3. CASE Connected \/ PeerBreaks
  BY <1>3, QuietReads DEF Connected, PeerBreaks
<1>4. CASE ReadFails
  BY <1>4, ReadFailsParts, ReadFailsWhole DEF ReadInv
<1>5. CASE ServerSends
  BY <1>5, ServerSendsParts, ServerSendsWhole DEF ReadInv
<1>6. CASE Stopped \/ UNCHANGED vars
  <2>1. UNCHANGED vars
    BY <1>6 DEF Stopped
  <2>. QED  BY <2>1, QuietReads DEF vars
<1>. QED  BY <1>1, <1>2, <1>3, <1>4, <1>5, <1>6 DEF Next

\* The second inductive invariant, about what is read, holds of every state.
THEOREM Reading == Spec => []ReadInv
<1>1. IInv /\ ReadInv /\ [Next]_vars => ReadInv'
  BY NextReads
<1>. QED  BY <1>1, InitReads, Invariance, PTL DEF Spec

\* Whatever the reads cut, what is shown is a part of what was sent: no byte is
\* processed twice or out of order.
THEOREM NothingIsInvented == Spec => []NothingInvented
<1>1. ReadInv => NothingInvented
  <2>. SUFFICES ASSUME ReadInv PROVE NothingInvented
    OBVIOUS
  <2> DEFINE w == FlattenSeq(seen.shown)
             u == FlattenSeq(seen.sent)
  <2>1. /\ left \in Seq(STRING) /\ net \in Seq(STRING) /\ w \in Seq(STRING) /\ u \in Seq(STRING)
    BY FlattenType, LinesAreBytes DEF ReadInv, ReadingOK
  <2>2. Embeds((w \o left) \o net, u)
    BY DEF ReadInv, PartsKept
  <2>. HIDE DEF w, u
  <2>3. w \o left \in Seq(STRING) /\ (w \o left) \o net \in Seq(STRING)
    <3>1. w \o left \in Seq(STRING)
      BY <2>1, ConcatProperties
    <3>. QED  BY <2>1, <3>1, ConcatProperties
  <2>4. Embeds(w, w) /\ Embeds(w, w \o left)
    BY <2>1, EmbedsSelf, EmbedsInLonger
  <2>5. Embeds(w, (w \o left) \o net)
    BY <2>1, <2>3, <2>4, EmbedsInLonger
  <2>6. Embeds(w, u)
    BY <2>1, <2>2, <2>3, <2>5, EmbedsTransitive
  <2>. QED  BY <2>1, <2>6, EmbedsIsPart DEF NothingInvented, w, u
<1>. QED  BY <1>1, Reading, PTL

\* Reads that end with lines process every line, in order and with all its
\* text, over any number of connections, and none takes the program down that
\* fits and has its marks.
THEOREM WholeLines == Spec => []WholeReadsWholeLines
<1>1. ReadInv => WholeReadsWholeLines
  <2>. SUFFICES ASSUME ReadInv, ~seen.cut,
                       \A i \in 1 .. Len(seen.sent) :
                           Len(Text(seen.sent[i])) < LineSize /\ ~Torn(Text(seen.sent[i]))
                PROVE  /\ state # "crashed" /\ left = <<>>
                       /\ \E k \in 0 .. Len(seen.sent) :
                             seen.shown = [i \in 1 .. k |-> Text(seen.sent[i])]
    BY DEF WholeReadsWholeLines
  <2>1. state # "crashed"
    BY DEF ReadInv, WholeSoFar, Harms
  <2>2. left = <<>> /\ \E k \in 0 .. Len(seen.sent) : InStep(k)
    BY DEF ReadInv, WholeSoFar
  <2>. QED  BY <2>1, <2>2 DEF InStep, Texts
<1>. QED  BY <1>1, Reading, PTL
=============================================================================
