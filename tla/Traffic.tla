------------------------------ MODULE Traffic -------------------------------
(***************************************************************************)
(* What goes over the connection: the outbound queue (ncic_irc_output.c,   *)
(* ncic_queue.c), the input that is cut into lines (ncic_irc_input.c), and *)
(* the away state, which is kept here and told to the server (ncic_msg.c). *)
(* They meet in irc_event, which reads and then flushes, and in a session  *)
(* whose socket, queue and input buffer outlive each connection.           *)
(*                                                                         *)
(*   link      the connection: "down", "up", or "broken" and not noticed   *)
(*   sock      TRUE once session->sock was set; it is never reset          *)
(*   live      the account exists and connected                            *)
(*   outq      session->outq                                               *)
(*   wire      what was handed to SSL_write and not refused, ever          *)
(*   net       bytes that arrived and were not read                        *)
(*   left      session->input_buf up to input_offset                       *)
(*   away      acct->away_msg # NULL;  tables: live autoreply tables       *)
(*   state     "running", "stuck" in irc_flush_outq, "ended" with the      *)
(*             account, or "crashed"                                       *)
(*   seen      history: see below                                          *)
(*                                                                         *)
(* Bytes are "@" (opens the line that ends the login), "[" (opens a line   *)
(* that has a closing mark, as +[12] and -[12] do), "]" (that mark), "\r"  *)
(* (skipped, as \0 is), "\n", and any other.  Whether a lost connection is *)
(* tried again is Conn's business: here both happen.                       *)
(***************************************************************************)
EXTENDS Integers, Sequences, SequencesExt

CONSTANTS
    Lines,         \* lines the server may send, each ending in "\n"
    BufSize,       \* sizeof(session->input_buf)
    LineSize,      \* sizeof(input)
    RemovesAway,   \* what opt_get_bool(OPT_SEND_REMOVES_AWAY) returns
    MaxLines,      \* bound: lines the server sends
    MaxCommands    \* bound: commands given

ASSUME TrafficAssumption ==
    /\ Lines \subseteq Seq(STRING)
    /\ \A l \in Lines : Len(l) > 0 /\ l[Len(l)] = "\n" /\ \A k \in 1 .. Len(l) - 1 : l[k] # "\n"
    /\ BufSize \in Nat /\ LineSize \in Nat /\ LineSize > 1
    /\ RemovesAway \in BOOLEAN
    /\ MaxLines \in Nat /\ MaxCommands \in Nat

VARIABLES link, sock, live, outq, wire, net, left, away, tables, state, seen

(***************************************************************************)
(* History: lines sent and processed; cut, a read ended within a line;     *)
(* queued, the number of commands that went to the queue; overtook, a      *)
(* command was written while others waited; untold, the away state changed *)
(* without the server; backs, the times coming back failed; commands, all. *)
(***************************************************************************)
NothingSeen ==
    [sent |-> <<>>, shown |-> <<>>, cut |-> FALSE, queued |-> 0, overtook |-> FALSE,
     untold |-> FALSE, backs |-> 0, commands |-> 0]

vars == <<link, sock, live, outq, wire, net, left, away, tables, state, seen>>

Init ==
    /\ link = "down" /\ sock = FALSE /\ live = FALSE
    /\ outq = <<>> /\ wire = <<>>
    /\ net = <<>> /\ left = <<>>
    /\ away = FALSE /\ tables = 0
    /\ state = "running"
    /\ seen = NothingSeen

Running == state = "running"

-----------------------------------------------------------------------------
(* Sending.                                                                *)

\* Variant: the queue is a stack.
QueueAddHead(q, c) == <<c>> \o q

QueueAdd(q, c) == Append(q, c)

\* SSL_write: written; -1; or 0, which irc_send's callers take for success.
SendResults ==
    IF ~sock THEN {"queued"} ELSE IF link = "up" THEN {"written"} ELSE {"failed", "ignored"}

\* A command that waited has a number.
Now == [outq |-> outq, wire |-> wire, seen |-> seen]

\* irc_send.
IrcSend(c, kind, res) ==
    CASE res = "queued" ->
           [c EXCEPT !.outq = QueueAdd(@, [kind |-> kind, n |-> c.seen.queued + 1]),
                     !.seen.queued = @ + 1]
      [] res = "written" ->
           [c EXCEPT !.wire = Append(@, [kind |-> kind, n |-> 0]),
                     !.seen.overtook = @ \/ c.outq # <<>>]
      [] OTHER ->
           [c EXCEPT !.seen.untold = @ \/ kind \in {"away", "back"}]

MayCommand == Running /\ seen.commands < MaxCommands

\* The command is done.
Commanded(c) ==
    /\ outq' = c.outq /\ wire' = c.wire
    /\ seen' = [c.seen EXCEPT !.commands = @ + 1]

Said ==
    /\ \E res \in SendResults : Commanded(IrcSend(Now, "say", res))
    /\ UNCHANGED <<link, sock, live, net, left, away, tables, state>>

\* /ctcp, /ping and /whowas send a line whether the account is connected or not.
CmdSay == MayCommand /\ Said

\* /send in the status window, /me, /mode and /notice do not: chat_send_msg and
\* the others.  Who is away stays away.
CmdSend == MayCommand /\ live /\ Said

\* irc_update, every 300 seconds.
IrcUpdate == MayCommand /\ live /\ Said

\* The autoreply tables after pork_set_away: the old one goes, a new one comes.
TablesWhenAway == IF away THEN tables ELSE tables + 1

\* /away with a message: pork_set_away.  A message too long for the line is not
\* sent, but the user is away.
CmdAway ==
    /\ MayCommand
    /\ away' = TRUE /\ tables' = TablesWhenAway
    /\ \/ \E res \in SendResults : Commanded(IrcSend(Now, "away", res))
       \/ Commanded([Now EXCEPT !.seen.untold = TRUE])
    /\ UNCHANGED <<link, sock, live, net, left, state>>

\* Variant: the table goes although the server was not told.
TablesWhenBackAlways(res) == tables - 1

\* pork_set_back, after the message is gone: a failure leaves the table.
TablesWhenBack(res) == IF res = "failed" THEN tables ELSE tables - 1

\* Variant: who is back does not say so.
BackSilent(c, res) ==
    /\ away' = FALSE /\ tables' = TablesWhenBack(res)
    /\ Commanded(c)

\* pork_set_back, as the last thing of a command.
Back(c, res) ==
    /\ away' = FALSE /\ tables' = TablesWhenBack(res)
    /\ Commanded(IrcSend([c EXCEPT !.seen.backs = IF res = "failed" THEN @ + 1 ELSE @],
                         "back", res))

\* /away without a message.
CmdBack == \E res \in SendResults :
    /\ MayCommand /\ away
    /\ Back(Now, res)
    /\ UNCHANGED <<link, sock, live, net, left, state>>

\* /msg, and /send in a conversation: pork_msg_send.  A message that is not refused brings the
\* user back, if the option says so.
CmdMsg == \E res, res2 \in SendResults :
    /\ MayCommand /\ live
    /\ IF res # "failed" /\ away /\ RemovesAway
       THEN Back(IrcSend(Now, "say", res), res2)
       ELSE Commanded(IrcSend(Now, "say", res)) /\ UNCHANGED <<away, tables>>
    /\ UNCHANGED <<link, sock, live, net, left, state>>

\* Variant: the loop leaves the last one it wrote.
FlushedOneShort(q, n) == IF n = 0 THEN q ELSE SubSeq(q, n, Len(q))

\* irc_flush_outq: the queue when n of its commands are written.
Flushed(q, n) == SubSeq(q, n + 1, Len(q))

-----------------------------------------------------------------------------
(* Reading.                                                                *)

LineStart == [line |-> <<>>, done |-> <<>>, start |-> 1, at |-> 1]

\* Variant: "\r" is taken for text.
ScanKeepsReturn(a, c) ==
    IF c = "\n" THEN [line |-> <<>>, done |-> Append(a.done, a.line), start |-> a.at + 1, at |-> a.at + 1]
    ELSE [a EXCEPT !.line = Append(@, c), !.at = @ + 1]

\* One byte of the loop in naken_input_dispatch.
Scan(a, c) ==
    IF c = "\n" THEN [line |-> <<>>, done |-> Append(a.done, a.line), start |-> a.at + 1, at |-> a.at + 1]
    ELSE [a EXCEPT !.line = IF c = "\r" THEN @ ELSE Append(@, c), !.at = @ + 1]

\* Variant: input_offset is not reset when a read ends with a line.
KeptStaleOffset(bytes, a) ==
    IF a.line = <<>> THEN SubSeq(bytes, 1, Len(left))
    ELSE SubSeq(bytes, a.start, a.start + Len(a.line) - 1)

\* What is kept for the next read: as many bytes as the line that is begun has
\* without the skipped ones, from where it begins.
Kept(bytes, a) == SubSeq(bytes, a.start, a.start + Len(a.line) - 1)

\* The loop after each of the first n bytes.
ScanUpTo(bytes, n) ==
    LET after[k \in 0 .. n] == IF k = 0 THEN LineStart ELSE Scan(after[k - 1], bytes[k])
    IN  after

\* The scan begins at what the last read left, and goes on for as many bytes
\* as this one brought.
Scanned(chunk) == ScanUpTo(left \o chunk, Len(chunk))[Len(chunk)]

\* A line that misses its closing mark: naken_process_input and naken_tokenize
\* follow the NULL that strchr returned.
Torn(line) == line # <<>> /\ line[1] = "[" /\ ~ \E k \in 1 .. Len(line) : line[k] = "]"
Opens(line) == line # <<>> /\ line[1] = "@"

\* The line is longer than the array it is copied to.
Overruns(a) == \E k \in 1 .. Len(a.done) : Len(a.done[k]) >= LineSize

\* irc_event: naken_input_dispatch with what SSL_read returned, then the flush.
\* n commands are written before the peer breaks, if it does: then the loop
\* of irc_flush_outq does not end.
Event == \E k \in 1 .. Len(net) : \E n \in 0 .. Len(outq) :
    LET chunk == SubSeq(net, 1, k)
        a     == Scanned(chunk)
        bad   == Overruns(a) \/ \E i \in 1 .. Len(a.done) : Torn(a.done[i])
    IN  /\ Running /\ link # "down"
        /\ k <= BufSize - Len(left) - 1
        /\ net' = SubSeq(net, k + 1, Len(net))
        /\ left' = Kept(left \o chunk, a)
        /\ live' = (live \/ \E i \in 1 .. Len(a.done) : Opens(a.done[i]))
        /\ seen' = [seen EXCEPT !.shown = @ \o a.done, !.cut = @ \/ chunk[k] # "\n"]
        /\ IF bad THEN /\ n = 0 /\ state' = "crashed" /\ UNCHANGED <<link, outq, wire>>
           ELSE /\ link = "broken" => n = 0
                /\ wire' = wire \o SubSeq(outq, 1, n)
                /\ outq' = Flushed(outq, n)
                /\ state' = IF n = Len(outq) THEN "running" ELSE "stuck"
                /\ link' = IF n = Len(outq) THEN link ELSE "broken"
        /\ UNCHANGED <<sock, away, tables>>

-----------------------------------------------------------------------------
(* The connection.                                                         *)

\* irc_connected and a handshake that succeeds: what was kept of the last
\* connection's input stays.  A fatal error leaves a socket and no source.
Connected ==
    /\ Running /\ link = "down"
    /\ sock' = TRUE
    /\ link' \in {"up", "down"}
    /\ UNCHANGED <<live, outq, wire, net, left, away, tables, state, seen>>

\* The peer goes away; what it sent before can still be read.
PeerBreaks ==
    /\ Running /\ link = "up" /\ link' = "broken"
    /\ UNCHANGED <<sock, live, outq, wire, net, left, away, tables, state, seen>>

\* SSL_read returns 0 or -1, because the peer is gone or no room is left to
\* read into: the account connects again, or goes with all it has.
ReadFails ==
    /\ Running
    /\ link = "broken" \/ (link = "up" /\ BufSize - Len(left) - 1 = 0)
    /\ link' = "down" /\ live' = FALSE
    /\ state' \in {"running", "ended"}
    /\ net' = <<>>
    /\ seen' = [seen EXCEPT !.cut = @ \/ net # <<>> \/ left # <<>>]
    /\ UNCHANGED <<sock, outq, wire, left, away, tables>>

\* /disconnect and /quit: pork_signoff takes the source away, says ".q" to a
\* server that is connected, and the account is freed.
CmdDisconnect ==
    /\ MayCommand
    /\ state' = "ended" /\ link' = "down" /\ live' = FALSE
    /\ \E res \in SendResults : Commanded(IF live THEN IrcSend(Now, "say", res) ELSE Now)
    /\ UNCHANGED <<sock, net, left, away, tables>>

\* The server sends a line.
ServerSends == \E l \in Lines :
    /\ Running /\ link = "up" /\ Len(seen.sent) < MaxLines
    /\ net' = net \o l
    /\ seen' = [seen EXCEPT !.sent = Append(@, l)]
    /\ UNCHANGED <<link, sock, live, outq, wire, left, away, tables, state>>

Stopped == ~Running /\ UNCHANGED vars

Next ==
    \/ CmdSay \/ CmdSend \/ IrcUpdate \/ CmdAway \/ CmdBack \/ CmdMsg \/ CmdDisconnect
    \/ Event \/ Connected \/ PeerBreaks \/ ReadFails \/ ServerSends
    \/ Stopped

Spec == Init /\ [][Next]_vars

-----------------------------------------------------------------------------
TypeOK ==
    /\ link \in {"down", "up", "broken"} /\ sock \in BOOLEAN /\ live \in BOOLEAN
    /\ state \in {"running", "stuck", "ended", "crashed"}
    /\ away \in BOOLEAN /\ tables \in Nat

\* What waited for the connection is written once and in the order it was
\* given, whatever is written around it and however often the connection goes
\* between: nothing of the queue is lost while the account lives.
QueuedOnceInOrder ==
    LET done   == seen.queued - Len(outq)
        waited == {k \in DOMAIN wire : wire[k].n # 0}
    IN  /\ done >= 0
        /\ {wire[k].n : k \in waited} = 1 .. done
        /\ \A j, k \in waited : j < k => wire[j].n < wire[k].n
        /\ \A k \in DOMAIN outq : outq[k].n = done + k

\* Once a connected session has been read from, nothing waits any more: a
\* command overtakes others only between the handshake and the first input.
OvertakesOnlyBeforeLogin == [][seen'.overtook # seen.overtook => ~live]_vars

\* Who reads the commands s in this order takes the user to be away.
ToldAway(s) ==
    \E k \in DOMAIN s : s[k].kind = "away" /\ \A j \in DOMAIN s : j > k => s[j].kind # "back"

\* The server knows whether the user is away, unless a line that said so could
\* not be sent or one overtook another: then /away, given before there was a
\* connection, is written after the /away that took it back.
ServerKnowsAway ==
    ~seen.untold /\ ~seen.overtook => (away <=> ToldAway(wire \o outq))

\* There is an autoreply table while the user is away, and one more for every
\* time that coming back failed: only those are lost.
TablesAccounted == tables = seen.backs + (IF away THEN 1 ELSE 0)

\* What a line says up to each of its bytes, and as a whole.
TextUpTo(l) ==
    LET text[k \in 0 .. Len(l)] ==
          IF k = 0 THEN <<>> ELSE IF l[k] = "\r" THEN text[k - 1] ELSE Append(text[k - 1], l[k])
    IN  text
Text(l) == TextUpTo(l)[Len(l) - 1]

\* If the server's lines fit and have their marks and no read ends within one,
\* every line is processed, in order, with all its text, and none takes the
\* program down: also after a new connection.
WholeReadsWholeLines ==
    ~seen.cut /\ (\A i \in 1 .. Len(seen.sent) :
                      Len(Text(seen.sent[i])) < LineSize /\ ~Torn(Text(seen.sent[i]))) =>
        /\ state # "crashed"
        /\ left = <<>>
        /\ \E k \in 0 .. Len(seen.sent) :
              seen.shown = [i \in 1 .. k |-> Text(seen.sent[i])]

\* How much of s is found, in order, among the first bytes of t, and whether
\* all of it is.
FoundNext(s, n, c) == IF n < Len(s) /\ s[n + 1] = c THEN n + 1 ELSE n
FoundUpTo(s, t) ==
    LET found[k \in 0 .. Len(t)] == IF k = 0 THEN 0 ELSE FoundNext(s, found[k - 1], t[k])
    IN  found
IsPart(s, t) == FoundUpTo(s, t)[Len(t)] = Len(s)

\* Whatever the reads cut, no byte is processed twice or out of order: what is
\* shown is a part of what was sent.
NothingInvented == IsPart(FlattenSeq(seen.shown), FlattenSeq(seen.sent))
=============================================================================
