-------------------------------- MODULE Conn --------------------------------
(***************************************************************************)
(* The life of the one account of ncic: ncic_acct.c (the account and its   *)
(* reconnection policy), ncic_irc.c (its TLS session), ncic_irc_output.c   *)
(* (the outbound queue), the session's entry in the reactor of ncic_io.c   *)
(* and the main loop of ncic.c that drives them.                           *)
(*                                                                         *)
(* The program has one thread.  Its interleavings are those of the main    *)
(* loop with the passage of time, the peer and the user, and they happen   *)
(* where the loop is between two calls or blocked in one:                  *)
(*                                                                         *)
(*   pc    the point of the main loop that runs next;                      *)
(*   busy  the blocking call it sits in: "resolve" (getaddrinfo and        *)
(*         connect, under irc_connect), "tls" (SSL_connect and the select  *)
(*         without a timeout around it), "read" (SSL_read), "write"        *)
(*         (SSL_write under irc_send), "flush" (irc_flush_outq), "bye"     *)
(*         (the quit message and SSL_shutdown of /disconnect).             *)
(*                                                                         *)
(* After the handshake irc_connected makes the socket blocking, and the    *)
(* context has SSL_MODE_AUTO_RETRY.  select() reports a single byte, but   *)
(* SSL_read goes on until it has a whole record; SSL_write goes on until   *)
(* the peer has made room.  All calls but "resolve" therefore last as long *)
(* as the peer likes, and the main loop, its timeouts included, stands     *)
(* still meanwhile.                                                        *)
(*                                                                         *)
(* screen.acct is never reset, so the account is used after it is freed.   *)
(* Reading freed memory has two outcomes here: the stale bytes are still   *)
(* there and the code goes on with them, or the program crashes.  Freeing  *)
(* it a second time always crashes (the allocator aborts).                 *)
(*                                                                         *)
(* Time.  The code compares time() with reconnect_next_try and with        *)
(* timer_last_run only, so the model keeps the two differences: acct.age   *)
(* is now - reconnect_next_try, cut off at CONNECT_TIMEOUT + 1 (beyond it  *)
(* no comparison tells two values apart), and ticked is                    *)
(* timer_last_run < now.  Time itself is unbounded.                        *)
(***************************************************************************)
EXTENDS Integers

CONSTANTS
    CONNECT_TIMEOUT,         \* the options of the same names, in seconds
    RECONNECT_INTERVAL,
    RECONNECT_MAX_INTERVAL,
    RECONNECT_TRIES,
    MaxFd,                   \* descriptors the process may have open
    MaxQueue                 \* bound: commands typed before there is a socket

ASSUME ConnAssumption ==
    /\ CONNECT_TIMEOUT \in Nat
    /\ RECONNECT_INTERVAL \in Nat
    /\ RECONNECT_MAX_INTERVAL \in Nat
    /\ RECONNECT_TRIES \in Nat
    /\ MaxFd \in Nat
    /\ MaxQueue \in Nat

VARIABLES
    pc,              \* where the main loop is
    busy,            \* the blocking call it is in, or "no"
    ticked,          \* timer_last_run < time(NULL)
    mem,             \* what screen.acct points to: nothing, an account, a freed one
    owner,           \* screen.status_win->owner
    acct,            \* the fields of struct pork_acct
    session,         \* the fields of irc_session_t and its io_source
    open,            \* descriptors open in the process
    auto_reconnect,  \* OPT_AUTO_RECONNECT
    notice           \* what the last command of this iteration told the user

vars == <<pc, busy, ticked, mem, owner, acct, session, open, auto_reconnect, notice>>

acctVars == <<mem, owner, acct>>

FDs == 1 .. MaxFd
NoSock == 0                       \* session->sock = -1

\* The calls that end when the peer does its part, if ever.
PeerCalls == {"tls", "read", "write", "flush", "bye"}

LoopPoints == {"reap", "session", "keys", "update", "second", "timers", "retry"}
PCs == LoopPoints \cup {"exited", "crashed"}

MaxAge == CONNECT_TIMEOUT + 1

\* min() of ncic_util.h.
Least(x, y) == IF x < y THEN x ELSE y

(***************************************************************************)
(* One iteration of while (1) in main: pork_io_run reaps dead sources,     *)
(* then serves the session's source and the keyboard (the screen's source  *)
(* is added first and so sits last in io_list); pork_acct_update; and once *)
(* per second timer_run and pork_acct_reconnect_all.                       *)
(***************************************************************************)
After(p) ==
    CASE p = "reap"    -> "session"
      [] p = "session" -> "keys"
      [] p = "keys"    -> "update"
      [] p = "update"  -> "second"
      [] p = "timers"  -> "retry"
      [] OTHER         -> "reap"

NewAcct ==
    [connected |-> FALSE, successful_connect |-> FALSE, disconnected |-> FALSE,
     reconnecting |-> FALSE, reconnect_tries |-> 0, age |-> MaxAge]

NewSession ==
    [sock |-> NoSock, io |-> "none", fd |-> NoSock, outq |-> 0]

Init ==
    /\ pc = "reap"
    /\ busy = "no"
    /\ ticked = FALSE
    /\ mem = "none"
    /\ owner = "null_acct"
    /\ acct = NewAcct
    /\ session = NewSession
    /\ open = {}
    /\ auto_reconnect \in BOOLEAN
    /\ notice = "none"

-----------------------------------------------------------------------------
(***************************************************************************)
(* Definitions marked "Variant" are not part of the specification: each is *)
(* the definition after it with a mistake that could be made in the code,  *)
(* and shows which property notices.                                       *)
(***************************************************************************)
\* Variant: a source that is still connecting is left in place.
IoDelReadersOnly(s) ==
    IF s.io = "write" THEN s
    ELSE [s EXCEPT !.io = IF @ = "none" THEN "none" ELSE "dead", !.fd = NoSock]

(***************************************************************************)
(* Helpers on the session: pork_io_del marks the source of the session     *)
(* dead and the reactor reaps it later; pork_io_add puts a new one in its  *)
(* place.                                                                  *)
(***************************************************************************)
IoDel(s) ==
    [s EXCEPT !.io = IF @ = "none" THEN "none" ELSE "dead", !.fd = NoSock]

IoAdd(s, cond, fd) == [s EXCEPT !.io = cond, !.fd = fd]

\* irc_free, the part of the session that is observable afterwards.
IrcFree(s) == [IoDel(s) EXCEPT !.outq = 0]

\* The descriptor socket() returns: the lowest one that is free.
NextFd(fd) == fd \in FDs \ open /\ \A other \in FDs \ open : fd <= other

\* The running handler returns to the main loop, which goes on.
Return == busy' = "no" /\ pc' = After(pc)

\* The running handler goes on into the blocking call c.
Call(c) == busy' = c /\ pc' = pc

(***************************************************************************)
(* pork_acct_del: the session is torn down (its socket is not closed), the *)
(* windows of the account go back to null_acct and the account is freed.   *)
(* screen.acct still points to it.                                         *)
(***************************************************************************)
AcctDel ==
    /\ mem = "live"
    /\ mem' = "freed"
    /\ owner' = "null_acct"
    /\ session' = IrcFree(session)
    /\ Return

(***************************************************************************)
(* pork_acct_connect_fail, called when the session's source is gone.       *)
(***************************************************************************)
Failed == [acct EXCEPT !.connected = FALSE, !.reconnecting = FALSE,
                       !.disconnected = TRUE]

\* Variant: the last attempt is not counted.
ConnectFailOneMore ==
    \/ /\ acct.reconnect_tries > RECONNECT_TRIES
       /\ acct' = Failed
       /\ AcctDel
    \/ /\ acct.reconnect_tries <= RECONNECT_TRIES
       /\ acct' = [Failed EXCEPT !.age = 0]
       /\ session' = IoDel(session)
       /\ Return
       /\ UNCHANGED <<mem, owner>>

\* Variant: the source of the failed attempt stays in the reactor.
ConnectFailKeepsSource ==
    \/ /\ acct.reconnect_tries >= RECONNECT_TRIES
       /\ acct' = Failed
       /\ AcctDel
    \/ /\ acct.reconnect_tries < RECONNECT_TRIES
       /\ acct' = [Failed EXCEPT !.age = 0]
       /\ Return
       /\ UNCHANGED <<mem, owner, session>>

\* Variant: the account stays "reconnecting" while it waits.
ConnectFailStaysBusy ==
    \/ /\ acct.reconnect_tries >= RECONNECT_TRIES
       /\ acct' = Failed
       /\ AcctDel
    \/ /\ acct.reconnect_tries < RECONNECT_TRIES
       /\ acct' = [acct EXCEPT !.connected = FALSE, !.disconnected = TRUE, !.age = 0]
       /\ session' = IoDel(session)
       /\ Return
       /\ UNCHANGED <<mem, owner>>

ConnectFail ==
    \/ /\ acct.reconnect_tries >= RECONNECT_TRIES
       /\ acct' = Failed
       /\ AcctDel
    \/ /\ acct.reconnect_tries < RECONNECT_TRIES
       /\ acct' = [Failed EXCEPT !.age =
                       0 - Least(acct.reconnect_tries * RECONNECT_INTERVAL,
                                 RECONNECT_MAX_INTERVAL)]
       /\ session' = IoDel(session)
       /\ Return
       /\ UNCHANGED <<mem, owner>>

\* Variant: the account still counts as connected after the loss.
DisconnectedStaysConnected ==
    \/ /\ ~acct.successful_connect \/ ~auto_reconnect
       /\ acct' = acct
       /\ AcctDel
    \/ /\ acct.successful_connect /\ auto_reconnect
       /\ ~acct.connected
       /\ ConnectFail
    \/ /\ acct.successful_connect /\ auto_reconnect
       /\ acct.connected
       /\ acct' = [acct EXCEPT !.disconnected = TRUE, !.reconnecting = TRUE,
                               !.reconnect_tries = 1, !.age = 0]
       /\ session' = IoDel(session)
       /\ Call("resolve")
       /\ UNCHANGED <<mem, owner>>

\* Variant: an attempt that fails ends the account at once.
DisconnectedGivesUp ==
    \/ /\ ~acct.connected \/ ~auto_reconnect
       /\ acct' = acct
       /\ AcctDel
    \/ /\ acct.connected /\ auto_reconnect
       /\ acct' = [acct EXCEPT !.connected = FALSE, !.disconnected = TRUE,
                               !.reconnecting = TRUE, !.reconnect_tries = 1,
                               !.age = 0]
       /\ session' = IoDel(session)
       /\ Call("resolve")
       /\ UNCHANGED <<mem, owner>>

(***************************************************************************)
(* pork_acct_disconnected, called after pork_io_del.  For a connected      *)
(* account it ends in pork_acct_reconnect, whose first attempt starts at   *)
(* once.                                                                   *)
(***************************************************************************)
Disconnected ==
    \/ /\ ~acct.successful_connect \/ ~auto_reconnect
       /\ acct' = acct
       /\ AcctDel
    \/ /\ acct.successful_connect /\ auto_reconnect
       /\ ~acct.connected
       /\ ConnectFail
    \/ /\ acct.successful_connect /\ auto_reconnect
       /\ acct.connected
       /\ acct' = [acct EXCEPT !.connected = FALSE, !.disconnected = TRUE,
                               !.reconnecting = TRUE, !.reconnect_tries = 1,
                               !.age = 0]
       /\ session' = IoDel(session)
       /\ Call("resolve")
       /\ UNCHANGED <<mem, owner>>

-----------------------------------------------------------------------------
(***************************************************************************)
(* The main loop                                                           *)
(***************************************************************************)
At(p) == pc = p /\ busy = "no"

\* First walk of pork_io_run: a source marked dead leaves io_list.
Reap ==
    /\ At("reap")
    /\ session' = [session EXCEPT !.io = IF @ = "dead" THEN "none" ELSE @]
    /\ notice' = "none"
    /\ Return
    /\ UNCHANGED <<ticked, acctVars, open, auto_reconnect>>

\* select() reports nothing for the session, or no key was pressed, or no
\* timer ran a command.
Quiet ==
    /\ At("session") \/ At("keys") \/ At("timers")
    /\ Return
    /\ UNCHANGED <<ticked, acctVars, session, open, auto_reconnect, notice>>

\* screen.acct is not NULL.
HasAcct == mem # "none"

\* pork_acct_update changes nothing kept here; every 300 seconds it writes a
\* keep-alive for a connected account.
Update ==
    /\ At("update")
    /\ Return \/ (HasAcct /\ acct.connected /\ Call("write"))
    /\ UNCHANGED <<ticked, acctVars, session, open, auto_reconnect, notice>>

\* "Run the timers at most once per second."
Second ==
    /\ At("second")
    /\ pc' = IF ticked THEN "timers" ELSE "reap"
    /\ ticked' = FALSE
    /\ UNCHANGED <<busy, acctVars, session, open, auto_reconnect, notice>>

-----------------------------------------------------------------------------
(***************************************************************************)
(* The session's source: irc_connected while connecting, irc_event after.  *)
(***************************************************************************)

\* irc_connected finds an error on the socket: it closes it.
TcpRefused ==
    /\ At("session") /\ session.io = "write"
    /\ open' = open \ {session.fd}
    /\ Disconnected
    /\ UNCHANGED <<ticked, auto_reconnect, notice>>

\* irc_connected, no error: the handshake starts on the new socket.
TcpEstablished ==
    /\ At("session") /\ session.io = "write"
    /\ session' = [IoDel(session) EXCEPT !.sock = session.fd]
    /\ Call("tls")
    /\ UNCHANGED <<ticked, acctVars, open, auto_reconnect, notice>>

\* irc_event, something arrived: SSL_read is called.
ServerReadable ==
    /\ At("session") /\ session.io = "read"
    /\ Call("read")
    /\ UNCHANGED <<ticked, acctVars, session, open, auto_reconnect, notice>>

(***************************************************************************)
(* naken_input_dispatch and the rest of irc_event, once SSL_read returns   *)
(***************************************************************************)

\* naken_input_dispatch = -1: end of file or an error.  The socket is not
\* closed.
ServerGone ==
    /\ busy = "read"
    /\ Disconnected
    /\ UNCHANGED <<ticked, open, auto_reconnect, notice>>

\* Variant: nothing is flushed.
ThenFlushNothing == Return

\* irc_event ends in irc_flush_outq.
ThenFlush == IF session.outq > 0 THEN Call("flush") ELSE Return

\* Input without the line that ends the login.
ServerData ==
    /\ busy = "read"
    /\ ThenFlush
    /\ UNCHANGED <<ticked, acctVars, session, open, auto_reconnect, notice>>

\* Variant: the attempts of the last loss are not forgotten.
ServerReadyKeepsTries ==
    /\ busy = "read"
    /\ acct' = [acct EXCEPT !.successful_connect = TRUE, !.connected = TRUE,
                            !.disconnected = FALSE, !.reconnecting = FALSE]
    /\ ThenFlush
    /\ UNCHANGED <<ticked, mem, owner, session, open, auto_reconnect, notice>>

\* Input with a line that starts with '@': pork_acct_connected.
ServerReady ==
    /\ busy = "read"
    /\ acct' = [acct EXCEPT !.successful_connect = TRUE, !.connected = TRUE,
                            !.disconnected = FALSE, !.reconnecting = FALSE,
                            !.reconnect_tries = 0]
    /\ ThenFlush
    /\ UNCHANGED <<ticked, mem, owner, session, open, auto_reconnect, notice>>

\* Variant: the loop goes on when the queue is empty.
FlushOneTooMany ==
    /\ busy = "flush"
    /\ session' = [session EXCEPT !.outq = @ - 1]
    /\ IF session.outq = 0 THEN Return ELSE Call("flush")
    /\ UNCHANGED <<ticked, acctVars, open, auto_reconnect, notice>>

\* irc_flush_outq, one turn of its loop in which SSL_write succeeds.  When it
\* fails the command is put back and the loop turns again, without end when the
\* connection is lost: no step.
FlushOne ==
    /\ busy = "flush"
    /\ session' = [session EXCEPT !.outq = @ - 1]
    /\ IF session.outq = 1 THEN Return ELSE Call("flush")
    /\ UNCHANGED <<ticked, acctVars, open, auto_reconnect, notice>>

-----------------------------------------------------------------------------
(***************************************************************************)
(* irc_connect and what irc_do_connect and irc_reconnect make of it        *)
(***************************************************************************)

\* irc_connect = -1: bad name, no descriptor, or connect() failed at once.
\* pork_acct_connect then gives the account up; pork_acct_reconnect returns.
ConnectFailsAtOnce ==
    /\ busy = "resolve"
    /\ \/ ~acct.reconnecting /\ acct' = acct /\ AcctDel /\ notice' = "unable to login"
       \/ acct.reconnecting /\ Return /\ UNCHANGED <<acctVars, session, notice>>
    /\ UNCHANGED <<ticked, open, auto_reconnect>>

\* irc_connect = -EINPROGRESS.
ConnectStarts ==
    /\ busy = "resolve"
    /\ \E fd \in FDs :
          /\ NextFd(fd)
          /\ open' = open \cup {fd}
          /\ session' = IoAdd(session, "write", fd)
    /\ Return
    /\ UNCHANGED <<ticked, acctVars, auto_reconnect, notice>>

\* irc_connect = 0 and irc_connected, called directly, finds no error.
ConnectsAtOnce ==
    /\ busy = "resolve"
    /\ \E fd \in FDs :
          /\ NextFd(fd)
          /\ open' = open \cup {fd}
          /\ session' = [IoDel(session) EXCEPT !.sock = fd]
    /\ Call("tls")
    /\ UNCHANGED <<ticked, acctVars, auto_reconnect, notice>>

\* irc_connect = 0, but irc_connected finds an error and closes the socket.
RefusedAtOnce ==
    /\ busy = "resolve"
    /\ \E fd \in FDs : NextFd(fd)
    /\ Disconnected
    /\ UNCHANGED <<ticked, open, auto_reconnect, notice>>

(***************************************************************************)
(* SSL_connect, under irc_connected                                        *)
(***************************************************************************)

\* It returns 0 or 1: the source is added and the login is sent, the first
\* bytes on a connection that has room for them.
TlsDone ==
    /\ busy = "tls"
    /\ session' = IoAdd(session, "read", session.sock)
    /\ Return
    /\ UNCHANGED <<ticked, acctVars, open, auto_reconnect, notice>>

\* A fatal error: a message and return.
TlsFatal ==
    /\ busy = "tls"
    /\ Return
    /\ UNCHANGED <<ticked, acctVars, session, open, auto_reconnect, notice>>

-----------------------------------------------------------------------------
(***************************************************************************)
(* Commands, typed or run by a timer                                       *)
(***************************************************************************)
AtCommand == At("keys") \/ At("timers")

\* /connect <user> <server>
CmdConnect ==
    /\ AtCommand
    /\ mem = "none"
    /\ mem' = "live"
    /\ owner' = "acct"            \* screen_bind_all_unbound
    /\ acct' = NewAcct
    /\ session' = NewSession
    /\ Call("resolve")
    /\ UNCHANGED <<ticked, open, auto_reconnect, notice>>

\* /connect <user>: irc_do_connect wants a server and fails; the account that
\* was just made is deleted.
CmdConnectNoServer ==
    /\ AtCommand
    /\ mem = "none"
    /\ mem' = "freed"
    /\ owner' = "null_acct"
    /\ acct' = NewAcct
    /\ session' = NewSession
    /\ notice' = "unable to login"
    /\ Return
    /\ UNCHANGED <<ticked, open, auto_reconnect>>

\* /connect while screen.acct is set.
CmdConnectRefused ==
    /\ AtCommand
    /\ mem # "none"
    /\ notice' = "already connected"
    /\ Return
    /\ UNCHANGED <<ticked, acctVars, session, open, auto_reconnect>>

\* /disconnect: pork_acct_del, then imwindow_bind_next_acct gives the status
\* window the account screen.acct points to.
AcctDelByUser ==
    /\ mem' = "freed"
    /\ owner' = "acct"
    /\ session' = IrcFree(session)
    /\ Return
    /\ UNCHANGED <<ticked, acct, open, auto_reconnect, notice>>

\* There is no connection, or one that was lost: what is written fails at once.
CmdDisconnect ==
    /\ AtCommand
    /\ owner = "acct" /\ mem = "live"
    /\ session.io # "read"
    /\ AcctDelByUser

\* pork_signoff writes the quit message and irc_free calls SSL_shutdown.
CmdDisconnectSays ==
    /\ AtCommand
    /\ owner = "acct" /\ mem = "live"
    /\ session.io = "read"
    /\ Call("bye")
    /\ UNCHANGED <<ticked, acctVars, session, open, auto_reconnect, notice>>

ByeSaid == busy = "bye" /\ AcctDelByUser

\* A command that sends (/ctcp, /ping, /whowas, /away) before there is a socket:
\* irc_send queues it.
CmdSendQueued ==
    /\ AtCommand
    /\ owner = "acct" /\ mem = "live"
    /\ session.sock = NoSock
    /\ session.outq < MaxQueue
    /\ session' = [session EXCEPT !.outq = @ + 1]
    /\ Return
    /\ UNCHANGED <<ticked, acctVars, open, auto_reconnect, notice>>

\* With a socket irc_send writes; on a connection that was lost that fails at
\* once, and nothing is kept.
CmdSend ==
    /\ AtCommand
    /\ owner = "acct" /\ mem = "live"
    /\ session.sock # NoSock
    /\ IF session.io = "read" THEN Call("write") ELSE Return
    /\ UNCHANGED <<ticked, acctVars, session, open, auto_reconnect, notice>>

\* SSL_write returns; irc_send keeps nothing and at most prints an error.
WriteDone ==
    /\ busy = "write"
    /\ Return
    /\ UNCHANGED <<ticked, acctVars, session, open, auto_reconnect, notice>>

\* /set AUTO_RECONNECT
CmdSetAutoReconnect ==
    /\ AtCommand
    /\ auto_reconnect' = ~auto_reconnect
    /\ Return
    /\ UNCHANGED <<ticked, acctVars, session, open, notice>>

\* /quit or a signal: pork_exit.
CmdQuit ==
    /\ AtCommand
    /\ mem # "freed"
    /\ pc' = "exited"
    /\ UNCHANGED <<busy, ticked, acctVars, session, open, auto_reconnect, notice>>

-----------------------------------------------------------------------------
(***************************************************************************)
(* pork_acct_reconnect_all                                                 *)
(***************************************************************************)
\* Variant: the attempt under way is not looked at.
RetryDueAlways == HasAcct /\ acct.disconnected /\ acct.age > 0

RetryDue ==
    HasAcct /\ acct.disconnected /\ ~acct.reconnecting /\ acct.age > 0

\* Variant: the timeout is noticed in the one second in which it expires.
TimedOutExactly ==
    HasAcct /\ ~RetryDue /\ acct.reconnecting /\ acct.age = CONNECT_TIMEOUT

TimedOut ==
    HasAcct /\ ~RetryDue /\ acct.reconnecting /\ acct.age > CONNECT_TIMEOUT

\* pork_acct_reconnect
Retry ==
    /\ At("retry") /\ RetryDue
    /\ ~acct.connected
    /\ acct' = [acct EXCEPT !.reconnecting = TRUE, !.reconnect_tries = @ + 1]
    /\ Call("resolve")
    /\ UNCHANGED <<ticked, mem, owner, session, open, auto_reconnect, notice>>

\* irc_connect_abort closes session->sock, which is the socket of the last
\* session that got as far as TLS; then pork_acct_connect_fail.
RetryTimeout ==
    /\ At("retry") /\ TimedOut
    /\ open' = open \ {session.sock}
    /\ ConnectFail
    /\ UNCHANGED <<ticked, auto_reconnect, notice>>

RetryNothing ==
    /\ At("retry")
    /\ ~RetryDue \/ acct.connected
    /\ ~TimedOut
    /\ Return
    /\ UNCHANGED <<ticked, acctVars, session, open, auto_reconnect, notice>>

-----------------------------------------------------------------------------
(***************************************************************************)
(* The environment                                                         *)
(***************************************************************************)
Running == pc \in LoopPoints

\* A second passes.
Tick ==
    /\ Running
    /\ ticked' = TRUE
    /\ acct' = [acct EXCEPT !.age = Least(@ + 1, MaxAge)]
    /\ UNCHANGED <<pc, busy, mem, owner, session, open, auto_reconnect, notice>>

\* The code that runs next dereferences (or frees again) the freed account:
\* pork_acct_update and pork_acct_reconnect_all through screen.acct, the
\* keyboard handler and the commands through the window's owner, pork_exit,
\* a source that an attempt on the freed session registered, and what runs
\* when the blocking call of such an attempt returns.
TouchFreed ==
    /\ mem = "freed" /\ Running
    /\ \/ busy # "no"
       \/ pc \in {"update", "retry", "keys", "timers"}
       \/ pc = "session" /\ session.io \in {"write", "read"}
    /\ pc' = "crashed"
    /\ UNCHANGED <<busy, ticked, acctVars, session, open, auto_reconnect, notice>>

\* The process is gone.
Stopped == ~Running /\ UNCHANGED vars

-----------------------------------------------------------------------------
Loop == Reap \/ Quiet \/ Update \/ Second
SessionEvent == TcpRefused \/ TcpEstablished \/ ServerReadable
PeerActs == ServerGone \/ ServerData \/ ServerReady \/ FlushOne \/ WriteDone \/ ByeSaid
ConnectCall == ConnectFailsAtOnce \/ ConnectStarts \/ ConnectsAtOnce \/ RefusedAtOnce
Tls == TlsDone \/ TlsFatal
Command ==
    \/ CmdConnect \/ CmdConnectNoServer \/ CmdConnectRefused
    \/ CmdDisconnect \/ CmdDisconnectSays
    \/ CmdSendQueued \/ CmdSend \/ CmdSetAutoReconnect \/ CmdQuit
ReconnectAll == Retry \/ RetryTimeout \/ RetryNothing

Next ==
    \/ Loop \/ SessionEvent \/ PeerActs \/ ConnectCall \/ Tls \/ Command
    \/ ReconnectAll \/ Tick \/ TouchFreed \/ Stopped

Spec == Init /\ [][Next]_vars

(***************************************************************************)
(* Fairness: between two blocking calls the loop keeps turning (select()   *)
(* has a timeout of 0.6s), time passes, and the resolver and connect() on  *)
(* a non-blocking socket return.  Nothing is assumed of the peer: Tls and  *)
(* PeerActs need never happen, so every call of PeerCalls may be the last  *)
(* thing the program does.                                                 *)
(***************************************************************************)
LoopTurns ==
    /\ busy = "no"
    /\ Loop \/ SessionEvent \/ Command \/ ReconnectAll \/ TouchFreed

Fairness == WF_vars(LoopTurns) /\ WF_vars(ConnectCall) /\ WF_vars(Tick)

FairSpec == Spec /\ Fairness

-----------------------------------------------------------------------------
(***************************************************************************)
(* Types                                                                   *)
(***************************************************************************)
AcctType ==
    [connected : BOOLEAN, successful_connect : BOOLEAN, disconnected : BOOLEAN,
     reconnecting : BOOLEAN, reconnect_tries : Nat, age : Int]

SessionType ==
    [sock : FDs \cup {NoSock}, io : {"none", "write", "read", "dead"},
     fd : FDs \cup {NoSock}, outq : Nat]

\* The type invariant.
TypeOK ==
    /\ pc \in PCs
    /\ busy \in {"no", "resolve"} \cup PeerCalls
    /\ ticked \in BOOLEAN
    /\ mem \in {"none", "live", "freed"}
    /\ owner \in {"null_acct", "acct"}
    /\ acct \in AcctType
    /\ session \in SessionType
    /\ open \subseteq FDs
    /\ auto_reconnect \in BOOLEAN
    /\ notice \in {"none", "already connected", "unable to login"}

(***************************************************************************)
(* Safety                                                                  *)
(***************************************************************************)
Live == mem = "live"
Polled == session.io \in {"write", "read"}

\* An account that says it is connected is served: the reactor reads from its
\* session's own socket, so that the loss of the connection is noticed.
ConnectedIsServed ==
    Live /\ acct.connected =>
        session.io = "read" /\ session.fd = session.sock /\ ~acct.disconnected

\* While an account waits for its next attempt nothing is in flight: the
\* reactor holds no source of an earlier attempt whose answer could still
\* arrive and be taken for the next one's.
NothingInFlightWhileWaiting ==
    Live /\ acct.disconnected /\ ~acct.reconnecting =>
        ~Polled /\ busy = "no"

\* The reactor never waits on a descriptor that has been closed, in spite of
\* irc_connect_abort closing a descriptor remembered from an earlier session.
PolledIsOpen == Polled => session.fd \in open

\* irc_flush_outq drains what was typed before there was a socket before the
\* account can lose a connection it had: no reconnect sends old commands.
QueueDrainedOnceConnected ==
    Live /\ acct.successful_connect /\ busy # "flush" => session.outq = 0

\* The account never makes more attempts than RECONNECT_TRIES, or the one
\* that pork_acct_disconnected makes unconditionally.
TriesBounded ==
    Live => \/ acct.reconnect_tries <= RECONNECT_TRIES
            \/ acct.reconnect_tries = 1

(***************************************************************************)
(* The abstract account: phases and attempts                               *)
(***************************************************************************)
Phase ==
    CASE mem = "none"                -> "idle"
      [] mem = "freed"               -> "gone"
      [] Live /\ acct.connected      -> "online"
      [] Live /\ ~acct.connected /\ acct.reconnecting  -> "retrying"
      [] Live /\ ~acct.connected /\ ~acct.reconnecting /\ acct.disconnected -> "waiting"
      [] OTHER                       -> "connecting"

Tries == IF Live THEN acct.reconnect_tries ELSE 0

Abstract == INSTANCE Lifecycle WITH phase <- Phase, tries <- Tries

\* The account keeps the promise of Lifecycle: its phases follow one another
\* as they should, whatever the session, the reactor and the user do.
ImplementsLifecycle == Abstract!Spec

(***************************************************************************)
(* Action properties                                                       *)
(***************************************************************************)

\* With AUTO_RECONNECT on, an account that was once connected is given up by
\* pork_acct_connect_fail alone, after RECONNECT_TRIES failed attempts in a
\* row; otherwise only a command deletes it.
GivenUpWhenExhausted ==
    [][ (Live /\ mem' = "freed" /\ ~AtCommand /\ busy # "bye"
           /\ acct.successful_connect /\ auto_reconnect)
        => /\ ~acct.connected
           /\ acct.reconnect_tries >= RECONNECT_TRIES ]_vars

\* An attempt is never begun while the last one may still be answered: when
\* the source of the session is replaced by that of a new socket, the old one
\* is no longer polled.
NoOverlappingAttempts ==
    [][ (session'.io = "write" /\ session.fd # session'.fd) => ~Polled ]_vars

(***************************************************************************)
(* Liveness                                                                *)
(***************************************************************************)

\* The peer lets go: no call that waits for it lasts for ever.
PeerLetsGo == []<>(busy \notin PeerCalls)

\* Every reconnect attempt ends, by success, failure or CONNECT_TIMEOUT, unless
\* the peer holds the loop for ever: however late or often it answers, in the
\* handshake, within a record or with lines that do not end the login.
AttemptResolves ==
    PeerLetsGo => ((Live /\ acct.reconnecting) ~> (~Live \/ ~acct.reconnecting \/ ~Running))

\* A lost connection is followed by a new one or by the end of the account,
\* unless the peer holds the loop for ever.
LossResolves ==
    PeerLetsGo =>
        ((Live /\ acct.disconnected) ~> (~Live \/ acct.connected \/ ~Running))

(***************************************************************************)
(* What the documentation, a comment or a message says and the code does   *)
(* not do                                                                  *)
(***************************************************************************)

\* doc/help/main/connect: "This command connects the account with the given
\* user name."  /connect is turned down as "already connected" only while
\* there is an account.
ConnectRefusedOnlyWhenConnected ==
    [][ AtCommand /\ notice # "already connected" /\ notice' = "already connected"
        => Live ]_vars

\* doc/help/main/set, CONNECT_TIMEOUT: "Number of seconds after which
\* connections will be aborted if they haven't completed successfully."  A
\* first attempt that is over (no call, no source) ends the account.
FirstAttemptEnds ==
    (Live /\ ~acct.successful_connect /\ ~Polled /\ busy = "no") ~> (~Live \/ ~Running)
=============================================================================
