----------------------------- MODULE ConnProofs -----------------------------
(***************************************************************************)
(* Proofs about Conn, for every value of its constants: the type           *)
(* invariant, the safety invariants and the action properties that the     *)
(* runs of MCConn check on a small instance, and that every step of Conn   *)
(* is a step of Lifecycle or changes nothing there.                        *)
(*                                                                         *)
(* The safety invariants are not inductive.  What carries them is IInv:    *)
(* which facts about the session hold inside each blocking call (CallInv), *)
(* how its socket and source relate (SourceInv), which combinations of the *)
(* account's flags occur (FlagInv), and when there is something to flush   *)
(* (QueueInv).                                                             *)
(***************************************************************************)
EXTENDS Conn, TLAPS

Waiting == acct.disconnected /\ ~acct.reconnecting

CallInv ==
    /\ busy \in {"resolve", "tls"} => ~Polled
    /\ busy = "tls" => session.sock \in open
    /\ busy = "read" => session.io = "read"
    /\ busy = "bye" => Live
    /\ Waiting => ~Polled /\ busy \notin {"resolve", "tls"}
    /\ Live /\ Waiting => busy = "no"

SourceInv ==
    /\ Polled => session.fd \in open
    /\ session.io = "read" => session.fd = session.sock

FlagInv ==
    Live =>
        /\ acct.connected =>
             /\ session.io = "read" /\ ~acct.disconnected /\ ~acct.reconnecting
             /\ acct.reconnect_tries = 0
        /\ acct.successful_connect /\ ~acct.connected => acct.disconnected
        /\ busy = "resolve" /\ ~acct.reconnecting => ~acct.successful_connect
        /\ Waiting => acct.reconnect_tries < RECONNECT_TRIES
        /\ acct.reconnect_tries <= RECONNECT_TRIES \/ acct.reconnect_tries = 1

QueueInv ==
    /\ busy = "flush" => session.outq > 0
    /\ Live /\ acct.successful_connect =>
         /\ session.sock # NoSock
         /\ busy # "flush" => session.outq = 0

IInv == TypeOK /\ CallInv /\ SourceInv /\ FlagInv /\ QueueInv

-----------------------------------------------------------------------------
(***************************************************************************)
(* Lemmas                                                                  *)
(***************************************************************************)

\* The main loop goes from each of its points to another one.
LEMMA AfterType == \A p : After(p) \in LoopPoints
  BY DEF After, LoopPoints

\* The wait before an attempt is an integer whatever the options are.
LEMMA WaitType ==
    ASSUME NEW t \in Nat
    PROVE  0 - Least(t * RECONNECT_INTERVAL, RECONNECT_MAX_INTERVAL) \in Int
<1>1. t * RECONNECT_INTERVAL \in Int
  BY ConnAssumption
<1>. QED
  BY <1>1, ConnAssumption DEF Least

\* A session that is torn down or whose source is deleted has its type and is
\* no longer polled; its socket stays, its queue only when it is not freed.
LEMMA IoDelType ==
    ASSUME session \in SessionType
    PROVE  /\ IoDel(session) \in SessionType
           /\ IoDel(session).io \in {"none", "dead"}
           /\ IoDel(session).sock = session.sock
           /\ IoDel(session).outq = session.outq
           /\ IrcFree(session) \in SessionType
           /\ IrcFree(session).io \in {"none", "dead"}
  BY DEF IoDel, IrcFree, SessionType, NoSock
\* A new account and a new session have their types.
LEMMA NewTypes == NewAcct \in AcctType /\ NewSession \in SessionType
<1>1. MaxAge \in Int
  BY ConnAssumption DEF MaxAge
<1>. QED
  BY <1>1 DEF NewAcct, NewSession, AcctType, SessionType, NoSock

\* The types of the numbers in the account and in the session.
LEMMA FieldTypes ==
    ASSUME TypeOK
    PROVE  /\ acct.reconnect_tries \in Nat
           /\ acct.age \in Int
           /\ session.outq \in Nat
           /\ session.sock \in FDs \cup {NoSock}
<1>1. acct.reconnect_tries \in Nat /\ acct.age \in Int
  BY DEF TypeOK, AcctType
<1>2. session.outq \in Nat /\ session.sock \in FDs \cup {NoSock}
  BY DEF TypeOK, SessionType
<1>. QED
  BY <1>1, <1>2

\* Descriptors are not NoSock.
LEMMA FDsAreSocks == NoSock \notin FDs
  BY DEF FDs, NoSock

\* Updates with values of the right types keep the types.
LEMMA AgeUpdate ==
    ASSUME acct \in AcctType, NEW i \in Int
    PROVE  [Failed EXCEPT !.age = i] \in AcctType /\ [acct EXCEPT !.age = i] \in AcctType
  BY DEF AcctType, Failed

LEMMA TriesUpdate ==
    ASSUME acct \in AcctType, NEW n \in Nat
    PROVE  [acct EXCEPT !.reconnecting = TRUE, !.reconnect_tries = n] \in AcctType
  BY DEF AcctType

LEMMA QueueUpdate ==
    ASSUME session \in SessionType, NEW n \in Nat
    PROVE  [session EXCEPT !.outq = n] \in SessionType
  BY DEF SessionType

\* The account after its connection is lost.
LEMMA LossUpdate ==
    ASSUME acct \in AcctType, NEW n \in Nat, NEW i \in Int
    PROVE  [acct EXCEPT !.connected = FALSE, !.disconnected = TRUE,
                        !.reconnecting = TRUE, !.reconnect_tries = n,
                        !.age = i] \in AcctType
  BY DEF AcctType

\* pork_acct_connect_fail and pork_acct_disconnected keep the account's type.
LEMMA ConnectFailType == TypeOK /\ ConnectFail => acct' \in AcctType
<1>. SUFFICES ASSUME TypeOK, ConnectFail PROVE acct' \in AcctType
  OBVIOUS
<1>1. acct.reconnect_tries \in Nat
  BY FieldTypes
<1>2. Failed \in AcctType
  BY DEF TypeOK, AcctType, Failed
<1>. QED
  BY <1>1, <1>2, AgeUpdate, WaitType DEF ConnectFail, TypeOK

LEMMA DisconnectedType == TypeOK /\ Disconnected => acct' \in AcctType
<1>. SUFFICES ASSUME TypeOK, Disconnected PROVE acct' \in AcctType
  OBVIOUS
<1>1. CASE acct' = acct
  BY <1>1 DEF TypeOK
<1>2. CASE ConnectFail
  BY <1>2, ConnectFailType
<1>3. CASE acct' = [acct EXCEPT !.connected = FALSE, !.disconnected = TRUE,
                                !.reconnecting = TRUE, !.reconnect_tries = 1,
                                !.age = 0]
  <2>1. 1 \in Nat /\ 0 \in Int
    OBVIOUS
  <2>. QED
    BY <1>3, <2>1, LossUpdate DEF TypeOK
<1>. QED
  BY <1>1, <1>2, <1>3 DEF Disconnected

-----------------------------------------------------------------------------
(***************************************************************************)
(* The invariant is inductive.  One lemma per part of Next.                *)
(***************************************************************************)

\* The invariant holds when the program starts.
LEMMA InitIInv == Init => IInv
<1>. SUFFICES ASSUME Init PROVE IInv
  OBVIOUS
<1>1. TypeOK
  BY NewTypes DEF Init, TypeOK, PCs, LoopPoints
<1>2. CallInv /\ SourceInv
  BY DEF Init, CallInv, SourceInv, Waiting, Polled, NewAcct, NewSession
<1>3. FlagInv /\ QueueInv
  BY DEF Init, FlagInv, QueueInv, Live
<1>. QED
  BY <1>1, <1>2, <1>3 DEF IInv

\* A step that touches neither the account nor the session, and at most leaves
\* a blocking call or has the program read from or write to a live connection,
\* keeps it.
LEMMA QuietStep ==
    ASSUME IInv, UNCHANGED <<mem, acct, session, open>>,
           \/ busy' = busy
           \/ busy' = "no" /\ busy # "flush"
           \/ busy = "no" /\ busy' = "write" /\ (Live => session.io = "read")
           \/ busy = "no" /\ busy' = "read" /\ session.io = "read"
           \/ busy = "no" /\ busy' = "bye" /\ session.io = "read" /\ Live,
           TypeOK'
    PROVE  IInv'
<1>1. CallInv' /\ SourceInv'
  BY DEF IInv, CallInv, SourceInv, Waiting, Polled, Live
<1>2. FlagInv'
  BY DEF IInv, FlagInv, Waiting, Live
<1>3. QueueInv'
  BY DEF IInv, QueueInv, Live
<1>. QED
  BY <1>1, <1>2, <1>3 DEF IInv

\* Kept by the main loop.
LEMMA LoopStep == IInv /\ Loop => IInv'
<1>. SUFFICES ASSUME IInv, Loop PROVE IInv'
  OBVIOUS
<1>1. CASE Reap
  <2>1. session' \in SessionType
    BY <1>1 DEF Reap, IInv, TypeOK, SessionType
  <2>2. TypeOK'
    BY <1>1, AfterType, <2>1 DEF IInv, TypeOK, PeerCalls, PCs, LoopPoints, Reap, Return,
       Call, At, AtCommand, acctVars
  <2>3. CallInv'
    BY <1>1 DEF IInv, CallInv, Live, Waiting, Polled, TypeOK, AcctType, SessionType,
       SourceInv, Reap, Return, Call, At, AtCommand, acctVars
  <2>4. SourceInv'
    BY <1>1 DEF IInv, SourceInv, Polled, CallInv, TypeOK, AcctType,
       SessionType, Reap, Return, Call, At, AtCommand, acctVars
  <2>5. FlagInv'
    BY <1>1 DEF IInv, FlagInv, Live, Waiting, Polled, CallInv, TypeOK,
       AcctType, SessionType, Reap, Return, Call, At, AtCommand, acctVars
  <2>6. QueueInv'
    BY <1>1 DEF IInv, QueueInv, Live, TypeOK, AcctType, SessionType, NoSock,
       SourceInv, CallInv, FlagInv, Polled, Reap, Return, Call, At, AtCommand,
       acctVars
  <2>. QED
    BY <2>2, <2>3, <2>4, <2>5, <2>6 DEF IInv
<1>2. CASE Quiet
  <2>1. TypeOK'
    BY <1>2, AfterType DEF IInv, TypeOK, PeerCalls, PCs, LoopPoints, Quiet, Return, Call,
       At, AtCommand, acctVars
  <2>. QED
    BY <1>2, <2>1, QuietStep DEF Quiet, Return, Call, At, AtCommand, acctVars
<1>3. CASE Update
  <2>1. TypeOK'
    BY <1>3, AfterType DEF IInv, TypeOK, PeerCalls, PCs, LoopPoints, Update, Return,
       Call, At, AtCommand, acctVars
  <2>2. Live /\ acct.connected => session.io = "read"
    BY DEF IInv, FlagInv
  <2>. QED
    BY <1>3, <2>1, <2>2, QuietStep DEF Update, Return, Call, At, acctVars
<1>4. CASE Second
  <2>1. TypeOK'
    BY <1>4, AfterType DEF IInv, TypeOK, PeerCalls, PCs, LoopPoints, Second, Return,
       Call, At, AtCommand, acctVars
  <2>. QED
    BY <1>4, <2>1, QuietStep DEF Second, Return, Call, At, AtCommand, acctVars
<1>. QED
  BY <1>1, <1>2, <1>3, <1>4 DEF Loop

\* Kept by what the session's source reports.
LEMMA SessionEventStep == IInv /\ SessionEvent => IInv'
<1>. SUFFICES ASSUME IInv, SessionEvent PROVE IInv'
  OBVIOUS
<1>1. CASE TcpRefused
  <2>1. acct' \in AcctType
    BY <1>1, DisconnectedType DEF TcpRefused, IInv
  <2>2. session' \in SessionType
    BY <1>1, IoDelType DEF TcpRefused, Disconnected, ConnectFail, AcctDel,
       IInv, TypeOK, acctVars
  <2>3. TypeOK'
    BY <1>1, AfterType, <2>1, <2>2 DEF IInv, TypeOK, PeerCalls, PCs, LoopPoints,
       TcpRefused, Return, Call, At, AtCommand, acctVars, Disconnected,
       ConnectFail, AcctDel
  <2>4. CallInv'
    BY <1>1, IoDelType DEF IInv, CallInv, Live, Waiting, Polled, TypeOK, AcctType,
       SessionType, SourceInv, TcpRefused, Return, Call, At, AtCommand,
       acctVars, Disconnected, ConnectFail, AcctDel, Failed
  <2>5. SourceInv'
    BY <1>1, IoDelType DEF IInv, SourceInv, Polled, CallInv, TypeOK, AcctType,
       SessionType, TcpRefused, Return, Call, At, AtCommand, acctVars,
       Disconnected, ConnectFail, AcctDel, Failed
  <2>6. FlagInv'
    BY <1>1, IoDelType DEF IInv, FlagInv, Live, Waiting, Polled, CallInv,
       TypeOK, AcctType, SessionType, TcpRefused, Return, Call, At, AtCommand,
       acctVars, Disconnected, ConnectFail, AcctDel, Failed
  <2>7. QueueInv'
    BY ZenonT(60), <1>1, IoDelType DEF IInv, QueueInv, Live, TypeOK, AcctType,
       SessionType, NoSock, SourceInv, CallInv, FlagInv, Polled, TcpRefused,
       Return, Call, At, AtCommand, acctVars, Disconnected, ConnectFail,
       AcctDel, Failed
  <2>. QED
    BY <2>3, <2>4, <2>5, <2>6, <2>7 DEF IInv
<1>2. CASE TcpEstablished
  <2>1. session' \in SessionType
    BY <1>2, IoDelType DEF TcpEstablished, SourceInv, Polled, IInv, TypeOK,
       SessionType
  <2>2. TypeOK'
    BY <1>2, AfterType, <2>1 DEF IInv, TypeOK, PeerCalls, PCs, LoopPoints,
       TcpEstablished, Return, Call, At, AtCommand, acctVars
  <2>3. CallInv'
    BY <1>2, IoDelType DEF IInv, CallInv, Live, Waiting, Polled, TypeOK, AcctType,
       SessionType, SourceInv, TcpEstablished, Return, Call, At, AtCommand,
       acctVars
  <2>4. SourceInv'
    BY <1>2, IoDelType DEF IInv, SourceInv, Polled, CallInv, TypeOK, AcctType,
       SessionType, TcpEstablished, Return, Call, At, AtCommand, acctVars
  <2>5. FlagInv'
    BY <1>2, IoDelType DEF IInv, FlagInv, Live, Waiting, Polled, CallInv,
       TypeOK, AcctType, SessionType, TcpEstablished, Return, Call, At,
       AtCommand, acctVars
  <2>6. QueueInv'
    <3>1. session'.sock = session.fd /\ session'.outq = session.outq
      BY <1>2, IoDelType DEF TcpEstablished, IInv, TypeOK, SessionType
    <3>2. session.fd # NoSock
      BY <1>2, FDsAreSocks DEF SourceInv, Polled, TcpEstablished, IInv, TypeOK
    <3>. QED
      BY <1>2, <3>1, <3>2 DEF QueueInv, TcpEstablished, Call, Live, IInv, At, acctVars
  <2>. QED
    BY <2>2, <2>3, <2>4, <2>5, <2>6 DEF IInv
<1>3. CASE ServerReadable
  <2>1. TypeOK'
    BY <1>3, AfterType DEF IInv, TypeOK, PeerCalls, PCs, LoopPoints, ServerReadable, Return,
       Call, At, AtCommand, acctVars
  <2>. QED
    BY <1>3, <2>1, QuietStep DEF ServerReadable, Return, Call, At, AtCommand, acctVars
<1>. QED
  BY <1>1, <1>2, <1>3 DEF SessionEvent

\* Kept by the ends of the calls that wait for the peer.
LEMMA PeerActsStep == IInv /\ PeerActs => IInv'
<1>. SUFFICES ASSUME IInv, PeerActs PROVE IInv'
  OBVIOUS
<1>1. CASE ServerGone
  <2>1. acct' \in AcctType
    BY <1>1, DisconnectedType DEF ServerGone, IInv
  <2>2. session' \in SessionType
    BY <1>1, IoDelType DEF ServerGone, Disconnected, ConnectFail, AcctDel,
       IInv, TypeOK, acctVars
  <2>3. TypeOK'
    BY <1>1, AfterType, <2>1, <2>2 DEF IInv, TypeOK, PeerCalls, PCs, LoopPoints,
       ServerGone, Return, Call, At, AtCommand, acctVars, Disconnected,
       ConnectFail, AcctDel
  <2>4. CallInv'
    BY <1>1, IoDelType DEF IInv, CallInv, Live, Waiting, Polled, TypeOK, AcctType,
       SessionType, SourceInv, ServerGone, Return, Call, At, AtCommand,
       acctVars, Disconnected, ConnectFail, AcctDel, Failed
  <2>5. SourceInv'
    BY <1>1, IoDelType DEF IInv, SourceInv, Polled, CallInv, TypeOK, AcctType,
       SessionType, ServerGone, Return, Call, At, AtCommand, acctVars,
       Disconnected, ConnectFail, AcctDel, Failed
  <2>6. FlagInv'
    BY ZenonT(60), <1>1, IoDelType DEF IInv, FlagInv, Live, Waiting, Polled, CallInv,
       TypeOK, AcctType, SessionType, ServerGone, Return, Call, At, AtCommand,
       acctVars, Disconnected, ConnectFail, AcctDel, Failed
  <2>7. QueueInv'
    BY ZenonT(60), <1>1, IoDelType DEF IInv, QueueInv, Live, TypeOK, AcctType,
       SessionType, NoSock, SourceInv, CallInv, FlagInv, Polled, ServerGone,
       Return, Call, At, AtCommand, acctVars, Disconnected, ConnectFail,
       AcctDel, Failed
  <2>. QED
    BY <2>3, <2>4, <2>5, <2>6, <2>7 DEF IInv
<1>2. CASE ServerData
  <2>1. TypeOK'
    BY <1>2, AfterType DEF IInv, TypeOK, PeerCalls, PCs, LoopPoints, ServerData, Return,
       Call, At, AtCommand, acctVars, ThenFlush
  <2>2. CallInv'
    BY <1>2 DEF IInv, CallInv, Live, Waiting, Polled, TypeOK, AcctType, SessionType,
       SourceInv, ServerData, Return, Call, At, AtCommand, acctVars, ThenFlush
  <2>3. SourceInv'
    BY <1>2 DEF IInv, SourceInv, Polled, CallInv, TypeOK, AcctType,
       SessionType, ServerData, Return, Call, At, AtCommand, acctVars,
       ThenFlush
  <2>4. FlagInv'
    BY <1>2 DEF IInv, FlagInv, Live, Waiting, Polled, CallInv, TypeOK,
       AcctType, SessionType, ServerData, Return, Call, At, AtCommand,
       acctVars, ThenFlush
  <2>5. QueueInv'
    BY <1>2 DEF IInv, QueueInv, Live, TypeOK, AcctType, SessionType, NoSock,
       SourceInv, CallInv, FlagInv, Polled, ServerData, Return, Call, At,
       AtCommand, acctVars, ThenFlush
  <2>. QED
    BY <2>1, <2>2, <2>3, <2>4, <2>5 DEF IInv
<1>3. CASE ServerReady
  <2>1. acct' \in AcctType
    BY <1>3 DEF ServerReady, IInv, TypeOK, AcctType
  <2>2. TypeOK'
    BY <1>3, AfterType, <2>1 DEF IInv, TypeOK, PeerCalls, PCs, LoopPoints, ServerReady,
       Return, Call, At, AtCommand, acctVars, ThenFlush
  <2>3. CallInv'
    BY <1>3 DEF IInv, CallInv, Live, Waiting, Polled, TypeOK, AcctType, SessionType,
       SourceInv, ServerReady, Return, Call, At, AtCommand, acctVars,
       ThenFlush
  <2>4. SourceInv'
    BY <1>3 DEF IInv, SourceInv, Polled, CallInv, TypeOK, AcctType,
       SessionType, ServerReady, Return, Call, At, AtCommand, acctVars,
       ThenFlush
  <2>5. FlagInv'
    <3>1. /\ acct'.connected /\ ~acct'.disconnected /\ ~acct'.reconnecting
          /\ acct'.reconnect_tries = 0
          /\ session' = session /\ busy' # "resolve"
      BY <1>3 DEF ServerReady, IInv, TypeOK, AcctType, ThenFlush, Return, Call
    <3>2. acct'.reconnect_tries <= RECONNECT_TRIES
      BY <3>1, ConnAssumption
    <3>. QED
      BY <1>3, <3>1, <3>2 DEF FlagInv, ServerReady, Waiting, Live, IInv, CallInv
  <2>6. QueueInv'
    <3>1. session.outq \in Nat /\ session.sock # NoSock
      BY <1>3, FieldTypes, FDsAreSocks DEF SourceInv, CallInv, Polled, ServerReady, IInv, TypeOK
    <3>2. /\ session' = session
          /\ session.outq > 0 => busy' = "flush"
          /\ ~(session.outq > 0) => busy' # "flush"
      BY <1>3 DEF ServerReady, ThenFlush, Return, Call
    <3>3. session.outq > 0 \/ session.outq = 0
      BY <3>1
    <3>. QED
      BY <1>3, <3>1, <3>2, <3>3 DEF QueueInv
  <2>. QED
    BY <2>2, <2>3, <2>4, <2>5, <2>6 DEF IInv
<1>4. CASE FlushOne
  <2>1. session' \in SessionType
    <3>1. session.outq \in Nat /\ session.outq > 0
      BY <1>4, FieldTypes DEF FlushOne, QueueInv, IInv
    <3>2. session.outq - 1 \in Nat
      BY <3>1
    <3>. QED
      BY <1>4, <3>2, QueueUpdate DEF FlushOne, IInv, TypeOK
  <2>2. TypeOK'
    BY <1>4, AfterType, <2>1 DEF IInv, TypeOK, PeerCalls, PCs, LoopPoints, FlushOne,
       Return, Call, At, AtCommand, acctVars
  <2>3. CallInv'
    BY <1>4 DEF IInv, CallInv, Live, Waiting, Polled, TypeOK, AcctType, SessionType,
       SourceInv, FlushOne, Return, Call, At, AtCommand, acctVars
  <2>4. SourceInv'
    BY <1>4 DEF IInv, SourceInv, Polled, CallInv, TypeOK, AcctType,
       SessionType, FlushOne, Return, Call, At, AtCommand, acctVars
  <2>5. FlagInv'
    BY <1>4 DEF IInv, FlagInv, Live, Waiting, Polled, CallInv, TypeOK,
       AcctType, SessionType, FlushOne, Return, Call, At, AtCommand, acctVars
  <2>6. QueueInv'
    <3>1. session.outq \in Nat /\ session.outq > 0
      BY <1>4, FieldTypes DEF FlushOne, QueueInv, IInv
    <3>2. session'.outq = session.outq - 1 /\ session'.sock = session.sock
      BY <1>4 DEF FlushOne, IInv, TypeOK, SessionType
    <3>3. CASE session.outq = 1
      <4>1. busy' = "no" /\ session'.outq = 0
        BY <1>4, <3>2, <3>3 DEF FlushOne, Return
      <4>. QED
        BY <1>4, <4>1, <3>2 DEF FlushOne, QueueInv, Live, IInv, acctVars
    <3>4. CASE session.outq # 1
      <4>1. busy' = "flush"
        BY <1>4, <3>4 DEF FlushOne, Call
      <4>2. session'.outq > 0
        BY <3>1, <3>2, <3>4
      <4>. QED
        BY <1>4, <4>1, <4>2, <3>2 DEF FlushOne, QueueInv, Live, IInv, acctVars
    <3>. QED
      BY <3>3, <3>4
  <2>. QED
    BY <2>2, <2>3, <2>4, <2>5, <2>6 DEF IInv
<1>5. CASE WriteDone
  <2>1. TypeOK'
    BY <1>5, AfterType DEF IInv, TypeOK, PeerCalls, PCs, LoopPoints, WriteDone, Return,
       Call, At, AtCommand, acctVars
  <2>. QED
    BY <1>5, <2>1, QuietStep DEF WriteDone, Return, Call, At, AtCommand, acctVars
<1>6. CASE ByeSaid
  <2>1. session' \in SessionType
    BY <1>6, IoDelType DEF ByeSaid, AcctDelByUser, IInv, TypeOK, acctVars, AcctDelByUser
  <2>2. TypeOK'
    BY <1>6, AfterType, <2>1 DEF IInv, TypeOK, PeerCalls, PCs, LoopPoints, ByeSaid,
       Return, Call, At, AtCommand, acctVars, AcctDelByUser
  <2>3. CallInv'
    BY <1>6, IoDelType DEF IInv, CallInv, Live, Waiting, Polled, TypeOK, AcctType,
       SessionType, SourceInv, ByeSaid, Return, Call, At, AtCommand,
       acctVars, AcctDelByUser
  <2>4. SourceInv'
    BY <1>6, IoDelType DEF IInv, SourceInv, Polled, CallInv, TypeOK, AcctType,
       SessionType, ByeSaid, Return, Call, At, AtCommand, acctVars, AcctDelByUser
  <2>5. FlagInv'
    BY <1>6, IoDelType DEF IInv, FlagInv, Live, Waiting, Polled, CallInv,
       TypeOK, AcctType, SessionType, ByeSaid, Return, Call, At,
       AtCommand, acctVars, AcctDelByUser
  <2>6. QueueInv'
    BY <1>6, IoDelType DEF IInv, QueueInv, Live, TypeOK, AcctType,
       SessionType, NoSock, SourceInv, CallInv, FlagInv, Polled,
       ByeSaid, Return, Call, At, AtCommand, acctVars, AcctDelByUser
  <2>. QED
    BY <2>2, <2>3, <2>4, <2>5, <2>6 DEF IInv
<1>. QED
  BY <1>1, <1>2, <1>3, <1>4, <1>5, <1>6 DEF PeerActs

\* Kept by the end of irc_connect.
LEMMA ConnectCallStep == IInv /\ ConnectCall => IInv'
<1>. SUFFICES ASSUME IInv, ConnectCall PROVE IInv'
  OBVIOUS
<1>1. CASE ConnectFailsAtOnce
  <2>1. session' \in SessionType
    BY <1>1, IoDelType DEF ConnectFailsAtOnce, AcctDel, IInv, TypeOK, acctVars
  <2>2. TypeOK'
    BY <1>1, AfterType, <2>1 DEF IInv, TypeOK, PeerCalls, PCs, LoopPoints,
       ConnectFailsAtOnce, Return, Call, At, AtCommand, acctVars, AcctDel
  <2>3. CallInv'
    BY <1>1, IoDelType DEF IInv, CallInv, Live, Waiting, Polled, TypeOK, AcctType,
       SessionType, SourceInv, ConnectFailsAtOnce, Return, Call, At,
       AtCommand, acctVars, AcctDel
  <2>4. SourceInv'
    BY <1>1, IoDelType DEF IInv, SourceInv, Polled, CallInv, TypeOK, AcctType,
       SessionType, ConnectFailsAtOnce, Return, Call, At, AtCommand, acctVars,
       AcctDel
  <2>5. FlagInv'
    BY <1>1, IoDelType DEF IInv, FlagInv, Live, Waiting, Polled, CallInv,
       TypeOK, AcctType, SessionType, ConnectFailsAtOnce, Return, Call, At,
       AtCommand, acctVars, AcctDel
  <2>6. QueueInv'
    BY <1>1, IoDelType DEF IInv, QueueInv, Live, TypeOK, AcctType,
       SessionType, NoSock, SourceInv, CallInv, FlagInv, Polled,
       ConnectFailsAtOnce, Return, Call, At, AtCommand, acctVars, AcctDel
  <2>. QED
    BY <2>2, <2>3, <2>4, <2>5, <2>6 DEF IInv
<1>2. CASE ConnectStarts
  <2>1. session' \in SessionType
    BY <1>2 DEF ConnectStarts, NextFd, IoAdd, IInv, TypeOK, SessionType
  <2>2. TypeOK'
    BY <1>2, AfterType, <2>1 DEF IInv, TypeOK, PeerCalls, PCs, LoopPoints, ConnectStarts,
       Return, Call, At, AtCommand, acctVars, NextFd, IoAdd
  <2>3. CallInv'
    BY <1>2 DEF IInv, CallInv, Live, Waiting, Polled, TypeOK, AcctType, SessionType,
       SourceInv, ConnectStarts, Return, Call, At, AtCommand, acctVars,
       NextFd, IoAdd
  <2>4. SourceInv'
    BY <1>2 DEF IInv, SourceInv, Polled, CallInv, TypeOK, AcctType,
       SessionType, ConnectStarts, Return, Call, At, AtCommand, acctVars,
       NextFd, IoAdd
  <2>5. FlagInv'
    BY <1>2 DEF IInv, FlagInv, Live, Waiting, Polled, CallInv, TypeOK,
       AcctType, SessionType, ConnectStarts, Return, Call, At, AtCommand,
       acctVars, NextFd, IoAdd
  <2>6. QueueInv'
    BY <1>2 DEF IInv, QueueInv, Live, TypeOK, AcctType, SessionType, NoSock,
       SourceInv, CallInv, FlagInv, Polled, ConnectStarts, Return, Call, At,
       AtCommand, acctVars, NextFd, IoAdd
  <2>. QED
    BY <2>2, <2>3, <2>4, <2>5, <2>6 DEF IInv
<1>3. CASE ConnectsAtOnce
  <2>1. session' \in SessionType
    BY <1>3, IoDelType DEF ConnectsAtOnce, IInv, TypeOK, SessionType
  <2>2. TypeOK'
    BY <1>3, AfterType, <2>1 DEF IInv, TypeOK, PeerCalls, PCs, LoopPoints,
       ConnectsAtOnce, Return, Call, At, AtCommand, acctVars, NextFd
  <2>3. CallInv'
    BY <1>3, IoDelType DEF IInv, CallInv, Live, Waiting, Polled, TypeOK, AcctType,
       SessionType, SourceInv, ConnectsAtOnce, Return, Call, At, AtCommand,
       acctVars, NextFd
  <2>4. SourceInv'
    BY <1>3, IoDelType DEF IInv, SourceInv, Polled, CallInv, TypeOK, AcctType,
       SessionType, ConnectsAtOnce, Return, Call, At, AtCommand, acctVars,
       NextFd
  <2>5. FlagInv'
    BY <1>3, IoDelType DEF IInv, FlagInv, Live, Waiting, Polled, CallInv,
       TypeOK, AcctType, SessionType, ConnectsAtOnce, Return, Call, At,
       AtCommand, acctVars, NextFd
  <2>6. QueueInv'
    <3>1. PICK fd \in FDs : session' = [IoDel(session) EXCEPT !.sock = fd]
      BY <1>3 DEF ConnectsAtOnce
    <3>2. session'.sock = fd /\ session'.outq = session.outq
      BY <1>3, <3>1, IoDelType DEF IInv, TypeOK, SessionType
    <3>. QED
      BY <1>3, <3>2, FDsAreSocks DEF QueueInv, ConnectsAtOnce, Call, Live, IInv, acctVars
  <2>. QED
    BY <2>2, <2>3, <2>4, <2>5, <2>6 DEF IInv
<1>4. CASE RefusedAtOnce
  <2>1. acct' \in AcctType
    BY <1>4, DisconnectedType DEF RefusedAtOnce, IInv
  <2>2. session' \in SessionType
    BY <1>4, IoDelType DEF RefusedAtOnce, Disconnected, ConnectFail, AcctDel,
       NextFd, IInv, TypeOK, acctVars
  <2>3. TypeOK'
    BY <1>4, AfterType, <2>1, <2>2 DEF IInv, TypeOK, PeerCalls, PCs, LoopPoints,
       RefusedAtOnce, Return, Call, At, AtCommand, acctVars, Disconnected,
       ConnectFail, AcctDel, NextFd
  <2>4. CallInv'
    BY <1>4, IoDelType DEF IInv, CallInv, Live, Waiting, Polled, TypeOK, AcctType,
       SessionType, SourceInv, RefusedAtOnce, Return, Call, At, AtCommand,
       acctVars, Disconnected, ConnectFail, AcctDel, Failed, NextFd
  <2>5. SourceInv'
    BY <1>4, IoDelType DEF IInv, SourceInv, Polled, CallInv, TypeOK, AcctType,
       SessionType, RefusedAtOnce, Return, Call, At, AtCommand, acctVars,
       Disconnected, ConnectFail, AcctDel, Failed, NextFd
  <2>6. FlagInv'
    BY <1>4, IoDelType DEF IInv, FlagInv, Live, Waiting, Polled, CallInv,
       TypeOK, AcctType, SessionType, RefusedAtOnce, Return, Call, At,
       AtCommand, acctVars, Disconnected, ConnectFail, AcctDel, Failed, NextFd
  <2>7. QueueInv'
    BY ZenonT(60), <1>4, IoDelType DEF IInv, QueueInv, Live, TypeOK, AcctType,
       SessionType, NoSock, SourceInv, CallInv, FlagInv, Polled,
       RefusedAtOnce, Return, Call, At, AtCommand, acctVars, Disconnected,
       ConnectFail, AcctDel, Failed, NextFd
  <2>. QED
    BY <2>3, <2>4, <2>5, <2>6, <2>7 DEF IInv
<1>. QED
  BY <1>1, <1>2, <1>3, <1>4 DEF ConnectCall

\* Kept by the end of SSL_connect.
LEMMA TlsStep == IInv /\ Tls => IInv'
<1>. SUFFICES ASSUME IInv, Tls PROVE IInv'
  OBVIOUS
<1>1. CASE TlsDone
  <2>1. session' \in SessionType
    BY <1>1 DEF TlsDone, IoAdd, IInv, TypeOK, SessionType
  <2>2. TypeOK'
    BY <1>1, AfterType, <2>1 DEF IInv, TypeOK, PeerCalls, PCs, LoopPoints, TlsDone,
       Return, Call, At, AtCommand, acctVars, IoAdd
  <2>3. CallInv'
    BY <1>1 DEF IInv, CallInv, Live, Waiting, Polled, TypeOK, AcctType, SessionType,
       SourceInv, TlsDone, Return, Call, At, AtCommand, acctVars, IoAdd
  <2>4. SourceInv'
    BY ZenonT(60), <1>1 DEF IInv, SourceInv, Polled, CallInv, TypeOK, AcctType,
       SessionType, TlsDone, Return, Call, At, AtCommand, acctVars, IoAdd
  <2>5. FlagInv'
    BY <1>1 DEF IInv, FlagInv, Live, Waiting, Polled, CallInv, TypeOK,
       AcctType, SessionType, TlsDone, Return, Call, At, AtCommand, acctVars,
       IoAdd
  <2>6. QueueInv'
    BY <1>1 DEF IInv, QueueInv, Live, TypeOK, AcctType, SessionType, NoSock,
       SourceInv, CallInv, FlagInv, Polled, TlsDone, Return, Call, At,
       AtCommand, acctVars, IoAdd
  <2>. QED
    BY <2>2, <2>3, <2>4, <2>5, <2>6 DEF IInv
<1>2. CASE TlsFatal
  <2>1. TypeOK'
    BY <1>2, AfterType DEF IInv, TypeOK, PeerCalls, PCs, LoopPoints, TlsFatal, Return,
       Call, At, AtCommand, acctVars
  <2>. QED
    BY <1>2, <2>1, QuietStep DEF TlsFatal, Return, Call, At, AtCommand,
       acctVars
<1>. QED
  BY <1>1, <1>2 DEF Tls

\* Kept by a command.
LEMMA CommandStep == IInv /\ Command => IInv'
<1>. SUFFICES ASSUME IInv, Command PROVE IInv'
  OBVIOUS
<1>1. CASE CmdConnect
  <2>1. acct' \in AcctType
    BY <1>1, NewTypes DEF CmdConnect
  <2>2. session' \in SessionType
    BY <1>1, NewTypes DEF CmdConnect
  <2>3. TypeOK'
    BY <1>1, AfterType, <2>1, <2>2 DEF IInv, TypeOK, PeerCalls, PCs, LoopPoints,
       CmdConnect, Return, Call, At, AtCommand, acctVars
  <2>4. CallInv'
    BY <1>1 DEF IInv, CallInv, Live, Waiting, Polled, TypeOK, AcctType, SessionType,
       SourceInv, CmdConnect, Return, Call, At, AtCommand, acctVars, NewAcct,
       NewSession
  <2>5. SourceInv'
    BY <1>1 DEF IInv, SourceInv, Polled, CallInv, TypeOK, AcctType,
       SessionType, CmdConnect, Return, Call, At, AtCommand, acctVars,
       NewAcct, NewSession
  <2>6. FlagInv'
    <3>1. /\ ~acct'.connected /\ ~acct'.successful_connect
          /\ ~acct'.disconnected /\ acct'.reconnect_tries = 0
      BY <1>1 DEF CmdConnect, NewAcct
    <3>2. acct'.reconnect_tries <= RECONNECT_TRIES
      BY <3>1, ConnAssumption
    <3>. QED
      BY <1>1, <3>1, <3>2 DEF FlagInv, Waiting
  <2>7. QueueInv'
    BY <1>1 DEF IInv, QueueInv, Live, TypeOK, AcctType, SessionType, NoSock,
       SourceInv, CallInv, FlagInv, Polled, CmdConnect, Return, Call, At,
       AtCommand, acctVars, NewAcct, NewSession
  <2>. QED
    BY <2>3, <2>4, <2>5, <2>6, <2>7 DEF IInv
<1>2. CASE CmdConnectNoServer
  <2>1. acct' \in AcctType
    BY <1>2, NewTypes DEF CmdConnectNoServer
  <2>2. session' \in SessionType
    BY <1>2, NewTypes DEF CmdConnectNoServer
  <2>3. TypeOK'
    BY <1>2, AfterType, <2>1, <2>2 DEF IInv, TypeOK, PeerCalls, PCs, LoopPoints,
       CmdConnectNoServer, Return, Call, At, AtCommand, acctVars
  <2>4. CallInv'
    BY <1>2 DEF IInv, CallInv, Live, Waiting, Polled, TypeOK, AcctType, SessionType,
       SourceInv, CmdConnectNoServer, Return, Call, At, AtCommand, acctVars,
       NewAcct, NewSession
  <2>5. SourceInv'
    BY <1>2 DEF IInv, SourceInv, Polled, CallInv, TypeOK, AcctType,
       SessionType, CmdConnectNoServer, Return, Call, At, AtCommand, acctVars,
       NewAcct, NewSession
  <2>6. FlagInv'
    BY <1>2 DEF IInv, FlagInv, Live, Waiting, Polled, CallInv, TypeOK,
       AcctType, SessionType, CmdConnectNoServer, Return, Call, At, AtCommand,
       acctVars, NewAcct, NewSession
  <2>7. QueueInv'
    BY <1>2 DEF IInv, QueueInv, Live, TypeOK, AcctType, SessionType, NoSock,
       SourceInv, CallInv, FlagInv, Polled, CmdConnectNoServer, Return, Call,
       At, AtCommand, acctVars, NewAcct, NewSession
  <2>. QED
    BY <2>3, <2>4, <2>5, <2>6, <2>7 DEF IInv
<1>3. CASE CmdConnectRefused
  <2>1. TypeOK'
    BY <1>3, AfterType DEF IInv, TypeOK, PeerCalls, PCs, LoopPoints, CmdConnectRefused,
       Return, Call, At, AtCommand, acctVars
  <2>. QED
    BY <1>3, <2>1, QuietStep DEF CmdConnectRefused, Return, Call, At,
       AtCommand, acctVars
<1>4. CASE CmdDisconnect
  <2>1. session' \in SessionType
    BY <1>4, IoDelType DEF CmdDisconnect, AcctDelByUser, IInv, TypeOK, acctVars, AcctDelByUser
  <2>2. TypeOK'
    BY <1>4, AfterType, <2>1 DEF IInv, TypeOK, PeerCalls, PCs, LoopPoints, CmdDisconnect,
       Return, Call, At, AtCommand, acctVars, AcctDelByUser
  <2>3. CallInv'
    BY <1>4, IoDelType DEF IInv, CallInv, Live, Waiting, Polled, TypeOK, AcctType,
       SessionType, SourceInv, CmdDisconnect, Return, Call, At, AtCommand,
       acctVars, AcctDelByUser
  <2>4. SourceInv'
    BY <1>4, IoDelType DEF IInv, SourceInv, Polled, CallInv, TypeOK, AcctType,
       SessionType, CmdDisconnect, Return, Call, At, AtCommand, acctVars, AcctDelByUser
  <2>5. FlagInv'
    BY <1>4, IoDelType DEF IInv, FlagInv, Live, Waiting, Polled, CallInv,
       TypeOK, AcctType, SessionType, CmdDisconnect, Return, Call, At,
       AtCommand, acctVars, AcctDelByUser
  <2>6. QueueInv'
    BY <1>4, IoDelType DEF IInv, QueueInv, Live, TypeOK, AcctType,
       SessionType, NoSock, SourceInv, CallInv, FlagInv, Polled,
       CmdDisconnect, Return, Call, At, AtCommand, acctVars, AcctDelByUser
  <2>. QED
    BY <2>2, <2>3, <2>4, <2>5, <2>6 DEF IInv
<1>8. CASE CmdDisconnectSays
  <2>1. TypeOK'
    BY <1>8, AfterType DEF IInv, TypeOK, PeerCalls, PCs, LoopPoints, CmdDisconnectSays, Return,
       Call, At, AtCommand, acctVars
  <2>. QED
    BY <1>8, <2>1, QuietStep DEF CmdDisconnectSays, Return, Call, At, AtCommand, acctVars, Live
<1>9. CASE CmdSend
  <2>1. TypeOK'
    BY <1>9, AfterType DEF IInv, TypeOK, PeerCalls, PCs, LoopPoints, CmdSend, Return,
       Call, At, AtCommand, acctVars
  <2>. QED
    BY <1>9, <2>1, QuietStep DEF CmdSend, Return, Call, At, AtCommand, acctVars
<1>5. CASE CmdSendQueued
  <2>1. session' \in SessionType
    <3>1. session.outq + 1 \in Nat
      BY <1>5, FieldTypes DEF IInv
    <3>. QED
      BY <1>5, <3>1, QueueUpdate DEF CmdSendQueued, IInv, TypeOK
  <2>2. TypeOK'
    BY <1>5, AfterType, <2>1 DEF IInv, TypeOK, PeerCalls, PCs, LoopPoints, CmdSendQueued,
       Return, Call, At, AtCommand, acctVars
  <2>3. CallInv'
    BY <1>5 DEF IInv, CallInv, Live, Waiting, Polled, TypeOK, AcctType, SessionType,
       SourceInv, CmdSendQueued, Return, Call, At, AtCommand, acctVars
  <2>4. SourceInv'
    BY <1>5 DEF IInv, SourceInv, Polled, CallInv, TypeOK, AcctType,
       SessionType, CmdSendQueued, Return, Call, At, AtCommand, acctVars
  <2>5. FlagInv'
    BY <1>5 DEF IInv, FlagInv, Live, Waiting, Polled, CallInv, TypeOK,
       AcctType, SessionType, CmdSendQueued, Return, Call, At, AtCommand,
       acctVars
  <2>6. QueueInv'
    BY <1>5 DEF IInv, QueueInv, Live, TypeOK, AcctType, SessionType, NoSock,
       SourceInv, CallInv, FlagInv, Polled, CmdSendQueued, Return, Call, At,
       AtCommand, acctVars
  <2>. QED
    BY <2>2, <2>3, <2>4, <2>5, <2>6 DEF IInv
<1>6. CASE CmdSetAutoReconnect
  <2>1. TypeOK'
    BY <1>6, AfterType DEF IInv, TypeOK, PeerCalls, PCs, LoopPoints, CmdSetAutoReconnect,
       Return, Call, At, AtCommand, acctVars
  <2>. QED
    BY <1>6, <2>1, QuietStep DEF CmdSetAutoReconnect, Return, Call, At,
       AtCommand, acctVars
<1>7. CASE CmdQuit
  <2>1. TypeOK'
    BY <1>7, AfterType DEF IInv, TypeOK, PeerCalls, PCs, LoopPoints, CmdQuit, Return,
       Call, At, AtCommand, acctVars
  <2>. QED
    BY <1>7, <2>1, QuietStep DEF CmdQuit, Return, Call, At, AtCommand,
       acctVars
<1>. QED
  BY <1>1, <1>2, <1>3, <1>4, <1>5, <1>6, <1>7, <1>8, <1>9 DEF Command

\* Kept by pork_acct_reconnect_all.
LEMMA ReconnectAllStep == IInv /\ ReconnectAll => IInv'
<1>. SUFFICES ASSUME IInv, ReconnectAll PROVE IInv'
  OBVIOUS
<1>1. CASE Retry
  <2>1. acct' \in AcctType
    <3>1. acct.reconnect_tries + 1 \in Nat
      BY FieldTypes DEF IInv
    <3>. QED
      BY <1>1, <3>1, TriesUpdate DEF Retry, IInv, TypeOK
  <2>2. TypeOK'
    BY <1>1, AfterType, <2>1 DEF IInv, TypeOK, PeerCalls, PCs, LoopPoints, Retry, Return,
       Call, At, AtCommand, acctVars, RetryDue, HasAcct
  <2>3. CallInv'
    BY <1>1 DEF IInv, CallInv, Live, Waiting, Polled, TypeOK, AcctType, SessionType,
       SourceInv, Retry, Return, Call, At, AtCommand, acctVars, RetryDue,
       HasAcct
  <2>4. SourceInv'
    BY <1>1 DEF IInv, SourceInv, Polled, CallInv, TypeOK, AcctType,
       SessionType, Retry, Return, Call, At, AtCommand, acctVars, RetryDue,
       HasAcct
  <2>5. FlagInv'
    <3>1. /\ acct'.reconnecting /\ ~acct'.connected /\ acct'.disconnected
          /\ acct'.reconnect_tries = acct.reconnect_tries + 1
          /\ mem' = mem
      BY <1>1 DEF Retry, RetryDue, IInv, TypeOK, AcctType
    <3>2. Live => acct.reconnect_tries < RECONNECT_TRIES
      BY <1>1 DEF FlagInv, Retry, RetryDue, Waiting, IInv
    <3>3. Live => acct'.reconnect_tries <= RECONNECT_TRIES
      BY <1>1, <3>1, <3>2, FieldTypes, ConnAssumption DEF IInv
    <3>. QED
      BY <1>1, <3>1, <3>3 DEF FlagInv, Waiting, Live
  <2>6. QueueInv'
    BY <1>1 DEF IInv, QueueInv, Live, TypeOK, AcctType, SessionType, NoSock,
       SourceInv, CallInv, FlagInv, Polled, Retry, Return, Call, At,
       AtCommand, acctVars, RetryDue, HasAcct
  <2>. QED
    BY <2>2, <2>3, <2>4, <2>5, <2>6 DEF IInv
<1>2. CASE RetryTimeout
  <2>1. acct' \in AcctType
    BY <1>2, ConnectFailType DEF RetryTimeout, IInv
  <2>2. session' \in SessionType
    BY <1>2, IoDelType DEF RetryTimeout, TimedOut, HasAcct, ConnectFail,
       AcctDel, RetryDue, IInv, TypeOK, acctVars
  <2>3. TypeOK'
    BY <1>2, AfterType, <2>1, <2>2 DEF IInv, TypeOK, PeerCalls, PCs, LoopPoints,
       RetryTimeout, Return, Call, At, AtCommand, acctVars, TimedOut, HasAcct,
       ConnectFail, AcctDel, RetryDue
  <2>4. CallInv'
    BY <1>2, IoDelType DEF IInv, CallInv, Live, Waiting, Polled, TypeOK, AcctType,
       SessionType, SourceInv, RetryTimeout, Return, Call, At, AtCommand,
       acctVars, TimedOut, HasAcct, ConnectFail, AcctDel, Failed, RetryDue
  <2>5. SourceInv'
    BY <1>2, IoDelType DEF IInv, SourceInv, Polled, CallInv, TypeOK, AcctType,
       SessionType, RetryTimeout, Return, Call, At, AtCommand, acctVars,
       TimedOut, HasAcct, ConnectFail, AcctDel, Failed, RetryDue
  <2>6. FlagInv'
    BY <1>2, IoDelType DEF IInv, FlagInv, Live, Waiting, Polled, CallInv,
       TypeOK, AcctType, SessionType, RetryTimeout, Return, Call, At,
       AtCommand, acctVars, TimedOut, HasAcct, ConnectFail, AcctDel, Failed,
       RetryDue
  <2>7. QueueInv'
    BY ZenonT(60), <1>2, IoDelType DEF IInv, QueueInv, Live, TypeOK, AcctType,
       SessionType, NoSock, SourceInv, CallInv, FlagInv, Polled, RetryTimeout,
       Return, Call, At, AtCommand, acctVars, TimedOut, HasAcct, ConnectFail,
       AcctDel, Failed, RetryDue
  <2>. QED
    BY <2>3, <2>4, <2>5, <2>6, <2>7 DEF IInv
<1>3. CASE RetryNothing
  <2>1. TypeOK'
    BY <1>3, AfterType DEF IInv, TypeOK, PeerCalls, PCs, LoopPoints, RetryNothing,
       Return, Call, At, AtCommand, acctVars
  <2>. QED
    BY <1>3, <2>1, QuietStep DEF RetryNothing, Return, Call, At, AtCommand,
       acctVars
<1>. QED
  BY <1>1, <1>2, <1>3 DEF ReconnectAll

\* Kept by time and the use of the freed account.
LEMMA EnvironmentStep == IInv /\ (Tick \/ TouchFreed) => IInv'
<1>. SUFFICES ASSUME IInv, Tick \/ TouchFreed PROVE IInv'
  OBVIOUS
<1>1. CASE Tick
  <2>1. acct' \in AcctType
    <3>1. MaxAge \in Int
      BY ConnAssumption DEF MaxAge
    <3>2. Least(acct.age + 1, MaxAge) \in Int
      BY <3>1, FieldTypes DEF Least, IInv
    <3>. QED
      BY <1>1, <3>2, AgeUpdate DEF Tick, IInv, TypeOK
  <2>2. TypeOK'
    BY <1>1, AfterType, <2>1 DEF IInv, TypeOK, PeerCalls, PCs, LoopPoints, Tick, Return,
       Call, At, AtCommand, acctVars
  <2>3. CallInv'
    BY <1>1 DEF IInv, CallInv, Live, Waiting, Polled, TypeOK, AcctType, SessionType,
       SourceInv, Tick, Return, Call, At, AtCommand, acctVars
  <2>4. SourceInv'
    BY <1>1 DEF IInv, SourceInv, Polled, CallInv, TypeOK, AcctType,
       SessionType, Tick, Return, Call, At, AtCommand, acctVars
  <2>5. FlagInv'
    BY <1>1 DEF IInv, FlagInv, Live, Waiting, Polled, CallInv, TypeOK,
       AcctType, SessionType, Tick, Return, Call, At, AtCommand, acctVars
  <2>6. QueueInv'
    BY <1>1 DEF IInv, QueueInv, Live, TypeOK, AcctType, SessionType, NoSock,
       SourceInv, CallInv, FlagInv, Polled, Tick, Return, Call, At, AtCommand,
       acctVars
  <2>. QED
    BY <2>2, <2>3, <2>4, <2>5, <2>6 DEF IInv
<1>2. CASE TouchFreed
  <2>1. TypeOK'
    BY <1>2, AfterType DEF IInv, TypeOK, PeerCalls, PCs, LoopPoints, TouchFreed, Return,
       Call, At, AtCommand, acctVars
  <2>. QED
    BY <1>2, <2>1, QuietStep DEF TouchFreed, Return, Call, At, AtCommand,
       acctVars
<1>. QED
  BY <1>1, <1>2

\* Every step keeps the invariant.
LEMMA StepIInv == IInv /\ [Next]_vars => IInv'
<1>. SUFFICES ASSUME IInv, [Next]_vars PROVE IInv'
  OBVIOUS
<1>1. CASE UNCHANGED vars
  <2>1. TypeOK'
    BY <1>1 DEF IInv, TypeOK, PeerCalls, vars
  <2>. QED
    BY <1>1, <2>1, QuietStep DEF vars
<1>2. CASE Next
  BY <1>1, <1>2, LoopStep, SessionEventStep, PeerActsStep, ConnectCallStep,
     TlsStep, CommandStep, ReconnectAllStep, EnvironmentStep DEF Next, Stopped
<1>. QED
  BY <1>1, <1>2

\* The invariant that carries the others.
THEOREM Invariance == Spec => []IInv
  BY InitIInv, StepIInv, PTL DEF Spec
-----------------------------------------------------------------------------
(***************************************************************************)
(* The properties                                                          *)
(***************************************************************************)

\* Every variable has its type in every reachable state.
THEOREM TypeCorrect == Spec => []TypeOK
<1>1. IInv => TypeOK
  BY DEF IInv
<1>. QED
  BY <1>1, Invariance, PTL

\* A connected account is always served by the reactor through its session's
\* own socket.
THEOREM Served == Spec => []ConnectedIsServed
<1>1. IInv => ConnectedIsServed
  BY DEF IInv, FlagInv, SourceInv, ConnectedIsServed
<1>. QED
  BY <1>1, Invariance, PTL

\* Nothing of an earlier attempt is in flight while an account waits.
THEOREM WaitsAlone == Spec => []NothingInFlightWhileWaiting
<1>1. IInv => NothingInFlightWhileWaiting
  BY DEF IInv, CallInv, Waiting, NothingInFlightWhileWaiting
<1>. QED
  BY <1>1, Invariance, PTL

\* The reactor never polls a closed descriptor.
THEOREM PollsOpen == Spec => []PolledIsOpen
<1>1. IInv => PolledIsOpen
  BY DEF IInv, SourceInv, PolledIsOpen
<1>. QED
  BY <1>1, Invariance, PTL

\* No command typed before the first connection survives into a reconnect.
THEOREM QueueDrained == Spec => []QueueDrainedOnceConnected
<1>1. IInv => QueueDrainedOnceConnected
  BY DEF IInv, QueueInv, QueueDrainedOnceConnected
<1>. QED
  BY <1>1, Invariance, PTL

\* The number of attempts is bounded by the option, but for the first.
THEOREM BoundedTries == Spec => []TriesBounded
<1>1. IInv => TriesBounded
  BY DEF IInv, FlagInv, TriesBounded
<1>. QED
  BY <1>1, Invariance, PTL

\* What a step may do to the session's source: leave it as it is, take it away,
\* start to read, or begin an attempt.
LEMMA SourceSteps ==
    ASSUME IInv, [Next]_vars
    PROVE  \/ session'.io = session.io /\ session'.fd = session.fd
           \/ session'.io \in {"none", "dead", "read"}
           \/ ConnectStarts
<1>. USE DEF acctVars
<1>. session \in SessionType
  BY DEF IInv, TypeOK
<1>1. CASE session' = session
  BY <1>1
<1>2. CASE Reap \/ FlushOne \/ CmdSendQueued
  BY <1>2 DEF Reap, FlushOne, CmdSendQueued, SessionType
<1>3. CASE TcpRefused \/ ServerGone \/ RefusedAtOnce \/ RetryTimeout
             \/ ConnectFailsAtOnce \/ CmdDisconnect \/ ByeSaid
  BY <1>3, IoDelType
     DEF TcpRefused, ServerGone, RefusedAtOnce, RetryTimeout, ConnectFailsAtOnce,
         CmdDisconnect, ByeSaid, AcctDelByUser, Disconnected, ConnectFail, AcctDel
<1>4. CASE TcpEstablished \/ ConnectsAtOnce
  BY <1>4, IoDelType DEF TcpEstablished, ConnectsAtOnce, SessionType
<1>5. CASE TlsDone
  BY <1>5 DEF TlsDone, IoAdd, SessionType
<1>6. CASE CmdConnect \/ CmdConnectNoServer
  <2>1. session' = NewSession
    BY <1>6 DEF CmdConnect, CmdConnectNoServer
  <2>. QED
    BY <2>1 DEF NewSession
<1>7. \/ session' = session
      \/ Reap \/ FlushOne \/ CmdSendQueued
      \/ TcpRefused \/ ServerGone \/ RefusedAtOnce \/ RetryTimeout
      \/ ConnectFailsAtOnce \/ CmdDisconnect \/ ByeSaid
      \/ TcpEstablished \/ ConnectsAtOnce \/ TlsDone
      \/ CmdConnect \/ CmdConnectNoServer \/ ConnectStarts
  BY DEF Next, Loop, SessionEvent, PeerActs, ConnectCall, Tls, Command, ReconnectAll,
         Stopped, vars, Quiet, Update, Second, ServerReadable, ServerData,
         ServerReady, WriteDone, TlsFatal, CmdDisconnectSays, CmdSend, CmdConnectRefused, CmdSetAutoReconnect, CmdQuit, Retry, RetryNothing,
         Tick, TouchFreed
<1>. QED
  BY <1>1, <1>2, <1>3, <1>4, <1>5, <1>6, <1>7

\* A new attempt replaces no source that is still polled.
THEOREM NoOverlap == Spec => NoOverlappingAttempts
<1>1. IInv /\ [Next]_vars =>
        ((session'.io = "write" /\ session.fd # session'.fd) => ~Polled)
  <2>. SUFFICES ASSUME IInv, [Next]_vars,
                       session'.io = "write", session.fd # session'.fd
                PROVE  ~Polled
    OBVIOUS
  <2>1. ConnectStarts
    BY SourceSteps
  <2>. QED
    BY <2>1 DEF ConnectStarts, IInv, CallInv
<1>. QED
  BY <1>1, Invariance, PTL DEF Spec, NoOverlappingAttempts

-----------------------------------------------------------------------------
(***************************************************************************)
(* Where an account ends                                                   *)
(***************************************************************************)

\* The steps that delete a live account.
LEMMA DeletingSteps ==
    ASSUME [Next]_vars, Live, mem' = "freed"
    PROVE  \/ (TcpRefused \/ ServerGone \/ RefusedAtOnce) /\ Disconnected
           \/ RetryTimeout /\ ConnectFail
           \/ ConnectFailsAtOnce /\ ~acct.reconnecting
           \/ CmdDisconnect \/ ByeSaid
<1>. USE DEF acctVars, Live
<1>1. CASE UNCHANGED vars
  BY <1>1 DEF vars
<1>2. CASE Loop \/ Tls
  BY <1>2 DEF Loop, Reap, Quiet, Update, Second, Tls, TlsDone, TlsFatal
<1>3. CASE SessionEvent \/ PeerActs
  BY <1>3 DEF SessionEvent, TcpRefused, TcpEstablished, ServerReadable, PeerActs,
              ServerGone, ServerData, ServerReady, FlushOne, WriteDone
<1>4. CASE ConnectCall
  BY <1>4 DEF ConnectCall, ConnectFailsAtOnce, ConnectStarts, ConnectsAtOnce,
              RefusedAtOnce
<1>5. CASE Command
  BY <1>5 DEF Command, CmdConnect, CmdConnectNoServer, CmdConnectRefused, CmdDisconnectSays,
              CmdSendQueued, CmdSend, CmdSetAutoReconnect, CmdQuit
<1>6. CASE ReconnectAll
  BY <1>6 DEF ReconnectAll, Retry, RetryTimeout, RetryNothing
<1>7. CASE Tick \/ TouchFreed
  BY <1>7 DEF Tick, TouchFreed
<1>. QED
  BY <1>1, <1>2, <1>3, <1>4, <1>5, <1>6, <1>7 DEF Next, Stopped

\* With AUTO_RECONNECT, only RECONNECT_TRIES failures in a row or a command end
\* an account that was connected once.
THEOREM GivenUp == Spec => GivenUpWhenExhausted
<1>1. IInv /\ [Next]_vars =>
        ((Live /\ mem' = "freed" /\ ~AtCommand /\ busy # "bye"
            /\ acct.successful_connect /\ auto_reconnect)
         => ~acct.connected /\ acct.reconnect_tries >= RECONNECT_TRIES)
  <2>. SUFFICES ASSUME IInv, [Next]_vars, Live, mem' = "freed", ~AtCommand, busy # "bye",
                       acct.successful_connect, auto_reconnect
                PROVE  ~acct.connected /\ acct.reconnect_tries >= RECONNECT_TRIES
    OBVIOUS
  <2>1. CASE Disconnected
    BY <2>1 DEF Disconnected, ConnectFail, Live, AcctDel
  <2>2. CASE RetryTimeout /\ ConnectFail
    <3>1. acct.reconnect_tries >= RECONNECT_TRIES
      BY <2>2 DEF ConnectFail, Live, AcctDel
    <3>2. ~acct.connected
      BY <2>2 DEF RetryTimeout, TimedOut, IInv, FlagInv
    <3>. QED
      BY <3>1, <3>2
  <2>3. ~(ConnectFailsAtOnce /\ ~acct.reconnecting)
    BY DEF ConnectFailsAtOnce, IInv, FlagInv
  <2>4. ~CmdDisconnect /\ ~ByeSaid
    BY DEF CmdDisconnect, ByeSaid
  <2>. QED
    BY <2>1, <2>2, <2>3, <2>4, DeletingSteps
<1>. QED
  BY <1>1, Invariance, PTL DEF Spec, GivenUpWhenExhausted

-----------------------------------------------------------------------------
(***************************************************************************)
(* Conn implements Lifecycle                                               *)
(***************************************************************************)

\* The phases, one by one.
PhaseFacts ==
    /\ mem = "none" => Phase = "idle" /\ Tries = 0
    /\ mem = "freed" => Phase = "gone" /\ Tries = 0
    /\ Live => Tries = acct.reconnect_tries
    /\ Live /\ acct.connected => Phase = "online"
    /\ Live /\ ~acct.connected /\ acct.reconnecting => Phase = "retrying"
    /\ Live /\ ~acct.connected /\ Waiting => Phase = "waiting"
    /\ Live /\ ~acct.connected /\ ~acct.reconnecting /\ ~acct.disconnected
         => Phase = "connecting"

LEMMA Phases == PhaseFacts /\ PhaseFacts'
  BY DEF PhaseFacts, Phase, Tries, Live, Waiting

\* The part of the account that Lifecycle sees does not change.
SameAccount ==
    /\ mem' = mem
    /\ acct'.connected = acct.connected
    /\ acct'.reconnecting = acct.reconnecting
    /\ acct'.disconnected = acct.disconnected
    /\ acct'.reconnect_tries = acct.reconnect_tries

LEMMA SameAccountStutters == SameAccount => UNCHANGED <<Phase, Tries>>
  BY DEF SameAccount, Phase, Tries, Live

\* A step that deletes a live account is Delete.
LEMMA DeletionIsDelete == IInv /\ Live /\ mem' = "freed" => Abstract!Delete
<1>. SUFFICES ASSUME IInv, Live, mem' = "freed" PROVE Abstract!Delete
  OBVIOUS
<1>1. Phase' = "gone" /\ Tries' = 0
  BY Phases DEF PhaseFacts
<1>2. Phase \notin {"idle", "gone"}
  BY DEF Phase, Live
<1>. QED
  BY <1>1, <1>2 DEF Abstract!Delete

\* A failed attempt of a live account deletes it or is Fail.
LEMMA FailureIsFail ==
    ASSUME IInv, Live, ConnectFail, ~acct.connected, acct.reconnecting
    PROVE  Abstract!Delete \/ Abstract!Fail
<1>1. CASE mem' = "freed"
  BY <1>1, DeletionIsDelete
<1>2. CASE mem' # "freed"
  <2>1. acct.reconnect_tries < RECONNECT_TRIES /\ mem' = mem
    BY <1>2 DEF ConnectFail, AcctDel
  <2>2. /\ ~acct'.connected /\ ~acct'.reconnecting /\ acct'.disconnected
        /\ acct'.reconnect_tries = acct.reconnect_tries
    BY <1>2 DEF ConnectFail, AcctDel, Failed, IInv, TypeOK, AcctType
  <2>3. Phase = "retrying" /\ Tries = acct.reconnect_tries
    BY Phases DEF PhaseFacts
  <2>4. Phase' = "waiting" /\ Tries' = acct'.reconnect_tries
    BY <2>1, <2>2, Phases DEF PhaseFacts, Live, Waiting
  <2>. QED
    BY <2>1, <2>2, <2>3, <2>4 DEF Abstract!Fail
<1>. QED
  BY <1>1, <1>2

\* The loss of a connection, or of an attempt, is Lose, Fail or Delete.
LEMMA DisconnectedSteps ==
    ASSUME IInv, Disconnected, Polled \/ busy = "resolve"
    PROVE  Abstract!Next \/ UNCHANGED <<Phase, Tries>>
<1>0. CASE ~Live
  <2>1. mem' = mem
    BY <1>0 DEF Disconnected, ConnectFail, AcctDel, Live
  <2>. QED
    BY <1>0, <2>1 DEF Phase, Tries, Live
<1>1. CASE Live /\ mem' = "freed"
  BY <1>1, DeletionIsDelete DEF Abstract!Next
<1>2. CASE Live /\ mem' # "freed" /\ ~acct.connected
  <2>1. ConnectFail /\ acct.successful_connect
    BY <1>2 DEF Disconnected, AcctDel
  <2>2. acct.reconnecting
    BY <1>2, <2>1 DEF IInv, FlagInv, CallInv, Waiting
  <2>. QED
    BY <1>2, <2>1, <2>2, FailureIsFail DEF Abstract!Next
<1>3. CASE Live /\ mem' # "freed" /\ acct.connected
  <2>1. /\ mem' = mem
        /\ acct' = [acct EXCEPT !.connected = FALSE, !.disconnected = TRUE,
                                !.reconnecting = TRUE, !.reconnect_tries = 1,
                                !.age = 0]
    BY <1>3 DEF Disconnected, AcctDel
  <2>2. ~acct'.connected /\ acct'.reconnecting /\ acct'.reconnect_tries = 1
    BY <2>1 DEF IInv, TypeOK, AcctType
  <2>3. Phase = "online" /\ Phase' = "retrying" /\ Tries' = 1
    BY <1>3, <2>1, <2>2, Phases DEF PhaseFacts, Live
  <2>. QED
    BY <2>3 DEF Abstract!Next, Abstract!Lose
<1>. QED
  BY <1>0, <1>1, <1>2, <1>3

\* The end of the login is Succeed, or nothing new for an account already online.
LEMMA ReadySteps ==
    ASSUME IInv, ServerReady
    PROVE  Abstract!Next \/ UNCHANGED <<Phase, Tries>>
<1>1. /\ mem' = mem /\ session.io = "read"
      /\ acct'.connected /\ acct'.reconnect_tries = 0
  BY DEF ServerReady, IInv, CallInv, TypeOK, AcctType
<1>2. CASE ~Live
  BY <1>1, <1>2 DEF Phase, Tries, Live
<1>3. CASE Live
  <2>1. Phase' = "online" /\ Tries' = 0
    BY <1>1, <1>3, Phases DEF PhaseFacts, Live
  <2>2. CASE acct.connected
    <3>1. Phase = "online" /\ Tries = 0
      BY <1>3, <2>2, Phases DEF PhaseFacts, IInv, FlagInv
    <3>. QED
      BY <2>1, <3>1
  <2>3. CASE ~acct.connected
    <3>1. ~Waiting
      BY <1>1 DEF IInv, CallInv, Polled
    <3>2. Phase \in {"connecting", "retrying"}
      BY <1>3, <2>3, <3>1, Phases DEF PhaseFacts, Waiting
    <3>. QED
      BY <2>1, <3>2 DEF Abstract!Next, Abstract!Succeed
  <2>. QED
    BY <2>2, <2>3
<1>. QED
  BY <1>2, <1>3

\* An attempt that begins is Again.
LEMMA RetrySteps ==
    ASSUME IInv, Retry
    PROVE  Abstract!Next \/ UNCHANGED <<Phase, Tries>>
<1>1. /\ mem' = mem /\ ~acct.connected /\ Waiting
      /\ acct'.reconnecting /\ ~acct'.connected
      /\ acct'.reconnect_tries = acct.reconnect_tries + 1
  BY DEF Retry, RetryDue, Waiting, IInv, TypeOK, AcctType
<1>2. CASE ~Live
  BY <1>1, <1>2 DEF Phase, Tries, Live
<1>3. CASE Live
  <2>1. Phase = "waiting" /\ Tries = acct.reconnect_tries
    BY <1>1, <1>3, Phases DEF PhaseFacts
  <2>2. Phase' = "retrying" /\ Tries' = acct'.reconnect_tries
    BY <1>1, <1>3, Phases DEF PhaseFacts, Live
  <2>. QED
    BY <1>1, <2>1, <2>2 DEF Abstract!Next, Abstract!Again
<1>. QED
  BY <1>2, <1>3

\* /connect is Connect.
LEMMA ConnectSteps == CmdConnect \/ CmdConnectNoServer => Abstract!Connect
<1>. SUFFICES ASSUME CmdConnect \/ CmdConnectNoServer PROVE Abstract!Connect
  OBVIOUS
<1>1. Phase = "idle"
  BY Phases DEF CmdConnect, CmdConnectNoServer, PhaseFacts
<1>2. acct' = NewAcct /\ mem' \in {"live", "freed"}
  BY DEF CmdConnect, CmdConnectNoServer
<1>3. /\ ~acct'.connected /\ ~acct'.reconnecting /\ ~acct'.disconnected
      /\ acct'.reconnect_tries = 0
  BY <1>2 DEF NewAcct
<1>4. Phase' \in {"connecting", "gone"} /\ Tries' = 0
  BY <1>2, <1>3, Phases DEF PhaseFacts, Live
<1>. QED
  BY <1>1, <1>4 DEF Abstract!Connect

\* Every step of Conn is a step of Lifecycle or invisible there.
LEMMA StepRefines ==
    ASSUME IInv, [Next]_vars
    PROVE  Abstract!Next \/ UNCHANGED <<Phase, Tries>>
<1>. USE DEF acctVars
<1>1. CASE mem' = mem /\ acct' = acct
  BY <1>1 DEF Phase, Tries, Live
<1>2. CASE Tick
  <2>1. SameAccount
    BY <1>2 DEF Tick, SameAccount, IInv, TypeOK, AcctType
  <2>. QED
    BY <2>1, SameAccountStutters
<1>3. CASE TcpRefused \/ ServerGone \/ RefusedAtOnce
  <2>1. Disconnected /\ (Polled \/ busy = "resolve")
    BY <1>3 DEF TcpRefused, ServerGone, RefusedAtOnce, Polled, IInv, CallInv
  <2>. QED
    BY <2>1, DisconnectedSteps
<1>4. CASE ServerReady
  BY <1>4, ReadySteps
<1>5. CASE Retry
  BY <1>5, RetrySteps
<1>6. CASE RetryTimeout
  <2>1. CASE ~Live
    <3>1. mem' = mem
      BY <1>6, <2>1 DEF RetryTimeout, ConnectFail, AcctDel, Live
    <3>. QED
      BY <2>1, <3>1 DEF Phase, Tries, Live
  <2>2. CASE Live
    <3>1. ConnectFail /\ acct.reconnecting /\ ~acct.connected
      BY <1>6, <2>2 DEF RetryTimeout, TimedOut, IInv, FlagInv
    <3>. QED
      BY <2>2, <3>1, FailureIsFail DEF Abstract!Next
  <2>. QED
    BY <2>1, <2>2
<1>7. CASE (ConnectFailsAtOnce /\ mem' = "freed" /\ Live) \/ CmdDisconnect \/ ByeSaid
  <2>1. Live /\ mem' = "freed"
    BY <1>7 DEF CmdDisconnect, ByeSaid, AcctDelByUser, Live, IInv, CallInv
  <2>. QED
    BY <2>1, DeletionIsDelete DEF Abstract!Next
<1>8. CASE CmdConnect \/ CmdConnectNoServer
  BY <1>8, ConnectSteps DEF Abstract!Next
<1>9. \/ mem' = mem /\ acct' = acct
      \/ Tick \/ TcpRefused \/ ServerGone \/ RefusedAtOnce \/ ServerReady
      \/ Retry \/ RetryTimeout
      \/ ConnectFailsAtOnce /\ mem' = "freed" /\ Live
      \/ CmdDisconnect \/ ByeSaid \/ CmdConnect \/ CmdConnectNoServer
  <2>1. CASE UNCHANGED vars \/ Stopped
    BY <2>1 DEF Stopped, vars
  <2>2. CASE Loop \/ Tls \/ TouchFreed
    BY <2>2 DEF Loop, Reap, Quiet, Update, Second, Tls, TlsDone, TlsFatal, TouchFreed
  <2>3. CASE SessionEvent \/ PeerActs
    BY <2>3 DEF SessionEvent, TcpEstablished, ServerReadable, PeerActs, ServerData,
                FlushOne, WriteDone
  <2>4. CASE ConnectCall
    BY <2>4 DEF ConnectCall, ConnectFailsAtOnce, AcctDel, ConnectStarts,
                ConnectsAtOnce, Live
  <2>5. CASE Command
    BY <2>5 DEF Command, CmdConnectRefused, CmdDisconnectSays, CmdSendQueued, CmdSend,
                CmdSetAutoReconnect, CmdQuit
  <2>6. CASE ReconnectAll \/ Tick
    BY <2>6 DEF ReconnectAll, RetryNothing
  <2>. QED
    BY <2>1, <2>2, <2>3, <2>4, <2>5, <2>6 DEF Next
<1>. QED
  BY <1>1, <1>2, <1>3, <1>4, <1>5, <1>6, <1>7, <1>8, <1>9

\* The account keeps the promise of Lifecycle.
THEOREM Refinement == Spec => ImplementsLifecycle
<1>1. Init => Abstract!Init
  BY DEF Init, Abstract!Init, Phase, Tries, Live
<1>2. IInv /\ [Next]_vars => [Abstract!Next]_(Abstract!lvars)
  BY StepRefines DEF Abstract!lvars
<1>. QED
  BY <1>1, <1>2, Invariance, PTL DEF Spec, ImplementsLifecycle, Abstract!Spec
=============================================================================
