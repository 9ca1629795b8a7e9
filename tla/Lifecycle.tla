------------------------------ MODULE Lifecycle ------------------------------
(***************************************************************************)
(* What the account component promises about an account, without the       *)
(* session, the reactor, the main loop or time: the phases it goes         *)
(* through and the number of consecutive attempts.  Conn implements it.    *)
(***************************************************************************)
EXTENDS Naturals

CONSTANT RECONNECT_TRIES

VARIABLES
    phase,   \* idle, connecting, online, retrying, waiting, gone
    tries    \* attempts since the connection was lost

lvars == <<phase, tries>>

Init == phase = "idle" /\ tries = 0

\* /connect
Connect == phase = "idle" /\ phase' \in {"connecting", "gone"} /\ tries' = 0

\* The server ends the login.
Succeed ==
    /\ phase \in {"connecting", "retrying"}
    /\ phase' = "online"
    /\ tries' = 0

\* A connection that was up is lost; the first attempt starts at once.
Lose == phase = "online" /\ phase' = "retrying" /\ tries' = 1

\* An attempt fails and another one is allowed.
Fail ==
    /\ phase = "retrying" /\ tries < RECONNECT_TRIES
    /\ phase' = "waiting"
    /\ tries' = tries

\* The wait is over.
Again == phase = "waiting" /\ phase' = "retrying" /\ tries' = tries + 1

\* The account is deleted: given up, never connected, AUTO_RECONNECT off, or
\* by a command.  It does not come back.
Delete == phase \notin {"idle", "gone"} /\ phase' = "gone" /\ tries' = 0

Next == Connect \/ Succeed \/ Lose \/ Fail \/ Again \/ Delete

Spec == Init /\ [][Next]_lvars
=============================================================================
