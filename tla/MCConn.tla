------------------------------- MODULE MCConn -------------------------------
(***************************************************************************)
(* Conn for TLC.  RECONNECT_TRIES is 3: a first, a middle and a last       *)
(* attempt, and waits that grow and are cut off at                         *)
(* RECONNECT_MAX_INTERVAL; a timeout longer than one second; one           *)
(* descriptor more than a session and the attempt that replaces it hold,   *)
(* so that the descriptors the code leaks run into the limit.              *)
(***************************************************************************)
EXTENDS Conn
=============================================================================
