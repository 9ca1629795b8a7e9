------------------------------ MODULE MCTimer ------------------------------
(***************************************************************************)
(* Timer for TLC: two command strings, so that "timer del" can hit another *)
(* timer than the one that runs it, and three timers, so that the walk has *)
(* a node before and after the one whose command changes the list.         *)
(***************************************************************************)
EXTENDS Timer
=============================================================================
