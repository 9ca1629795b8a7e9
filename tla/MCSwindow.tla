----------------------------- MODULE MCSwindow -----------------------------
(***************************************************************************)
(* Swindow for TLC: texts of one line and of two or three, windows a row   *)
(* or a column apart in size, a buffer of hardly more than a screen, so    *)
(* that pruning meets the screen, and more messages than it may hold.      *)
(***************************************************************************)
EXTENDS Swindow
=============================================================================
