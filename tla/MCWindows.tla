----------------------------- MODULE MCWindows ------------------------------
(***************************************************************************)
(* Windows for TLC: the status window and two more, numbers below, among   *)
(* and above those in use.  Targets are compared only, so that exchanging  *)
(* them makes no difference, and the properties are invariants.            *)
(***************************************************************************)
EXTENDS Windows, TLC

mcSymmetry == Permutations(Targets)
=============================================================================
