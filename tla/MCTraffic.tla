----------------------------- MODULE MCTraffic ------------------------------
(***************************************************************************)
(* Traffic for TLC: the line that ends the login, one that has an opening  *)
(* and a closing mark, and one that is too long, cut in every way.         *)
(***************************************************************************)
EXTENDS Traffic

Welcome == <<"@", "\r", "\n">>
Joined == <<"[", "]", "\n">>
Long == <<"a", "a", "a", "a", "\n">>
MCLines == {Welcome, Joined, Long}
=============================================================================
