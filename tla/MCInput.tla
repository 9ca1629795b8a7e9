------------------------------ MODULE MCInput ------------------------------
(***************************************************************************)
(* InputLine for TLC: a letter, blanks and slashes, of which the names of  *)
(* the two command sets are made too; a history of two lines.              *)
(***************************************************************************)
EXTENDS InputLine

mcStrings  == {<<>>, <<"a", "a">>}
mcKept     == {<<"a">>, <<"a", "a">>}
mcMainCmds == << <<>>, <<"/", "/">>, <<"a", "a">> >>
mcSubSets  == << [type |-> <<"a", " ">>, names |-> << <<"/">>, <<"/", "/">> >>] >>
=============================================================================
