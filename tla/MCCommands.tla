----------------------------- MODULE MCCommands -----------------------------
(* Command lines: one option of each type, a command character that begins *)
(* the lines of the file or a binding, or is blank, aliases that form      *)
(* chains and loops or take the name of a command, keys by name and by     *)
(* code.                                                                   *)
EXTENDS Commands

MCFirstLetter(w) == SubSeq(w, 1, Min({1, Len(w)}))
MCRest(w) == SubSeq(w, 2, Len(w))
MCBare(w, ch) ==
    LET n == IF MCFirstLetter(w) # ch THEN 0 ELSE Max({k \in 0 .. Len(w) : \A i \in 1 .. k : SubSeq(w, i, i) = ch})
    IN  SubSeq(w, n + 1, Len(w))
MCChar(w) == IF w = "0x20" THEN " " ELSE IF w = "0x7f" THEN w ELSE MCFirstLetter(w)

MCTyped ==
    {<<"set", "CMDCHARS", "s">>, <<"set", "CMDCHARS", "0x20">>, <<"set", "CMDCHARS", "i">>,
     <<"set", "CMDCHARS", "r">>,
     <<"set", "AUTO_RECONNECT", "TOGGLE">>, <<"set", "SCROLLBUF_LEN", "2">>,
     <<"set", "PROMPT", "x">>, <<"set", "PROMPT">>,
     <<"alias", "a", "b", "x">>, <<"alias", "b", "a", "y">>, <<"alias", "b", "win", "y">>,
     <<"alias", "bind", "unbind">>, <<"alias", "alias", "set">>, <<"unalias", "a">>, <<"a", "z">>,
     <<"bind", "0x112", "b", "w">>, <<"bind", "F10", "quit">>, <<"bind", "q", "/win", "next">>,
     <<"bind", "-buddy", "TAB", "quit">>, <<"unbind", "RETURN">>,
     <<"timer", "add">>, <<"chat">>, <<"scroll">>, <<"win">>}

MCSystemRc == <<<<"bind", "q", "refresh">>, <<"bind", "-buddy", "RETURN", "blist">>,
                <<"alias", "c", "win", "clear">>>>

\* What is written by the program and by the user, and what is left of it.
MCWritten == OwnWords \cup UNION {ToSet(line) : line \in MCTyped \cup ToSet(MCSystemRc)}
MCSuffixes == UNION {{SubSeq(w, i, Len(w)) : i \in 1 .. Len(w) + 1} : w \in MCWritten}
MCWords == MCSuffixes \cup {MCFirstLetter(w) : w \in MCSuffixes}
=============================================================================
