------------------------------ MODULE Commands ------------------------------
(***************************************************************************)
(* What a command line does and what is left of it after a restart:        *)
(* aliases (ncic_alias.c), key bindings (ncic_bind.c), the global options  *)
(* (ncic_set.c), the dispatch of commands (ncic_command.c), and the file   *)
(* ncicrc that /save writes and the next start reads (ncic_conf.c).        *)
(*                                                                         *)
(*   config    opts, alias, main and blist: the options by name, the       *)
(*             aliases by name, the bindings of the two sets by key        *)
(*   rows      the rows of the current window                              *)
(*   file      the lines of ncicrc                                         *)
(*   saved     the configuration that was saved last, or NotSaved          *)
(*   whole     whether all of it reached the file                          *)
(*   ran       the command of a set that was asked for last, and the one   *)
(*             that was run                                                *)
(*   steps     the steps taken                                             *)
(*   ok        FALSE once memory beyond command_set was used               *)
(*                                                                         *)
(* A command line is a sequence of words.  A key stands for its code and   *)
(* is called by the name bind_get_keyname gives it.  Of the options there  *)
(* is one of each type.  Case, META keys, several commands in a binding    *)
(* and comments in the file are left out.                                  *)
(***************************************************************************)
EXTENDS Integers, Sequences, FiniteSets, SequencesExt, FiniteSetsExt

CONSTANTS
    Words,           \* the words there are
    FirstLetter(_),  \* the first character of a word
    Rest(_),         \* what comes behind it
    Bare(_, _),      \* a word without all of a character that it begins with
    Char(_),         \* the character that opt_set_char makes of a word
    Typed,           \* the command lines that are typed
    SystemRc,        \* the lines of the system-wide ncicrc
    Heights,         \* rows of the current window: numbers of one digit
    MaxResolve,      \* steps along a chain of aliases
    Room,            \* words that fit into the buffer of alias_resolve
    MaxSteps         \* bound: steps of a behaviour

\* A line that is run has a first word.  One that begins with a blank begins with
\* the empty word, and one that is typed, or in the system-wide ncicrc, does not.
CommandLines == Seq(Words) \ {<< >>}

\* The characters of an option.  One is called by the word that opt_write writes
\* for it, the blank by " "; NUL is left out.
Characters == {Char(w) : w \in Words \ {""}}

ASSUME LettersAssumption ==
    /\ Char("/") = "/" /\ Char(" ") = " " /\ Char("0x20") = " "
    /\ \A w \in Words : FirstLetter(w) \in Words /\ Rest(w) \in Words
    /\ \A w \in Words \ {""} :
          /\ Char(w) \in Words \ {"", "0x20"} /\ Char(Char(w)) = Char(w)
          /\ FirstLetter(w) # "" /\ Char(FirstLetter(w)) = FirstLetter(w)
    /\ \A ch \in Characters : \A w \in Words :
          /\ Bare(w, ch) \in Words
          /\ Bare(w, ch) = IF w # "" /\ FirstLetter(w) = ch THEN Bare(Rest(w), ch) ELSE w

ASSUME CommandsAssumption ==
    /\ Typed \subseteq CommandLines /\ SystemRc \in Seq(CommandLines)
    /\ Heights \subseteq 1 .. 9 /\ Heights # {}
    /\ MaxResolve \in Nat \ {0} /\ Room \in Nat \ {0} /\ MaxSteps \in Nat

ASSUME TypedAssumption == \A line \in Typed \cup ToSet(SystemRc) : "" \notin ToSet(line)

VARIABLES config, rows, file, saved, whole, ran, steps, ok

vars == <<config, rows, file, saved, whole, ran, steps, ok>>

NotSaved == [opts |-> << >>]

\* Tables: an entry set and one taken out, and one table over another.
With(f, x, v) == [y \in DOMAIN f \cup {x} |-> IF y = x THEN v ELSE f[y]]
Without(f, x) == [y \in DOMAIN f \ {x} |-> f[y]]
Over(f, g) == [y \in DOMAIN f \cup DOMAIN g |-> IF y \in DOMAIN f THEN f[y] ELSE g[y]]

-----------------------------------------------------------------------------
(* Words.                                                                  *)

\* The first character of a line, and what is left without it.
First(words) ==
    IF Head(words) # "" THEN FirstLetter(Head(words)) ELSE IF Tail(words) # << >> THEN " " ELSE ""
WithoutFirst(words) ==
    IF Head(words) # "" THEN <<Rest(Head(words))>> \o Tail(words) ELSE Tail(words)

\* read_conf: a line whose first character is CMDCHARS loses it.
WithoutCmdchar(words, ch) == IF First(words) = ch THEN WithoutFirst(words) ELSE words

\* cmd_bind: so does a command that a key is bound to, unless that is all of it.
Bound(words, ch) ==
    IF Tail(words) = << >> /\ Rest(Head(words)) = "" THEN words ELSE WithoutCmdchar(words, ch)

\* run_mcommand: the blanks that a line begins with are left out, and then every
\* CMDCHARS that it begins with.
Bared(words, ch) ==
    LET line == IF Head(words) = "" /\ Tail(words) # << >> THEN Tail(words) ELSE words
    IN  <<Bare(Head(line), ch)>> \o Tail(line)

-----------------------------------------------------------------------------
(* Aliases.                                                                *)

AliasAdd(alias, name, words) == With(alias, name, words)

\* Variant: the arguments of an alias go behind those that are there.
ReplacedBehind(alias, words) ==
    IF Head(words) \notin DOMAIN alias THEN words
    ELSE <<Head(alias[Head(words)])>> \o Tail(words) \o Tail(alias[Head(words)])

\* One turn of alias_resolve: an alias gives way to its command, with its
\* arguments before those that are there.
Replaced(alias, words) ==
    IF Head(words) \notin DOMAIN alias THEN words
    ELSE <<Head(alias[Head(words)])>> \o (Tail(alias[Head(words)]) \o Tail(words))

\* The turns of alias_resolve, at most n of them.
Replacing(alias, words, n) ==
    LET after[k \in 0 .. n] == IF k = 0 THEN words ELSE Replaced(alias, after[k - 1])
    IN  after

\* alias_resolve: one alias after the other, until the word is no alias, what has
\* been gathered is longer than the buffer or the chain is too long.
Resolve(alias, words) ==
    LET end == Replacing(alias, words, MaxResolve - 1)[MaxResolve - 1]
    IN  IF Head(words) \notin DOMAIN alias THEN [fits |-> TRUE, words |-> words]
        ELSE [fits |-> Head(end) \notin DOMAIN alias /\ Len(end) <= Room, words |-> end]

-----------------------------------------------------------------------------
(* Keys.                                                                   *)

keyval == <<"BACKSPACE", "BREAK", "DELETE", "DOWN_ARROW", "END", "ENTER", "F1", "F2", "F3",
            "F4", "F5", "F6", "F7", "F8", "F9", "F10", "F11", "F12", "HOME", "INSERT",
            "LEFT_ARROW", "PAGE_DOWN", "PAGE_UP", "RETURN", "RIGHT_ARROW", "SPACE",
            "SUSPEND", "TAB", "UP_ARROW">>

\* What strcasecmp makes of the names in it: F10 to F12 come after F1.
Rank(i) == CASE i \in 8 .. 15 -> i + 3 [] i \in 16 .. 18 -> i - 8 [] OTHER -> i

\* bsearch for the name at i: halves [low, high), at most five times, until it
\* is hit or nothing is left.
Halved(b, i) ==
    LET at == (b.low + b.high) \div 2
    IN  CASE b.low < b.high /\ Rank(i) < Rank(at + 1) -> [b EXCEPT !.high = at]
          [] b.low < b.high /\ Rank(i) > Rank(at + 1) -> [b EXCEPT !.low = at + 1]
          [] OTHER -> b
Bsearch(i) ==
    LET range[k \in 0 .. 5] ==
            IF k = 0 THEN [low |-> 0, high |-> Len(keyval)] ELSE Halved(range[k - 1], i)
    IN  range[5].low < range[5].high

NamedKeys == {keyval[i] : i \in {j \in 1 .. Len(keyval) : Bsearch(j)}}

\* Keys that are written as a character or a number; 0x112 is F10.
Codes == [w \in {"q", "0x7f", "0x112"} |-> IF w = "0x112" THEN "F10" ELSE w]
NoKey == "none"

\* bind_get_keycode.
KeyOf(word) ==
    IF word \in NamedKeys THEN word
    ELSE IF word \in DOMAIN Codes THEN Codes[word] ELSE NoKey

\* The flags of /bind and /unbind: the set that is meant, and the rest.
BindSet(args) == IF args # << >> /\ Head(args) = "-buddy" THEN "blist" ELSE "main"
BindArgs(args) == IF args # << >> /\ Head(args) \in {"-buddy", "-main"} THEN Tail(args) ELSE args

-----------------------------------------------------------------------------
(* Options.                                                                *)

\* global_pref, by type, in its order.
global_pref == <<[name |-> "AUTO_RECONNECT", type |-> "bool"], [name |-> "CMDCHARS", type |-> "char"],
                 [name |-> "PROMPT", type |-> "str"], [name |-> "SCROLLBUF_LEN", type |-> "int"]>>
OptNames == {global_pref[i].name : i \in DOMAIN global_pref}
TypeOf(name) == (CHOOSE p \in ToSet(global_pref) : p.name = name).type

Yes == {"ON", "TRUE", "1"}
No == {"OFF", "FALSE", "0"}
Digits == <<"0", "1", "2", "3", "4", "5", "6", "7", "8", "9">>
Number(word) == CHOOSE n \in 0 .. 9 : Digits[n + 1] = word

\* opt_set_bool, opt_set_char, opt_set_int and opt_set_str: whether the value is
\* a good one.
Accepts(name, value) ==
    CASE TypeOf(name) = "bool" -> Len(value) = 1 /\ value[1] \in Yes \cup No \cup {"TOGGLE"}
      [] TypeOf(name) = "int"  -> Len(value) = 1 /\ value[1] \in ToSet(Digits)
      [] TypeOf(name) = "char" -> First(value) # ""
      [] OTHER -> TRUE

\* The words that the program itself writes.
OwnWords ==
    {"", "win", "set", "alias", "bind", "-buddy", "input", "send", "backspace", "TRUE", "FALSE",
     " ", "/", "%N"} \cup ToSet(keyval) \cup DOMAIN Codes \cup OptNames \cup ToSet(Digits)

ASSUME WordsAssumption == OwnWords \subseteq Words

\* What they store; scrollbuf_len_update keeps the length at the rows of the
\* current window.
NewValue(name, value, old, r) ==
    CASE TypeOf(name) = "bool" -> IF value[1] = "TOGGLE" THEN ~old ELSE value[1] \in Yes
      [] TypeOf(name) = "char" -> IF Len(value) = 1 THEN Char(value[1]) ELSE First(value)
      [] TypeOf(name) = "str"  -> value
      [] TypeOf(name) = "int"  -> Max({Number(value[1]), r})

-----------------------------------------------------------------------------
(* Commands that change the configuration.  Without arguments, or with an  *)
(* incomplete or a bad one, they print something.                          *)

CmdSet(c, args, r) ==
    IF Len(args) < 2 \/ args[1] \notin OptNames THEN c
    ELSE IF ~Accepts(args[1], Tail(args)) THEN c
    ELSE [c EXCEPT !.opts[args[1]] = NewValue(args[1], Tail(args), @, r)]

CmdAlias(c, args) ==
    IF Len(args) < 2 THEN c ELSE [c EXCEPT !.alias = AliasAdd(@, args[1], Tail(args))]

CmdUnalias(c, args) ==
    IF Len(args) # 1 THEN c ELSE [c EXCEPT !.alias = Without(@, args[1])]

\* bind_add and bind_remove.
BindAdd(binds, key, words) == With(binds, key, words)
BindRemove(binds, key) == Without(binds, key)

CmdBind(c, args) ==
    LET rest == BindArgs(args)
    IN  IF Len(rest) < 2 \/ KeyOf(rest[1]) = NoKey THEN c
        ELSE [c EXCEPT ![BindSet(args)] =
                BindAdd(@, KeyOf(rest[1]), Bound(Tail(rest), c.opts.CMDCHARS))]

CmdUnbind(c, args) ==
    LET rest == BindArgs(args)
    IN  IF rest = << >> \/ KeyOf(Head(rest)) = NoKey THEN c
        ELSE [c EXCEPT ![BindSet(args)] = BindRemove(@, KeyOf(Head(rest)))]

\* run_command, as far as the configuration is concerned.
RunCommand(c, words, r) ==
    LET line == Resolve(c.alias, words)
        args == Tail(line.words)
    IN  IF ~line.fits THEN c
        ELSE CASE Head(line.words) = "set"     -> CmdSet(c, args, r)
               [] Head(line.words) = "alias"   -> CmdAlias(c, args)
               [] Head(line.words) = "unalias" -> CmdUnalias(c, args)
               [] Head(line.words) = "bind"    -> CmdBind(c, args)
               [] Head(line.words) = "unbind"  -> CmdUnbind(c, args)
               [] OTHER -> c

-----------------------------------------------------------------------------
(* The sets of commands.                                                   *)

window_command == {"bind", "bind_next", "clear", "close", "dump", "erase", "ignore", "list", "next",
                   "prev", "rename", "renumber", "set", "skip", "swap", "unignore", "unskip"}
history_command == {"clear", "list", "next", "prev"}
input_command == {"backspace", "clear", "clear_next_word", "clear_prev_word", "clear_to_end",
                  "clear_to_start", "delete", "end", "find_next_cmd", "focus_next", "insert", "left",
                  "next_word", "prev_word", "prompt", "right", "send", "start"}
scroll_command == {"by", "down", "end", "page_down", "page_up", "start", "up"}
timer_command == {"add", "del", "del_refnum", "list", "purge"}
chat_command == {"ban", "ignore", "invite", "join", "kick", "leave", "list", "send", "topic", "unignore"}
acct_command == {"save", "set"}

\* command_set, from its second entry on: the main set is the first.
command_set == <<[type |-> "win", set |-> window_command], [type |-> "history", set |-> history_command],
                 [type |-> "input", set |-> input_command], [type |-> "scroll", set |-> scroll_command],
                 [type |-> "timer", set |-> timer_command], [type |-> "chat", set |-> chat_command],
                 [type |-> "acct", set |-> acct_command]>>

\* The CMDSET_ constants that cmd_win, cmd_history and the others pass on.
CMDSET == [win |-> 1, history |-> 2, input |-> 3, scroll |-> 4, timer |-> 7, chat |-> 8,
           file |-> 9, acct |-> 10]

\* What they look for: their first argument, or "list".  /input and /scroll do
\* nothing without one.
Wanted(words) ==
    IF Tail(words) # << >> THEN words[2]
    ELSE IF words[1] \in {"input", "scroll"} THEN "" ELSE "list"

\* run_one_command in the set: the set and the command that is run.
Dispatched(words) ==
    LET entry == command_set[CMDSET[words[1]]]
    IN  IF Wanted(words) \in entry.set THEN <<entry.type, Wanted(words)>> ELSE << >>

Sets == DOMAIN CMDSET

\* A command line is run.  Beyond command_set anything may be found; /chat and
\* /file look there only while the account is, or can be, connected.
Run(words) ==
    LET line == Resolve(config.alias, words)
    IN  IF line.fits /\ Head(line.words) \in Sets /\ Wanted(line.words) # ""
        THEN /\ UNCHANGED config
             /\ IF CMDSET[Head(line.words)] \in DOMAIN command_set
                THEN ran' = [asked |-> <<Head(line.words), Wanted(line.words)>>,
                             got |-> Dispatched(line.words)] /\ ok' = ok
                ELSE ran' = ran /\ ok' \in BOOLEAN
        ELSE config' = RunCommand(config, words, rows) /\ UNCHANGED <<ran, ok>>

-----------------------------------------------------------------------------
(* The file.                                                               *)

OptionLine(p, v) ==
    CASE p.type = "bool" -> <<"set", p.name, IF v THEN "TRUE" ELSE "FALSE">>
      [] p.type = "char" -> IF v = " " THEN <<"set", p.name>> ELSE <<"set", p.name, v>>
      [] p.type = "int"  -> <<"set", p.name, Digits[v + 1]>>
      [] p.type = "str"  -> <<"set", p.name>> \o v

\* opt_write: a string that is unset is not written.
OptionLines(opts) ==
    FlattenSeq([i \in 1 .. Len(global_pref) |->
        LET p == global_pref[i] IN
        IF p.type = "str" /\ opts[p.name] = << >> THEN << >>
        ELSE <<OptionLine(p, opts[p.name])>>])

\* write_alias_line, in the order of the hash.
AliasLines(alias, order) == [i \in DOMAIN order |-> <<"alias", order[i]>> \o alias[order[i]]]

\* Variant: both sets are written alike.
BindLinesUnflagged(binds, flag) ==
    LET order == SetToSeq(DOMAIN binds)
    IN  [i \in DOMAIN order |-> <<"bind", order[i]>> \o binds[order[i]]]

\* write_bind_line and write_bind_blist_line; their order does not matter.
BindLines(binds, flag) ==
    LET order == SetToSeq(DOMAIN binds)
    IN  [i \in DOMAIN order |-> <<"bind">> \o flag \o <<order[i]>> \o binds[order[i]]]

\* save_global_config.
Lines(c, order) ==
    OptionLines(c.opts) \o AliasLines(c.alias, order)
    \o BindLines(c.main, << >>) \o BindLines(c.blist, <<"-buddy">>)

\* read_conf: a line loses a leading CMDCHARS, and is run.
ReadLine(c, line, r) == RunCommand(c, WithoutCmdchar(line, c.opts.CMDCHARS), r)
Reading(c, lines, r) ==
    LET read[k \in 0 .. Len(lines)] ==
            IF k = 0 THEN c ELSE ReadLine(read[k - 1], lines[k], r)
    IN  read
ReadConf(c, lines, r) == Reading(c, lines, r)[Len(lines)]

\* The options as compiled in, bind_init and alias_init.
Defaults == [opts |-> [AUTO_RECONNECT |-> FALSE, CMDCHARS |-> "/", PROMPT |-> <<"%N">>,
                       SCROLLBUF_LEN |-> 9],
             alias |-> << >>,
             main |-> [k \in {"RETURN", "0x7f", "BACKSPACE"} |->
                         <<"input", IF k = "RETURN" THEN "send" ELSE "backspace">>],
             blist |-> << >>]

\* read_global_config, from the defaults.
Started(lines, r) == ReadConf(ReadConf(Defaults, SystemRc, r), lines, r)

-----------------------------------------------------------------------------
Init ==
    /\ rows \in Heights
    /\ config = Started(<< >>, rows)
    /\ file = << >> /\ saved = NotSaved /\ whole = TRUE
    /\ ran = [asked |-> <<"", "">>, got |-> <<"", "">>]
    /\ steps = 0 /\ ok = TRUE

Step == ok /\ steps < MaxSteps /\ steps' = steps + 1

\* A line that is typed is run by a key that is bound to "input send".
BindingOf(k) == Bared(config.main[k], config.opts.CMDCHARS)
Enter == Step /\ \E k \in DOMAIN config.main : BindingOf(k) = <<"input", "send">>

\* A command line is entered.
Type == \E words \in Typed :
    Enter /\ Run(words) /\ UNCHANGED <<rows, file, saved, whole>>

\* A key is pressed: bind_exec, binding_run and run_mcommand.  Without a binding
\* a character is typed.
PressKey == \E k \in {"q", "F10"} :
    /\ Step
    /\ k \in DOMAIN config.main
    /\ Run(BindingOf(k))
    /\ UNCHANGED <<rows, file, saved, whole>>

\* /save: all of it is written, and the file takes the place of the old one.
Save == \E order \in SetToSeqs(DOMAIN config.alias) :
    /\ Enter
    /\ file' = Lines(config, order)
    /\ saved' = config /\ whole' = TRUE
    /\ UNCHANGED <<config, rows, ran, ok>>

\* /save when the disk is full: fprintf and fclose fail, nobody looks, and the
\* file takes the place of the old one all the same.  A line without its end
\* is not run.
SaveCut == \E order \in SetToSeqs(DOMAIN config.alias) :
    /\ Enter
    /\ \E n \in 0 .. Len(Lines(config, order)) - 1 : file' = SubSeq(Lines(config, order), 1, n)
    /\ saved' = config /\ whole' = FALSE
    /\ UNCHANGED <<config, rows, ran, ok>>

\* /save when fopen or rename fails.
SaveFails == Enter /\ UNCHANGED <<config, rows, file, saved, whole, ran, ok>>

\* /load of the file.
CmdLoad ==
    /\ Enter
    /\ config' = ReadConf(config, file, rows)
    /\ UNCHANGED <<rows, file, saved, whole, ran, ok>>

\* The program ends and is started again, on whatever terminal.
Restart == \E r \in Heights :
    /\ Step
    /\ rows' = r /\ config' = Started(file, r)
    /\ UNCHANGED <<file, saved, whole, ran, ok>>

Stopped == ~ok /\ UNCHANGED vars

Next == Type \/ PressKey \/ Save \/ SaveCut \/ SaveFails \/ CmdLoad \/ Restart \/ Stopped

Spec == Init /\ [][Next]_vars

-----------------------------------------------------------------------------
\* What the configuration holds.
TypeOK ==
    /\ rows \in Heights /\ whole \in BOOLEAN /\ ok \in BOOLEAN
    /\ DOMAIN config.opts = OptNames
    /\ config.opts.SCROLLBUF_LEN \in Nat
    /\ DOMAIN config.main \subseteq ToSet(keyval) \cup {Codes[w] : w \in DOMAIN Codes}

\* An alias becomes what it stands for, with what was typed behind it, through
\* any chain of aliases; the command is refused exactly if the chain comes
\* back to itself or the line gets too long: as many turns as there are aliases
\* are enough.
Rewriting(words) ==
    LET after[k \in 0 .. Cardinality(DOMAIN config.alias)] ==
            IF k = 0 THEN words
            ELSE LET ws == after[k - 1] IN
                 IF Head(ws) \in DOMAIN config.alias
                 THEN config.alias[Head(ws)] \o Tail(ws) ELSE ws
    IN  after
Rewritten(words) == Rewriting(words)[Cardinality(DOMAIN config.alias)]
AliasesResolve ==
    \A words \in Typed :
        LET line == Resolve(config.alias, words)
            end  == Rewritten(words)
        IN  Cardinality(DOMAIN config.alias) < MaxResolve =>
            /\ line.fits => line.words = end
            /\ line.fits <=> \/ Head(words) \notin DOMAIN config.alias
                             \/ Head(end) \notin DOMAIN config.alias /\ Len(end) <= Room

\* The lines of the file are read as what they were written for: no alias and
\* no command character, of those saved or those there are without a file,
\* takes their first word, or the first letter of a binding, from them.
Readable(c, base) ==
    /\ (DOMAIN c.alias \cup DOMAIN base.alias) \cap {"set", "alias", "bind"} = {}
    /\ \A ch \in {c.opts.CMDCHARS, base.opts.CMDCHARS} :
          /\ \A w \in {"set", "alias", "bind"} : FirstLetter(w) # ch
          /\ \A f \in {c.main, c.blist} : \A k \in DOMAIN f : Bound(f[k], ch) = f[k]

\* What is expected of an option: the blank is not read back as a character,
\* and an unset string is not written.
Expected(name, base, r) ==
    CASE TypeOf(name) = "int" -> Max({saved.opts[name], r})
      [] TypeOf(name) = "char" /\ saved.opts[name] = " " -> base.opts[name]
      [] TypeOf(name) = "str" /\ saved.opts[name] = << >> -> base.opts[name]
      [] OTHER -> saved.opts[name]

\* The keys that /bind finds by the name they are saved under: not F10 to F12.
Found(binds) == [k \in DOMAIN binds \ {"F10", "F11", "F12"} |-> binds[k]]

\* What is restored, over what is there without a file; of a file that was cut
\* each part is either the one that was saved or the one without a file.
Restores(got, want, base) ==
    IF whole THEN got = Over(want, base)
    ELSE \A x \in DOMAIN got : \/ x \in DOMAIN want /\ got[x] = want[x]
                               \/ x \in DOMAIN base /\ got[x] = base[x]

\* The next start has the options, aliases and bindings that were saved last,
\* on whatever terminal, and after the disk was full nothing that was not in
\* one of the files.
RestartRestores ==
    saved # NotSaved =>
        \A r \in Heights :
            LET now  == Started(file, r)
                base == Started(<< >>, r)
            IN  Readable(saved, base) =>
                /\ Restores(now.opts, [o \in OptNames |-> Expected(o, base, r)], base.opts)
                /\ Restores(now.alias, saved.alias, base.alias)
                /\ Restores(now.main, Found(saved.main), base.main)
                /\ Restores(now.blist, Found(saved.blist), base.blist)

\* /timer add, and every other command of a set, is the command of that set; a
\* command that no set has may be refused.
DispatchByName ==
    (\E entry \in ToSet(command_set) : ran.asked[1] = entry.type /\ ran.asked[2] \in entry.set)
        => ran.asked = ran.got
=============================================================================
