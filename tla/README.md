# ncic in TLA+

A verification project for [ncic](../src), a curses chat client written in C. It holds TLA+ modules translated
from the source, configurations that check them with TLC on small instances, and proofs checked by TLAPS.
Source paths are relative to `src/src/`; paths that start with `doc/` are relative to `src/`.

`PROJECT.json` is the machine-readable companion: the components, the runs, the source lines each definition
translates, the hazards of the code and the properties that look for them.

## 1. The system

ncic has one thread. `main` (`ncic.c`) sets everything up and then loops: `pork_io_run` serves the descriptors that
`select` reports (the keyboard, the server), `pork_acct_update` looks after keep-alives, and once a second
`timer_run` and `pork_acct_reconnect_all` run. Everything else happens in callbacks under these four calls. What is
hard here is therefore never two threads: it is a callback that changes the list the caller is walking, a pointer
kept across a call that frees its target, a blocking call inside the loop, an answer of the server that arrives
after the account's state has moved on, and arithmetic on unsigned counters.

| Component (files) | State | Operations | What makes it correct | Where |
|---|---|---|---|---|
| **Account and reconnection** (`ncic_acct.c`) | `screen.acct`, the flags `connected`, `successful_connect`, `disconnected`, `reconnecting`, the count `reconnect_tries`, the time `reconnect_next_try` | connect, connected, disconnected, connect_fail, reconnect, reconnect_all, del | a loss ends in a new connection or in the end of the account; never more attempts than allowed; one attempt at a time; the flags say what the session does | `Conn`, `Lifecycle` |
| **IRC session** (`ncic_irc.c`, `ncic_irc_output.c`, `ncic_inet.c`, `ncic_queue.c`) | socket, TLS state, outbound queue, its source in the reactor | connect, connected, event, connect_abort, send, flush_outq, free; some thirty callbacks that each format a command | what is queued is sent once and in order, to the session it was typed for; the socket polled is open and its own | `Conn` (life), `Traffic` (what goes over it) |
| **Main loop** (`ncic.c`) | `timer_last_run`, the signal flag | one iteration, exit | every part gets its turn | `Conn`; keys in `InputLine`, `Commands` |
| **Reactor** (`ncic_io.c`) | `io_list` of sources, each with a condition mask, or dead | add, del, run | a callback may add and delete sources, also the one being served; no dead source is called | the session's source in `Conn` |
| **Server input** (`ncic_irc_input.c`, `ncic_naken.c`) | the input buffer and its offset | dispatch, process_input | each line the server sent is processed once, whole | `Traffic` |
| **Timers** (`ncic_timer.c`) | `screen.timer_list` | add, del, del_refnum, purge, run | each timer runs when due, as often as asked, whatever the commands do to the list | `Timer` |
| **Scroll buffer** (`ncic_swindow.c`, `ncic_imsg.c`) | the messages, two pointers into them, three counters | add, scroll, clear, erase, prune, resize, lastlog, wordwrap | pointers and counters describe one screen; a window follows its output, or stays where it was scrolled | `Swindow` |
| **Windows and screen** (`ncic_screen.c`, `ncic_imwindow.c`) | a circular list of windows, the current one, the account and the input line of each | create, close, cycle, swap, renumber, skip, bind, resize | every window can be reached; the current window is on the list; inputs fit the screen | `Windows` |
| **Input line and history** (`ncic_input.c`) | the line, the cursor, the history list and the place in it | insert, delete, move, kill, complete, history back and forth | the cursor is in the line, the place in the history is a node of it | `InputLine`, `Editor` |
| **Chat rooms** (`ncic_chat.c`) | rooms, their users, their windows | join, leave, kick, nick change, mode | a room's window points back | what can be reached in `Windows` |
| **Messages, away state** (`ncic_msg.c`) | away message, autoreply table | send, away, back, sign off | away and back agree with what the server was told | `Traffic` |
| **Commands** (`ncic_command.c`) | none of its own | dispatch, the handlers | a command of a set is the command of that set | dispatch in `Commands`, handlers where their state is |
| **Aliases** (`ncic_alias.c`), **key bindings** (`ncic_bind.c`) | hash tables | add, del, expand; add, del, run | expansion ends, and gives what was meant; a key is found by the name it is saved under | `Commands` |
| **Settings** (`ncic_set.c`) | option tables and change handlers | set, per window and global | a handler leaves the part it reaches into consistent | `Commands` (`/set`), handlers in `Swindow`, `Windows`, `InputLine`, `Conn` |
| **Configuration files** (`ncic_conf.c`) | ncicrc | write it; read it line by line as commands | a restart has what was saved | `Commands`; the files of an account are not modelled |
| **Lists and hash tables** (`ncic_list.c`) | | add, remove, find | | the list of timers in `Timer` |
| **Protocol table** (`ncic_proto.c`) | constant | | | not modelled |
| **Text** (`ncic_cstr.c`, `ncic_format.c`, `ncic_color.c`, `ncic_misc.c`, `ncic_util.c`) | none | pure functions on strings | bounded output | not modelled |
| **Status bar, help, options, curses** (`ncic_status.c`, `ncic_help.c`, `ncic_opt.c`, `ncic_screen_io.c`) | what is drawn | output | | not modelled |
| **List template** (`ncic_slist2.c`) | | | | not called by the program |

How they interact: the main loop calls the reactor, the reactor the session, the session the account
(`pork_acct_connected`, `pork_acct_disconnected`), the account the session again (`irc_connect`, `irc_reconnect`,
`irc_connect_abort`, `irc_free`) and the screen (`screen_bind_all_unbound`, `imwindow_bind_next_acct`). Commands, typed or run by a
timer, call all of them; so a timer's command can delete that timer, and `/disconnect` deletes the account of the
window it was typed in. Settings call back into the windows.
What is typed goes through the input line, a key binding (`input send`), the aliases and the dispatch of commands before it reaches
any of them; `/save` and the next start send it through a file as well.

## 2. The modules

Each module says in its header what its variables stand for. `PROJECT.json` maps every definition to source lines.

**`Lifecycle`** is the abstract account: one phase (`idle`, `connecting`, `online`, `retrying`, `waiting`, `gone`)
and a count of attempts. It promises the order in which phases follow each other, that a success resets the
count, that attempts are counted one by one, and that an account that is gone never comes back.

**`Conn`** is the account, its session, the session's source in the reactor and the main loop.

- `pc` is the call of the loop that runs next (`reap`, `session`, `keys`, `update`, `second`, `timers`, `retry`); `busy` is the
  blocking call the loop sits in (`resolve`: `getaddrinfo` and `connect`; `tls`: `SSL_connect` and the `select` without
  a timeout around it; `read`: `SSL_read`; `write`: `SSL_write` in `irc_send`; `flush`: `irc_flush_outq`; `bye`: the quit message and `SSL_shutdown`
  of `/disconnect`). After the handshake the socket is blocking (`ncic_irc.c:129`) and `SSL_MODE_AUTO_RETRY` is set (`ncic_irc.c:94`), so all of
  these but the first last as long as the peer likes, although `select` said that a byte had come. An action is a handler up to its return or up to a blocking call.
- `acct` and `session` are the fields that matter. `mem` says what `screen.acct` points to. Time appears only in comparisons, so the model
  keeps the differences: `acct.age` is `now - reconnect_next_try`, `ticked` is `timer_last_run < now`.
- `open` is the set of open descriptors. `socket()` returns the lowest free one; `irc_event` does not close the socket at
  end of file, and `irc_connect_abort` closes `session->sock`, a number remembered from the last session that
  got as far as TLS. Both are modelled, so descriptors run out and numbers are reused.
- Commands (`/connect`, `/disconnect`, `/quit`, `/set AUTO_RECONNECT`, one that sends, before there is a socket or with one) come from the keyboard or a timer.

**`Timer`** is the list of timers and the walk over it. `timer_run` is split at `run_mcommand`: between `Trigger` and
`Again`/`LastRun` the command of the timer runs up to `MaxCommands` of the `/timer` commands, so the list changes under
`pass.cur` and `pass.next`. The fields `runs` and `total` of a timer are history variables, for `RunsAddUp`. In this tree
`/timer` reaches the commands of another set (section 5), so no timer can be added: the module is about `ncic_timer.c` and
`cmd_timer_*` as they work once that index is right.

**`Swindow`** is the scroll buffer of one window. A window is a record, every operation of `ncic_swindow.c` an operator
from windows to windows; they compose as the C functions call each other, and an action installs the result. A
message is the length of its text, and `Height` is `imsg_lines`.

**`Editor`** is the abstract input line: the text before and after the cursor, and the lines of the past. It promises that
text is put in and taken out next to the cursor only, that what replaces the line as a whole is a line of the past, and
that the past loses lines only at its old end.

**`InputLine`** is `ncic_input.c`, with the commands that keys run and the completion of `cmd_input_find_next_cmd`. An
input line is a record (`text`, `cur`, `prompt`, `hist`, `hcur`, ...), every function an operator on it. The cursor is kept as
the code keeps it, a 16-bit number counted from the start of the prompt. `hcur` is an index in `hist`; one beyond its end is a
node that was freed, and following it, or a position outside the buffer, ends in `ok # "ok"`.

**`Windows`** is the list of windows. `ring` is `screen.window_list`, searched by number as `screen_find_refnum` does; a window
is a record with its number, owner, skip flag, option `PRIVATE_INPUT` and the input line it uses. The account appears
as far as windows see it (`acct`, `rooms`): `ServerWelcome` is a line that starts with `@`, which opens the room
"main" and puts it in the status window, `AcctDel` is `pork_acct_del` with `chat_leave_all`.

**`Traffic`** is what goes over the connection: `irc_send` and the outbound queue, `naken_input_dispatch` and the buffer it keeps
between reads, and the away state. They are one module because they meet: `irc_event` reads, then flushes;
`/msg` may take the away state back; socket, queue and buffer outlive each connection. Bytes are letters of a
small alphabet, commands a kind and a number. `seen` is a history variable. The connection's life is reduced to
`link`; which losses are tried again is `Conn`'s question, and here both outcomes happen.

**`Commands`** is the way of a command line: aliases, key bindings, options, dispatch, and `ncicrc`. Its actions are typing a line,
pressing a bound key, `/save` (complete, cut short by a full disk, failing), `/load` and a restart on another terminal. A line
is a sequence of words (`Words` is any set that has those the program itself writes). Of a word only its first letter and what is left without it can be told (`FirstLetter`, `Rest`),
which is what the three places that take the character `CMDCHARS` off need: `read_conf` takes one off every line of the file (`WithoutCmdchar`), `cmd_bind` one off what a key is bound to, unless
that is all of it (`Bound`), and `run_mcommand` all of them (`Bared`). The file is a sequence of lines. There is one option of each type, and numbers have one digit. `CMDSET` and `command_set` are
the constants and the table of the code, which do not fit each other.

**`MCConn`, `MCTimer`, `MCSwindow`, `MCInput`, `MCWindows`, `MCTraffic`, `MCCommands`** are the instances for TLC.

**`ConnProofs`, `TimerProofs`, `SwindowProofs`, `TrafficProofs`, `WindowsProofs`, `InputLineProofs`, `CommandsProofs`** are the proofs about the module each is named after;
**`ListLemmas`** holds what they share: facts about sequences (what `SubSeq`, `\o`, `Append`, `SelectSeq`, `RemoveFirst`, `RemoveAt` and `FlattenSeq` leave of a sequence and its order;
when one is found in another in order, `Embeds`), about the least and the greatest number of a set, and about loops: a function on `0 .. n` that is defined turn by turn exists
(`LoopExists`), and what one turn keeps holds after all of them (`UpToInduction`).

Definitions commented `Variant` are not part of a specification. Each is the definition that follows it with a
mistake one could make in the C code (a counter not reset, a pointer left behind, `>` for `>=`), named in
`PROJECT.json` together with the property that rejects it.

### Undefined behaviour

`screen.acct` is never reset to NULL, so the account is used after `pork_acct_del` freed it. A read of freed memory has
two outcomes in `Conn`: the bytes are still there and the code goes on, or the program crashes (`TouchFreed`); a
second `free` always crashes, since glibc aborts. In `Timer` following a freed node leads to
`pass.at = "undefined"`, in `Swindow` following NULL or a freed message to `view.ok = FALSE`, in `InputLine` to `ok = "freed"` or `"buffer"`, in
`Windows` to `ok = FALSE`, in `Traffic` to `state = "crashed"`, and in `Commands` a set beyond `command_set` may end in `ok = FALSE`: there the model stops, because nothing can
be said of what the program does next. The counters of the scroll buffer are `uint32_t` and wrap at `Word`; the input line's
cursor is 16 bits wide, and `Word` bounds it too.

## 3. What the runs check

| Run | Question | Result |
|---|---|---|
| `conn` | do account, session and reactor stay consistent through connects, losses, retries, timeouts, commands and the use of a freed account, and does every attempt and every loss end? | holds, 96,010 states |
| `conn_refused` | is `/connect` refused only when there is an account? | violated |
| `conn_first` | does a first connection that fails end the account? | violated |
| `timer` | does the walk visit each timer once, with the right number of runs, while commands change the list, does it end, and do timers with a limit go away? | holds, 92,606 states |
| `swindow` | with messages of up to a screen, cleared and wrapped anew as `RegularStep` allows, do pointers and counters describe one screen, does a window follow its output, or stay scrolled back, and is its buffer bounded? | holds, 12,556 states |
| `swindow_scrolled` | does a window that is scrolled back show the same when a message is added? | violated |
| `swindow_lastlog` | is `/lastlog` safe from the pruning it causes? | violated |
| `input` | do line, cursor, completion and history fit each other, and is it an editor? | holds, 392,472 states |
| `windows` | do the list, the numbers, the input lines and the room of the status window stay consistent? | holds, 351,360 states |
| `traffic` | is each command written once and in order, does the server know who is away, do the reads give the lines? | holds, 552,958 states |
| `commands` | do aliases become what they stand for, and does a restart have what was saved? | holds, 201,155 states |
| `commands_sets` | is a command of a set looked for in that set? | violated |

The properties worth a reader's time:

- `ConnectedIsServed`: the flag `connected` and the reactor agree. A flag left set after a loss would leave an account that looks
  connected and that no event will ever reach.
- `NothingInFlightWhileWaiting`, `NoOverlappingAttempts`: a timed-out attempt cannot be answered later and be
  taken for the next one.
- `PolledIsOpen`: although `irc_connect_abort` closes a number it remembers from earlier, the descriptor it
  closes is never one the reactor waits on. (It may belong to a part of the process the model does not have.)
- `QueueDrainedOnceConnected`: what was typed before the first connection is not sent in a later one.
- `TriesBounded`, `GivenUpWhenExhausted`: the two halves of `RECONNECT_TRIES`: never more, and never fewer.
- `ImplementsLifecycle`: the refinement, checked with TLC and proved.
- `AttemptResolves`, `LossResolves`: as long as no call of the peer's is the last thing the program does (`PeerLetsGo`), every attempt and every loss ends: the program itself
  never leaves an account waiting. Without the premise neither holds: TLC then finds the program waiting for ever in a call of the peer's (section 5).
- `NoTimerSkipped`: adding at the head and reading `cur->next` before the command runs are what make the
  walk sound; either one alone is not enough.
- `RunsAddUp`: runs made and runs to come add up to those asked for.
- `OneScreen`: `lines(top..bot) - top_hidden - bottom_hidden + bottom_blank = rows`, over five numbers that
  no operation computes from one another.
- `UpAndDown`: `swindow_scroll_up_by` and `swindow_scroll_down_by` are different algorithms and inverse to each other.
- `FollowsOutput`, `StaysScrolledBack`, `BufferBounded`: the user's view of adding and pruning, over every addition, those that prune as much as they add or more among them. A window scrolled back
  within its newest message does not stay as it is (run `swindow_scrolled`); what is true is that it is not taken to its end. A buffer that grew while the window was
  scrolled back is cut to its limit by the first message that is shown again.
- `PlaceIsKept`: entering the history adds the line that is being typed and prunes at the other end, while a pointer to a
  node is held; the handler of `HISTORY_LEN` sets the count of lines rather than their limit. No key leads to a freed line as long as the option is not set to
  one of the values that do harm (section 5).
- `BackAndForth`, `WordsAreWords`, `CursorOnItsCharacter`: pairs of functions that only make sense together, each
  counting the cursor in its own way (with or without the prompt, in pages of the screen).
- `CompletionGoesRound`: completion works on its own last result; repeated, it goes through names and ends where it began, with the text and the
  cursor as they were, for any prompt and for a line that has no room left.
- `ImplementsEditor`: the refinement of the input line.
- `EveryWindowIsFound`: the list stays sorted, each number once, and complete, which the search relies on; `CyclingReachesAll`: for every pattern of windows to skip.
- `InputsFit`: `imwindow_destroy` decides by the option whether a line is to be freed; the option and the line agree at all times, and a line of a window's own has the screen's width (the shared one may not, section 5).
- `StatusShowsARoom`: `/send` in the status window follows `data` without a look, which is right as long as the account is online. Every line with `@`
  opens "main" again, so several rooms share the window.
- `QueuedOnceInOrder`: around `queue_putback_head`, losses and new connections. `OvertakesOnlyBeforeLogin`: a
  command written at once overtakes those that wait, but only between the handshake and the first input.
- `ServerKnowsAway`, `TablesAccounted`: the away state and its table against what was written, and exactly when they part: `/away` typed before there is a
  connection is written after the one that took it back.
- `WholeReadsWholeLines`, `NothingInvented`: what `naken_input_dispatch` gets right (reads that end with a line, lines that fit and have their marks), and what remains true when it gets it wrong.
- `AliasesResolve`: the turns of `alias_resolve` give the same line as rewriting word by word, and refuse exactly loops and
  lines that are too long, as long as there are fewer aliases than turns.
- `RestartRestores`: every option, alias and binding survives `/save` and a start on any terminal, but for named exceptions: blanks and unset strings (`Expected`), `F10` to `F12` (`Found`), and files whose lines an
  alias takes over or of whose words `CMDCHARS` takes the first letter off (`Readable`). Of a file that the full disk cut, each part is the saved one or the default.

Each module also has a type invariant `TypeOK`. TLC holds them all; `Conn`'s is part of run `conn` and is proved, the others
are not listed with a run, since the other invariants fail first when a value is wrong.

### Bounds, and why they are enough

- `conn`: `CONNECT_TIMEOUT` 2, `RECONNECT_INTERVAL` 1, `RECONNECT_MAX_INTERVAL` 2, so that the wait grows and is then cut off;
  `RECONNECT_TRIES` 3, so that there is a first, a middle and a last attempt; three descriptors, so that a leaked
  one, the current one and a new one exist together and then none is left; two queued commands, so that a flush
  has a first and a last turn. The safety properties are proved without these bounds.
- `timer`: two command strings, so that `timer del` can hit another timer than its own; intervals 0 (due at once) and 1;
  times 0 (no limit) and 2; three timers, so that the walk has a node on either side; two commands in a
  timer's string, so that one can add and delete.
- `swindow`: texts of one line and of two or three, windows of 3 or 4 rows and columns, buffers of 3 and 5, `SCROLL_ON_OUTPUT` on and off, up to five messages: more than a
  screen and more than the smallest buffer; every operation and option is used. Messages are not taller than the screen, and the run is of `RegularSpec`: a window is cleared, and written to below rows that
  clearing left blank, only with messages of one line, and a new wrap changes the lines of no message, because otherwise the properties do not hold (section 5). `swindow_scrolled` needs one size, one buffer and nothing but adding and scrolling.
- `input`: a buffer of 5 (four characters, so that words, blanks and a full line exist), a letter, a blank and a slash; prompts of
  0 and 1 and screens of 2 and 3 columns, so that the line takes several pages; a history of three lines, which the line put away when the history is entered
  can fill; two names in the main set and two in another, one the beginning of the other; `HISTORY_LEN` 0 and 1, which are harmless with three lines whatever the history holds. `Word` is 16 instead of 2^16: the cursor never gets near either.
- `windows`: the status window and two more, numbers below, among and above those in use, two widths, two rooms (an older and a newer). The targets are symmetric: they are only compared.
- `traffic`: a line that ends the login, one with its marks and one longer than the array it is copied to; an input buffer smaller than two lines, so that every
  cut of three lines happens, and a full buffer; two commands, so that one overtakes or fails after the other.
- `commands`: 24 lines, chosen so that aliases form a chain, a loop, and a name of a command, and so that `CMDCHARS` becomes the first letter of `set`, of what a key is bound to, or a blank; `MaxResolve` 6 for the code's 20000 (a chain of the
  two aliases is shorter), a buffer of four words, four steps: change, change, save, restart or press. `CHECK_DEADLOCK` is off because the steps are bounded.
- Left unbounded in the model: `reconnect_tries * RECONNECT_INTERVAL` is a 32-bit product in
  the code, whose overflow is not modelled; `last_refnum` does not wrap.

### Fairness

`Conn!Fairness` assumes what the program itself guarantees: between two blocking calls the loop turns, since `select` has a timeout of 0.6 seconds
(`WF` of `LoopTurns`, all steps of the loop together: no single handler is promised to be chosen); time passes; the
resolver and `connect` on a non-blocking socket return. Nothing is assumed of the peer: no fairness is on `Tls` or `PeerActs`, so a handshake, an `SSL_read` in the middle of a
record, an `SSL_write` to a peer that takes nothing, and the loop of `irc_flush_outq`, which turns as long as writing fails, may each be the last thing the program does.
The liveness properties carry this as their premise `PeerLetsGo`, that the program is infinitely often in none of these calls. It cannot be dropped:
without it TLC finds that even an attempt that has a timeout need not end (section 5).
`Timer!FairSpec` assumes that `timer_run` is called again and again and that time passes. The other modules
state safety only: what a user types next is not fair, and nothing in them waits.

## 4. What is proved

Each of the seven proof modules states its theorems for all values of the module's constants, from the `...Assumption` of the module alone. These say that
the constants have their types, that bounds are natural numbers, and little more: some timer interval is the longest (it is a `uint32_t`), a line of the server ends with its only newline, screens have a
width, buffers hold more than a terminating NUL, a command line that is typed has a first word, the words have those among them that the program writes and what is left of a word without its first letter, and the tables of commands are in order, as `bsearch` needs them. TLC evaluates them in the runs.

| Module | Theorems | State |
|---|---|---|
| `ConnProofs` | `Invariance` | `Spec => []IInv` |
| | `TypeCorrect`, `Served`, `WaitsAlone`, `PollsOpen`, `QueueDrained`, `BoundedTries` | the six invariants of run `conn` |
| | `NoOverlap`, `GivenUp` | its two action properties |
| | `Refinement` | `Conn` implements `Lifecycle` |
| `TimerProofs` | `Invariance`, `TypeCorrect` | `IInv` and the types |
| | `NoneSkipped`, `RunsAsAsked` | the two safety invariants of run `timer` |
| `SwindowProofs` | `Invariance` | with `MessagesFit`, of `RegularSpec`: `IInv` |
| | `OneScreenHolds`, `UpAndDownHolds` | so too: the two invariants of run `swindow` |
| | `FollowsOutputHolds`, `StaysScrolledBackHolds`, `BufferBoundedHolds` | so too: its three action properties |
| `TrafficProofs` | `Invariance`, `TypeCorrect` | `IInv` and the types |
| | `OnceInOrder`, `AwayIsKnown`, `TablesAreAccounted` | `QueuedOnceInOrder`, `ServerKnowsAway`, `TablesAccounted` |
| | `OvertakingEnds` | the action property `OvertakesOnlyBeforeLogin` |
| | `Reading` | `ReadInv`, the invariant of the line reader |
| | `NothingIsInvented`, `WholeLines` | `NothingInvented`, `WholeReadsWholeLines` |
| `WindowsProofs` | `Invariance`, `TypeCorrect` | `IInv` and the types |
| | `AllAreFound`, `OneIsVisible`, `AllFit`, `ARoomIsShown` | `EveryWindowIsFound`, `OnlyCurrentIsVisible`, `InputsFit`, `StatusShowsARoom` |
| | `CyclingGoesRound` | `CyclingReachesAll` |
| `InputLineProofs` | `LinesAreLines` | the types, and where a completion starts |
| | `CursorShown`, `WordsFound` | `CursorOnItsCharacter`, `WordsAreWords` |
| | `CompletionRound` | `CompletionGoesRound` |
| | `Invariance`, `PlaceKept`, `ThereAndBack` | in behaviours with `[][MildHistLen]_inp`: `IInv`, `PlaceIsKept`, `BackAndForth` |
| | `Implementation` | in these: `InputLine` implements `Editor` |
| `CommandsProofs` | `Invariance`, `TypeCorrect` | `IInv` and the types |
| | `AliasesStandForTheirCommands`, `ARestartRestores` | the two invariants of run `commands` |

### `Conn`

None of the safety invariants is inductive. For example `PolledIsOpen` says nothing of the moment after
`TcpEstablished`, when there is no source but the next step adds one for `session.sock`: the proof needs that
`session.sock` is open while `busy = "tls"`. `IInv` therefore consists of

- `TypeOK`;
- `CallInv`: inside a connect or a handshake the session has no polled source, inside a read it has one that reads; inside a handshake its
  socket is open; an account that waits is in no call;
- `SourceInv`: a polled descriptor is open, and a source that reads is on the session's own socket;
- `FlagInv`: the combinations of the account's flags that occur; in particular an account that was once
  connected and is not now is `disconnected`, and one that waits has tries left. This is what `GivenUp` rests on;
- `QueueInv`: a flush is under way only with something to flush, and a session that was ever connected has
  a socket (so that `irc_send` queues nothing) and an empty queue outside a flush.

The proof has one lemma per group of actions (`LoopStep`, `SessionEventStep`, `FlushOneStep`, `ConnectCallStep`, `TlsStep`,
`CommandStep`, `ReconnectAllStep`, `EnvironmentStep`), one step per action in it, and one step per part of `IInv` that the
action can disturb. The refinement is proved in the same way: `PhaseFacts` turns the five flags into a phase, and
each action either leaves `SameAccount` (a stutter) or is one named step of `Lifecycle`.

### `Timer`

`NoTimerSkipped` compares the node the walk saved before the command ran with the list after it; nothing in it is inductive, since the saved
node may itself be deleted. What carries the proof is that the list is filled at its head with growing numbers (`NewestFirst`): the place of the walk can then be told from the
number of the node alone, whether it is still there or not, and `WalkInv` says that no timer lies between the node that is run and the one saved.
`RunsInv` is `RunsAddUp` with one run more while the command of that timer is under way.

### `Swindow`

`IInv` says that the window is as `swindow_init` leaves it, or `Good`: the top is a place in the buffer (`Placed`), and the bottom is the place that many rows below it (`Shown`,
which is `OneScreen` made exact). Of the bottom only this sum is known, not that the lines hidden are of the message `bot` points to: `swindow_add` moves `bot` on and leaves `bottom_hidden` (section 5),
so that what is hidden may reach over several messages, and scrolling must come right all the same.
Two more parts make it inductive. A message is hidden as a whole, or lines are hidden above blank rows, only where a window of one-line messages
was cleared; otherwise a full screen lies below the top, and this is why scrolling down by one line finds a line on both ends.
The proof works on the sums of lines, `u[k]` being the lines of the first `k` messages: `Above` is `u[top - 1] + top_hidden`, `DownTo` is `u[bot] - bottom_hidden`
(`Layout`, `Screen`). One lemma per function of `ncic_swindow.c` says where the two go: `RedrawGood`, `EndGood`, `UpGood` (up by `n`, or to 0), `DownGood` (down by `n`, or to the end),
`PruneGood`, `AdjustGood`, `AddGood`, `PrintGood`, `ResizeGood`. `UpAndDown` is then arithmetic. What a message adds below a screen that is scrolled back, one at a time or as the copies of `/lastlog`, is `AddsKeep`. The loops (the sums, the turns of scrolling down, the matches that are printed) are recursive
functions; what they compute is shown by taking the least index at which it fails (`LeastNumber`).

The theorems have the hypothesis `MessagesFit`, no message is taller than the screen, and are about `RegularSpec`, which run `swindow` checks as well: every step of `Next` that is also a `RegularStep`, that is,
one that clears a window only when its messages have one line, writes below the rows a clear left blank only messages of one line, and changes the wrap only where no message gets other lines by it (`OneLines`, `Cleared`).
All other steps are free, with messages of several lines and `SCROLL_ON_OUTPUT` on, off, or changed on the way. This is the case in which the code keeps its numbers right, and no part of it can be dropped: where a window with messages of several lines is
cleared TLC finds `OneScreen`, `UpAndDown` and `BufferBounded` violated, where it is wrapped anew `OneScreen` and `UpAndDown`, by what section 5 lists. `ok` may still become
`FALSE` (a pruned match, a new `SCROLLBUF_LEN` in an empty window); the theorems are about the states before.

### `Traffic`

`IInv` is the properties themselves with the types of queue, wire and history (`SendingOK`) and `LoginInv`: a session that was read from has a socket and an empty queue while the program runs.
It is from `LoginInv` that a command given after the login can overtake nothing. The lemmas are about a record of queue, wire and history, as
`irc_send`, `pork_set_away` and `pork_set_back` hand it on; the actions put them together. What the line reader does is of no matter to this half (`HistoryOK`).

The line reader has an invariant of its own, `ReadInv`. `PartsKept` says that what was shown, what is kept in the buffer and what is still to read, put one behind the other, are found in
order in what was sent (`Embeds`): a read moves bytes from one of the three to the next and may drop some, a loss drops the last, and neither can turn two of them round. `NothingInvented` is its first part.
`WholeSoFar` says that, as long as no read has ended within a line, the buffer is empty and what is still to read is the lines from some number on (`InStep`). A read takes
a number of whole lines then, and the loop of `naken_input_dispatch` over them, one `UpToInduction` over the bytes of a line and one over the lines, shows the text of each; only a line that is too long or misses
its mark (`Harms`) can take the program down. That is the premise of `WholeReadsWholeLines`, and section 5 has what happens without it.

### `Windows`

`IInv` is `ListInv` (the list is sorted by number, no number twice, a window is there exactly if it is on the list, each fits the screen and the option it was created with),
`VisibleInv` (the current window, and it alone, is visible) and `RoomInv` (the pointer of the status window is the newest room, or NULL). The lemmas are about any list and
any windows, since closing a window, for one, goes on to another before it takes the first out. `VisibleInv` has the premise `ok`: closing a window when every other one is to be skipped ends it (section 5).

`CyclingReachesAll` follows from it without a further invariant. Windows are counted from the current one round the ring (`PlaceOf`); a turn of `screen_cycle_fwd` goes to the next place whose window is not to be skipped.
By induction on the places every such window is reached after at most as many turns as its place, and `screen_cycle_bak` from the next place finds the one that was left, since all those between are to be skipped.

### `InputLine`

`Line`, the types with the place where a completion starts, is inductive by itself, and `CursorOnItsCharacter` and `WordsAreWords` follow from it state by state: both
are facts about the arithmetic of two functions, for every text, prompt and width. The history needs `KeptOK`: the list has its head, the place is a line of it, and the
count is at most `MaxHistory` and at most `MaxHistory - 2` above the number of lines there are. The last part is what makes entering the history safe: it adds a
line, prunes at the other end, and then follows the pointer it read before. It is kept by every operation but the handler of `HISTORY_LEN`, which stores any value as the count.
The set `HistLens` of the values the user may give it is arbitrary. The theorems are about the behaviours in which it is given only values that are `Harmless` for
the history as it is then (`[][MildHistLen]_inp`): at most `MaxHistory`, and at most `MaxHistory - 2` above the number of lines there are. All behaviours in which the option is not set are among
them, and all those of run `input`. With another value `PlaceIsKept` does not hold, and the program goes on to read freed memory (section 5).

`CompletionGoesRound` follows from `Line` alone; the induction is on how often the key is pressed. Whatever name is filled in, the line is `Shown`: the word is the name now, and taking out what was filled in
gives the line as it was. The next press looks through the same set (`ShownCompletion`: what is looked at lies before the place where filling in begins, and what follows that place is no blank), and finds
the name that is shown before any later one, since no earlier name starts with it: that is `NamesAssumption`, which every table of `ncic_command.c` satisfies, as `bsearch` over it needs.
So each press shows a name further down than the last one (`TurnOn`), or the line as it was; after as many presses as there are names, no name is left.

The refinement maps a line to the text before and after the cursor and the lines of the past. `Edits` says of two lines that one is reached from the other by a step
of `Editor`; one lemma per function of `ncic_input.c` shows that of its result, and what the function leaves alone.

### `Commands`

`IInv` says that the configuration has its types (`Configs`), that the file consists of command lines, and that, once something was saved, it holds the first lines of what `save_global_config` makes of it, and all of them
if the disk had room (`FileOK`).

`AliasesResolve` compares the turns of `alias_resolve` with rewriting the line word by word, which the definition does as often as there are aliases. (The code fills its buffer from the end; the model puts the line together at its head, so
of that buffer only the size is checked.) That this is often enough is the pigeonhole principle: a
chain that is still one after as many turns has come to some alias twice, and from there on repeats itself (`ChainOrLoop`). The premise is that there are fewer aliases than `alias_resolve` takes turns, 20000: with more,
a chain that ends might be refused.

`ARestartRestores` goes through the file line by line. Reading starts from the configuration without a file, and stays `Between`: every entry is the one that is wanted or the one there was at first. In any such configuration
`Readable` guarantees that a line's first word is not an alias, and that neither it nor a binding in the line begins with `CMDCHARS`; the theorem is about any words and any first letters
(`LettersAssumption` says no more of them than what taking a first letter off means). So the line is run as the command it was written as, and sets the entry it was written for and nothing else
(`EntryRead`, one lemma below it for options, aliases and each set of bindings), which keeps what earlier lines have set (`EntryKeeps`). Each entry that is written has its line, and of a cut file each line is still
one of them (`FileRead`). The keys need `bsearch` itself: which names of the table it finds is computed in the proof, half by half (`Bsearch`).

`conn` and the proofs complement each other: the run shows on a small instance that the actions happen and that the
properties can fail, the theorems that the properties hold for every value of the options.

### Only model-checked

- The liveness properties (`AttemptResolves`, `LossResolves`, `LimitedTimersEnd`, `PassEnds`): fairness is out of the prover's reach.
- `Swindow!TypeOK`, which bounds the number of messages as well; `IInv` has the types.
- `InputLine!TypeOK`, where it says that the cursor stays below 2^16 and the text within its buffer; `Line` leaves both open.

No module with a theorem, and none it uses, has a `RECURSIVE` operator; the project has none at all.

## 5. Where code and documentation disagree

Five violation runs show that something a help page, a comment or a message promises does not hold.

1. `conn_refused`: after an account was given up or disconnected, `/connect` is refused ("already
   connected") because `pork_acct_connect` tests `screen.acct != NULL` and nothing resets it (`ncic_acct.c:130`).
2. `conn_first`: a fatal TLS error of the first connection returns from `irc_connected` after the source was deleted
   (`ncic_irc.c:124`). No event, timeout or command other than `/disconnect` will touch the account again.
3. `swindow_lastlog`: `swindow_print_matching` holds pointers to its matches while `swindow_add` prunes (`ncic_swindow.c:752`).
4. `swindow_scrolled`: a window scrolled back by less than the height of its newest message has `scrollbuf_bot` at the newest
   message, so `swindow_add` takes it for a window at the end and scrolls it (`ncic_swindow.c:467`), although `SCROLL_ON_OUTPUT` is off, its default.
5. `commands_sets`: `CMDSET_TIMER` is 7, and row 7 of `command_set` is `acct_command` (`ncic_command.c:1079`), because the constants for the buddy,
   blist and protocol sets have no rows. So `/timer add` is an unknown command, contrary to `doc/help/timer/add`; `/chat`, `/file` and `/acct` look beyond the table.

The models also contain, and TLC finds when asked, the following, for which no run is kept:

- `CONNECT_TIMEOUT` does not end an attempt to reconnect whose peer goes silent in the handshake (`ncic_irc.c:116`, a `select` without a timeout) or, before the line that ends the login, inside a TLS record
  (`SSL_read` on a socket that `ncic_irc.c:129` made blocking): the loop that would look at the time stands still. The user cannot leave it either, since keys are read by the same loop;
- a message added to a window scrolled back within its newest one moves `scrollbuf_bot` to the new message (`ncic_swindow.c:480`) while `bottom_hidden` still counts lines of the one before, as many as the new one has or more;
  the sum `OneScreen` is about remains right;
- the handler of `HISTORY_LEN` stores the value as the number of lines there are (`ncic_set.c:994`), where `doc/help/win/set` has "The maximum number of lines to be saved in the
  window's input history"; what is pruned is decided by `MAX_HISTORY_LEN` alone;
- a timer whose command is `timer purge`, or that deletes itself or the timer after it, makes `timer_run` use freed memory (`ncic_timer.c:116`);
- a change of the wrap changes the lines of messages, and `swindow_recalculate` scales `top_hidden` by the ratio of the
  widths, which is 1 (`ncic_swindow.c:291`); the next redraw subtracts below zero. In this tree `/win set WORDWRAP` changes nothing and
  `/win set WORDWRAP_CHAR` does: `window_var` has no row for `SHOW_BLIST`, so the rows after it are one too early (`ncic_set.h:146`);
- an attempt that fails at once leaves the account marked `reconnecting` with nothing under way until
  `CONNECT_TIMEOUT` (`ncic_acct.c:259`), against the comment at `ncic_acct.h:56`;
- with `RECONNECT_TRIES` 0 one attempt is made (`ncic_acct.c:309`), hence the second disjunct of `TriesBounded`;
- `pork_acct_reconnect_all` goes on with the account `pork_acct_connect_fail` just freed (`ncic_acct.c:315`);
- a message taller than the screen that is partly hidden at the top and ends exactly on the last row leaves
  `bot` and `bottom_hidden` as they were (`ncic_swindow.c:359`);
- a window cleared before it was full cannot be scrolled up (`ncic_swindow.c:679`), against `doc/help/win/clear`;
- setting `SCROLLBUF_LEN` for an empty window reads through NULL (`ncic_swindow.c:188`);
- closing a window when every other one is to be skipped leaves `cur_window` on the freed one (`ncic_screen.c:487`), hence the premise `ok`;
- the shared input line keeps its old width if every window has its own during a resize (`ncic_screen.c:256`);
- a read that ends within a line makes the next one scan from the start of the buffer only as far as it brought bytes
  (`ncic_irc_input.c:241`), a line torn before its mark is written through NULL (`ncic_irc_input.c:69`), and a long one overruns `input` (`ncic_irc_input.c:255`): hence the premises of `WholeReadsWholeLines`;
- `input_offset` is not reset for a new connection (`ncic_irc.c:63`);
- coming back while the server cannot be told leaves the autoreply table behind (`ncic_msg.c:199`);
- `/save` on a full disk replaces the file by a cut one (`ncic_conf.c:339`);
- `HISTORY_LEN` does harm with some values (`ncic_set.c:994`): with `MAX_HISTORY_LEN - 1` the next entry into a history of one line frees the line
  `input_history_prev` is about to show, and a value above `MAX_HISTORY_LEN` (400, the default of the global option, is one) frees lines until the count has come down, the last one included,
  to which `input->history` still points. Hence `HistLens` in run `input` and the premise `MildHistLen` of its theorems;
- a binding of `F10`, `F11` or `F12` is saved under a name that `bind_get_keycode` does not find, since the table is not in the order `bsearch` needs (`ncic_bind.c:47`).

## 6. What is not modelled

- In `Conn`: the names, nicks and servers; the login that `irc_connected` sends; when a keep-alive is due (it may be at any time); more than one source in the
  reactor (the keyboard's is always there); the server's address list (one attempt uses one address).
- In `Timer`: the wrap of `last_refnum`; what a command other than `/timer` does.
- In `Swindow`: breaking at spaces, attributes and colours (a text has a length only); the log file; the `held` and
  activity counters, which only the status bar shows; drawing.
- In `InputLine`: the beep, drawing, the case of letters, and tabs, which are blanks to word motion and completion.
- In `Windows`: names, activity counters, ignoring, the log; `screen_new_chat_window`, which has no caller; the option `DUMP_MSGS_TO_STATUS` only as "nothing happens to the list".
- In `Traffic`: what a line says beyond its marks, the formats of commands, partial results of `SSL_write`. A write that returns 0 counts as lost, as the code lets it.
- In `Commands`: upper and lower case, `META` keys, comments and too long lines in the file, several commands in one binding,
  colours and formats among the options.
- Code without a caller in this program: the rooms' users, modes, topics and invitations (`ncic_chat.c`), since naken's input reports none and `/chat`
  cannot be dispatched; `pork_recv_*` and the autoreplies (`ncic_msg.c`); `pork_notice_send`; `ncic_slist2.c`. Modelling it would say nothing of the program.
- Text, formats and colours: functions from strings to strings without state, of which a model would be a transliteration.
- The protocol table, the option parser, help, the status bar and curses: constants and output.

## 7. Plan

1. *done* `Lifecycle`, `Conn`, `ConnProofs`: the account and its session.
2. *done* `Timer`, `Swindow`.
3. *done* `InputLine` and `Editor`; `Windows`; `Traffic` (queue, line reader and away state in one); `Commands` (aliases, keys, options, the file).
4. *done* `TimerProofs`, `SwindowProofs`, `TrafficProofs`, `WindowsProofs`, `InputLineProofs`, `CommandsProofs`, with `ListLemmas`.
5. *done* Theorems about what loops compute, written as recursive functions: `CyclingReachesAll`, `WholeReadsWholeLines`, `NothingInvented`, `AliasesResolve`, `RestartRestores`, `CompletionGoesRound`.
6. Open: the reactor's walk over several sources (`ncic_io.c`), with the session's source in `Conn` as an instance; the file of an account.

## 8. Running

In this directory: `tlc -config MCConn.cfg MCConn` and likewise for the other `.cfg` files (the module is the
longest of `MCConn`, `MCTimer`, `MCSwindow`, `MCInput`, `MCWindows`, `MCTraffic`, `MCCommands` that the file's name begins with), and `tlapm ConnProofs.tla`, likewise for
`ListLemmas` and the other `...Proofs` modules.
The longest runs take about two minutes with two workers.
