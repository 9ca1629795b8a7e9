------------------------------- MODULE Editor -------------------------------
(***************************************************************************)
(* What the input line promises its user: a text with a cursor in it, and  *)
(* the lines of the past.  InputLine implements it.                        *)
(***************************************************************************)
EXTENDS Integers, Sequences

CONSTANTS
    Strings,   \* what a key or a command puts into the line at once
    Words      \* the words the line can be completed to

VARIABLES
    before, after,   \* the text on either side of the cursor
    past             \* the lines kept, newest first

edVars == <<before, after, past>>

EInit == before = <<>> /\ after = <<>> /\ past = <<>>

\* The cursor moves over the text.
Move == before' \o after' = before \o after /\ UNCHANGED past

\* A string goes in at the cursor.
Insert == \E s \in Strings : before' = before \o s /\ UNCHANGED <<after, past>>

\* Text next to the cursor, on one side of it, is taken out.
Erase ==
    /\ \/ UNCHANGED after /\ \E k \in 0 .. Len(before) : before' = SubSeq(before, 1, k)
       \/ UNCHANGED before /\ \E k \in 0 .. Len(after) : after' = SubSeq(after, k + 1, Len(after))
    /\ UNCHANGED past

\* The end of what stands before the cursor becomes the end of a word.
Complete ==
    /\ \E k \in 0 .. Len(before), w \in Words :
          \E j \in 1 .. Len(w) + 1 : before' = SubSeq(before, 1, k) \o SubSeq(w, j, Len(w))
    /\ UNCHANGED <<after, past>>

\* The line is remembered, at the cost of the oldest lines at most.
Remembered == \E k \in 0 .. Len(past) : past' = <<before \o after>> \o SubSeq(past, 1, k)

\* A line of the past takes the place of the line, which is remembered if it
\* was not itself one of them.
Recall ==
    /\ \E k \in 1 .. Len(past) : before' = past[k]
    /\ after' = <<>>
    /\ UNCHANGED past \/ Remembered

\* The line is done with.
Finish == before' = <<>> /\ after' = <<>> /\ (UNCHANGED past \/ Remembered)

\* Old lines are dropped, or all of them and the line.
Drop == (\E k \in 0 .. Len(past) : past' = SubSeq(past, 1, k)) /\ UNCHANGED <<before, after>>
Wipe == before' = <<>> /\ after' = <<>> /\ past' = <<>>

ENext == Move \/ Insert \/ Erase \/ Complete \/ Recall \/ Finish \/ Drop \/ Wipe

ESpec == EInit /\ [][ENext]_edVars
=============================================================================
