----------------------------- MODULE LineEditor -----------------------------
(***************************************************************************)
(* What the line editor of the terminal promises: a text of at most Limit  *)
(* characters with an insertion point in it.                               *)
(***************************************************************************)
EXTENDS Integers, Sequences

CONSTANTS Chars, Limit

VARIABLES text, point

vars == <<text, point>>

Before == SubSeq(text, 1, point)
After == SubSeq(text, point + 1, Len(text))

Init == text = <<>> /\ point = 0

\* Typing: as much of s as there is room for.
Insert(s) ==
    \E k \in 0 .. Len(s) :
        /\ Len(text) + k <= Limit
        /\ k = Len(s) \/ Len(text) + k = Limit
        /\ text' = Before \o SubSeq(s, 1, k) \o After
        /\ point' = point + k

Backspace ==
    /\ point > 0
    /\ text' = SubSeq(text, 1, point - 1) \o After
    /\ point' = point - 1

Delete ==
    /\ point < Len(text)
    /\ text' = Before \o Tail(After)
    /\ UNCHANGED point

Kill == text' = Before /\ UNCHANGED point

Move == point' \in 0 .. Len(text) /\ UNCHANGED text

\* A line recalled from the history, or the empty line.
Replace == point' = Len(text') /\ Len(text') <= Limit

Next ==
    \/ \E c \in Chars : Insert(<<c>>)
    \/ Insert(<<" ", " ", " ", " ">>)
    \/ Backspace \/ Delete \/ Kill \/ Move \/ Replace

Spec == Init /\ [][Next]_vars
=============================================================================
