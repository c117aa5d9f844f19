------------------------------ MODULE LineEdit ------------------------------
(***************************************************************************)
(* The command line of the terminal (terminal/src/buffer.rs): the edit     *)
(* buffer, an array whose characters are shifted to insert and delete, and *)
(* the history, a ring of the latest commands.  Characters are bytes of    *)
(* printable ASCII.                                                        *)
(***************************************************************************)
EXTENDS Integers, Sequences

CONSTANTS
    Chars,              \* the characters that can be typed, " " among them
    MAX_LINE_LENGTH,
    CAPACITY            \* History.capacity

ASSUME LineAssumption ==
    /\ " " \in Chars
    /\ MAX_LINE_LENGTH \in Nat \ {0}
    /\ CAPACITY \in Nat \ {0}

VARIABLES
    input,              \* InputBuffer: buffer, len, cursor
    history,            \* History: entries, count, index
    pushed,             \* history variable: every command added, in order
    pristine            \* history variable: the line is as it was recalled

line_vars == <<input, history, pushed, pristine>>

\* The last byte of the buffer is never used.
Limit == MAX_LINE_LENGTH - 1
Cells == 0 .. Limit
NUL == "NUL"            \* a byte of the buffer never written
Slots == 0 .. CAPACITY - 1

as_bytes(b) == [i \in 1 .. b.len |-> b.buffer[i - 1]]

-----------------------------------------------------------------------------
(* InputBuffer *)

clear(b) == [b EXCEPT !.len = 0, !.cursor = 0]

insert_NoShift(b, ch) ==
    IF b.len >= Limit THEN b
    ELSE [buffer |-> [b.buffer EXCEPT ![b.cursor] = ch],
          len |-> b.len + 1, cursor |-> b.cursor + 1]

insert(b, ch) ==
    IF b.len >= Limit THEN b
    ELSE [buffer |-> [i \in Cells |-> CASE i < b.cursor \/ i > b.len -> b.buffer[i]
                                        [] i = b.cursor -> ch
                                        [] OTHER -> b.buffer[i - 1]],
          len |-> b.len + 1, cursor |-> b.cursor + 1]

backspace(b) ==
    IF b.cursor = 0 THEN b
    ELSE [buffer |-> [i \in Cells |-> IF i >= b.cursor - 1 /\ i + 1 < b.len
                                      THEN b.buffer[i + 1] ELSE b.buffer[i]],
          len |-> b.len - 1, cursor |-> b.cursor - 1]

delete(b) ==
    IF b.cursor >= b.len THEN b
    ELSE [b EXCEPT !.buffer = [i \in Cells |-> IF i >= b.cursor /\ i + 1 < b.len
                                               THEN b.buffer[i + 1] ELSE b.buffer[i]],
                   !.len = @ - 1]

cursor_left(b) == IF b.cursor > 0 THEN [b EXCEPT !.cursor = @ - 1] ELSE b
cursor_right(b) == IF b.cursor < b.len THEN [b EXCEPT !.cursor = @ + 1] ELSE b
cursor_home(b) == [b EXCEPT !.cursor = 0]
cursor_end(b) == [b EXCEPT !.cursor = b.len]

set(b, s) ==
    LET n == IF Len(s) < Limit THEN Len(s) ELSE Limit
    IN  [buffer |-> [i \in Cells |-> IF i < n THEN s[i + 1] ELSE b.buffer[i]],
         len |-> n, cursor |-> n]

\* Ctrl+K: deletes at the cursor until nothing is left there.
kill_to_end(b) == [b EXCEPT !.len = b.cursor]

-----------------------------------------------------------------------------
(* History *)

reset_navigation(h) == [h EXCEPT !.index = h.count]

\* Whether push adds the command: it skips a repetition of the last one.
is_new(h, cmd) ==
    /\ cmd # <<>>
    /\ ~(h.count > 0 /\ h.entries[(h.count - 1) % CAPACITY] = cmd)

push(h, cmd) ==
    IF cmd = <<>> THEN h
    ELSE IF ~is_new(h, cmd) THEN reset_navigation(h)
    ELSE reset_navigation([h EXCEPT !.entries[h.count % CAPACITY] = cmd,
                                    !.count = @ + 1])

\* The index of the oldest command still in the ring.
start(h) == IF h.count <= CAPACITY THEN 0 ELSE h.count - CAPACITY

\* An Option is a set of at most one line.
get_current(h) ==
    IF h.index >= h.count \/ h.index < start(h) THEN {}
    ELSE {h.entries[h.index % CAPACITY]}

previous(h) ==
    IF h.count = 0 \/ h.index = 0 THEN h ELSE [h EXCEPT !.index = @ - 1]

\* What previous() returns, given what it makes of the history.
previous_line(h) == IF h.count = 0 \/ h.index = 0 THEN {} ELSE get_current(previous(h))

next(h) == IF h.index >= h.count THEN h ELSE [h EXCEPT !.index = @ + 1]

next_line_Behind(h) == IF h.index >= h.count THEN {} ELSE get_current(h)

next_line(h) == IF h.index >= h.count THEN {} ELSE get_current(next(h))

-----------------------------------------------------------------------------
(* The keys that edit the line *)

LineInit ==
    /\ input = [buffer |-> [i \in Cells |-> NUL], len |-> 0, cursor |-> 0]
    /\ history = [entries |-> [i \in Slots |-> <<>>], count |-> 0, index |-> 0]
    /\ pushed = <<>>
    /\ pristine = FALSE

Edit(b) ==
    /\ input' = b
    /\ pristine' = (pristine /\ as_bytes(b) = as_bytes(input))
    /\ UNCHANGED <<history, pushed>>

Char(ch) == Edit(insert(input, ch))
Tab == Edit(insert(insert(insert(insert(input, " "), " "), " "), " "))
Backspace == Edit(backspace(input))
Delete == Edit(delete(input))
ArrowLeft == Edit(cursor_left(input))
ArrowRight == Edit(cursor_right(input))
Home == Edit(cursor_home(input))
End == Edit(cursor_end(input))
Escape == Edit(clear(input))
CtrlK == Edit(kill_to_end(input))

ArrowUp ==
    /\ history' = previous(history)
    /\ IF previous_line(history) = {} THEN UNCHANGED <<input, pristine>>
       ELSE \E s \in previous_line(history) : input' = set(input, s) /\ pristine' = TRUE
    /\ UNCHANGED pushed

ArrowDown ==
    /\ history' = next(history)
    /\ IF next_line(history) = {} THEN input' = clear(input) /\ pristine' = FALSE
       ELSE \E s \in next_line(history) : input' = set(input, s) /\ pristine' = TRUE
    /\ UNCHANGED pushed

\* Enter: the command that exits the terminal returns before the line is cleared.
EnterLine(exits) ==
    LET cmd == as_bytes(input) IN
    /\ history' = push(history, cmd)
    /\ pushed' = IF is_new(history, cmd) THEN Append(pushed, cmd) ELSE pushed
    /\ input' = IF exits THEN input ELSE clear(input)
    /\ pristine' = FALSE

LineNext ==
    \/ \E c \in Chars : Char(c)
    \/ Tab \/ Backspace \/ Delete \/ Escape \/ CtrlK
    \/ ArrowLeft \/ ArrowRight \/ Home \/ End
    \/ ArrowUp \/ ArrowDown
    \/ \E exits \in BOOLEAN : EnterLine(exits)

LineSpec == LineInit /\ [][LineNext]_line_vars

-----------------------------------------------------------------------------
(* Properties *)

(***************************************************************************)
(* The cursor stays in the line, the line within MAX_LINE_LENGTH - 1 bytes *)
(* that were all written, and the navigation index within the history.     *)
(***************************************************************************)
LineTypeOK ==
    /\ input \in [buffer : [Cells -> Chars \union {NUL}], len : 0 .. Limit, cursor : 0 .. Limit]
    /\ input.cursor <= input.len
    /\ \A i \in Cells : i < input.len => input.buffer[i] \in Chars
    /\ DOMAIN history = {"entries", "count", "index"}
    /\ history.count \in Nat /\ history.index \in 0 .. history.count
    /\ DOMAIN history.entries = Slots
    /\ pristine \in BOOLEAN

(***************************************************************************)
(* The ring of 32 slots holds the latest commands in the order they were   *)
(* entered: after any number of wraps, the commands that get_current can   *)
(* reach are the last ones added.                                          *)
(***************************************************************************)
RingHoldsLatest ==
    /\ history.count = Len(pushed)
    /\ \A i \in start(history) .. history.count - 1 :
            history.entries[i % CAPACITY] = pushed[i + 1]

(***************************************************************************)
(* While the line is as the arrows recalled it, it is the command at the   *)
(* navigation index; past the oldest command, where previous() still       *)
(* counts the index down and returns nothing, it is the oldest command.    *)
(***************************************************************************)
RecallsCommand ==
    pristine =>
        LET i == IF history.index < start(history) THEN start(history) ELSE history.index
        IN  i < Len(pushed) /\ as_bytes(input) = pushed[i + 1]

\* What the shifting of characters in the array amounts to.
Editor == INSTANCE LineEditor WITH
    text <- as_bytes(input), point <- input.cursor

(***************************************************************************)
(* The buffer of InputBuffer, which shifts characters in place and keeps   *)
(* old ones behind its length, behaves as a text with an insertion point.  *)
(***************************************************************************)
EditsLine == Editor!Spec
=============================================================================
