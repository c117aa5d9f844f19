------------------------------ MODULE Display ------------------------------
(***************************************************************************)
(* The display buffer of the terminal (terminal/src/buffer.rs) and how it  *)
(* is drawn with the command line over it (main.rs, window.rs).  A cell    *)
(* holds a character, or one of the fixed texts of the program: these are  *)
(* all shorter than a row and are taken as one cell.                       *)
(***************************************************************************)
EXTENDS Integers, Sequences

CONSTANTS
    ROWS, COLS,         \* WindowConfig.rows(), cols(): the window's text area
    MAX_VISIBLE_LINES,
    MAX_ROW_LENGTH      \* MAX_LINE_LENGTH, as the capacity of a Line

Blank == " "
NewLine == "newline"
Return == "return"
Rubout == "rubout"

\* A Line is the sequence of its cells.
Line_set(line, i, cell) ==
    IF i >= MAX_ROW_LENGTH THEN line
    ELSE IF i < Len(line) THEN [line EXCEPT ![i + 1] = cell]
    ELSE line \o [j \in 1 .. i - Len(line) |-> Blank] \o <<cell>>

MinOf(a, b) == IF a < b THEN a ELSE b

\* new, and set_dimensions with the window's size.
NewDisplay ==
    [lines |-> [i \in 0 .. MAX_VISIBLE_LINES - 1 |-> <<>>], line_count |-> 0,
     row |-> 0, col |-> 0,
     max_rows |-> MinOf(ROWS, MAX_VISIBLE_LINES), max_cols |-> MinOf(COLS, MAX_ROW_LENGTH)]

clear_display(d) ==
    [d EXCEPT !.lines = [i \in DOMAIN @ |-> <<>>], !.line_count = 0, !.row = 0, !.col = 0]

scroll_up(d, n) ==
    IF n >= d.max_rows THEN clear_display(d)
    ELSE [d EXCEPT !.lines = [i \in DOMAIN @ |->
            IF i >= d.max_rows THEN @[i]
            ELSE IF i < d.max_rows - n THEN @[i + n] ELSE <<>>]]

\* line_count grows until the row exists.
ensure_row(d, row) == IF d.line_count <= row THEN [d EXCEPT !.line_count = row + 1] ELSE d

newline_NoScroll(d) ==
    LET row == MinOf(d.row + 1, d.max_rows - 1)
    IN  [ensure_row(d, row) EXCEPT !.col = 0, !.row = row, !.lines[row] = <<>>]

newline(d) ==
    LET scrolled == IF d.row + 1 >= d.max_rows THEN scroll_up(d, 1) ELSE d
        row == MinOf(d.row + 1, d.max_rows - 1)
    IN  [ensure_row(scrolled, row) EXCEPT !.col = 0, !.row = row, !.lines[row] = <<>>]

write_char(d, ch) ==
    CASE ch = NewLine -> newline(d)
      [] ch = Return -> [d EXCEPT !.col = 0]
      [] ch = Rubout -> [d EXCEPT !.col = IF @ > 0 THEN @ - 1 ELSE 0]
      [] OTHER ->
            LET w == [ensure_row(d, d.row) EXCEPT !.lines[d.row] = Line_set(@, d.col, ch),
                                                  !.col = @ + 1]
            IN  IF w.col >= d.max_cols THEN newline(w) ELSE w

write_str(d, text) ==
    LET after[i \in 0 .. Len(text)] == IF i = 0 THEN d ELSE write_char(after[i - 1], text[i])
    IN  after[Len(text)]

writeln(d, text) == newline(write_str(d, text))

\* Several lines of output, in order.
write_lines(d, texts) ==
    LET after[i \in 0 .. Len(texts)] == IF i = 0 THEN d ELSE writeln(after[i - 1], texts[i])
    IN  after[Len(texts)]

get_line(d, row) == IF row < d.max_rows /\ row < d.line_count THEN {d.lines[row]} ELSE {}

-----------------------------------------------------------------------------
(* Drawing.  A screen is a function from rows and columns to cells. *)

Screens(cell) == [p \in (0 .. ROWS - 1) \X (0 .. COLS - 1) |-> cell]
Cursor(ch) == <<"cursor", ch>>

clear_to_eol(screen, row, col) ==
    [p \in DOMAIN screen |-> IF p[1] = row /\ p[2] >= col THEN Blank ELSE screen[p]]

\* Each row of the window: its cells, blanks behind them, or a cleared row.
draw_rows(screen, d) ==
    [p \in DOMAIN screen |->
        IF get_line(d, p[1]) = {} THEN Blank
        ELSE LET line == CHOOSE l \in get_line(d, p[1]) : TRUE
             IN  IF p[2] < Len(line) THEN line[p[2] + 1] ELSE Blank]

\* The input from the prompt on, clipped to the row, with the cursor in it.
draw_input(screen, row, col, bytes, cursor) ==
    [p \in DOMAIN screen |->
        LET i == p[2] - col IN
        IF p[1] # row \/ i < 0 \/ i > Len(bytes) THEN screen[p]
        ELSE IF i = Len(bytes) THEN (IF cursor >= i THEN Cursor(Blank) ELSE screen[p])
        ELSE IF i = cursor THEN Cursor(bytes[i + 1]) ELSE bytes[i + 1]]

render(screen, d, row, col, bytes, cursor) ==
    draw_input(clear_to_eol(draw_rows(screen, d), row, col), row, col, bytes, cursor)
=============================================================================
