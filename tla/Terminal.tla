------------------------------ MODULE Terminal ------------------------------
(***************************************************************************)
(* The terminal (terminal/src/main.rs): the keys of its event loop act on  *)
(* the command line, run commands and write to the display.  A key is one  *)
(* step: nothing else touches this state.                                  *)
(***************************************************************************)
EXTENDS LineEdit, Display, Commands

CONSTANTS
    TypedLines,         \* bounds: the lines that are typed,
    EnteredLines,       \* those that are entered,
    MaxPushed           \* and the number of commands entered

VARIABLES
    display,            \* DisplayBuffer
    prompt,             \* prompt_row, prompt_col
    cwd,                \* CURRENT_DIR
    running,
    exited,             \* the event loop has ended
    transcript          \* history variable: the last rows written since a clear

screen_vars == <<display, prompt, transcript>>
term_vars == <<display, prompt, cwd, running, exited, transcript>>
vars == <<line_vars, term_vars>>

Prompt == "prompt"

position(d) == <<d.row, d.col>>

show_prompt(d) == write_str(d, <<Prompt>>)

\* What a reader of the output would see: rows of max_cols cells, of which the
\* last max_rows are kept.
Layout(rows, cells) ==
    LET add(r, c) == LET n == Len(r)
                         grown == [r EXCEPT ![n] = Append(@, c)]
                     IN  IF c = NewLine THEN Append(r, <<>>)
                         ELSE IF Len(grown[n]) = display.max_cols THEN Append(grown, <<>>)
                         ELSE grown
        after[i \in 0 .. Len(cells)] == IF i = 0 THEN rows ELSE add(after[i - 1], cells[i])
        all == after[Len(cells)]
        n == Len(all)
    IN  SubSeq(all, IF n > display.max_rows THEN n - display.max_rows + 1 ELSE 1, n)

Stream(texts) ==
    LET upTo[i \in 0 .. Len(texts)] == IF i = 0 THEN <<>> ELSE upTo[i - 1] \o texts[i] \o <<NewLine>>
    IN  upTo[Len(texts)]

show_welcome(d) == write_lines(d, Empty \o T(2) \o Empty)

Init ==
    /\ LineInit
    /\ display = show_prompt(show_welcome(NewDisplay))
    /\ prompt = position(display)
    /\ transcript = Layout(<<<<>>>>, Stream(Empty \o T(2) \o Empty) \o <<Prompt>>)
    /\ cwd = <<Slash>>
    /\ running = TRUE
    /\ exited = FALSE

\* The display and what it was told to show, with a new prompt or without.
Shows(d, rows) ==
    /\ display' = show_prompt(d)
    /\ prompt' = position(display')
    /\ transcript' = Layout(rows, <<Prompt>>)

-----------------------------------------------------------------------------
(* handle_key.  The loop goes on to the end of a batch of keys after a key *)
(* that ends the terminal, so they are handled until it has exited.        *)

\* A bound: keys typed behind one that ends the terminal, after few commands only.
Typing == running \/ Len(pushed) < MaxPushed - 1

\* Keys that only edit the line.
EditKey ==
    /\ Typing
    /\ \/ \E c \in Chars : Char(c)
       \/ Tab \/ Backspace \/ Delete \/ Escape \/ CtrlK
       \/ ArrowLeft \/ ArrowRight \/ Home \/ End
       \/ ArrowUp \/ ArrowDown
    /\ as_bytes(input') \in TypedLines
    /\ UNCHANGED term_vars

\* No command: an empty line, or one that parses to nothing.
EnterNothing ==
    /\ parse_command(as_bytes(input)) = {}
    /\ EnterLine(FALSE)
    /\ Shows(newline(display), Layout(transcript, <<NewLine>>))
    /\ UNCHANGED <<cwd, running, exited>>

EnterCommand ==
    \E cmd \in parse_command(as_bytes(input)) :
        LET does == execute(cmd, cwd)
            shown == write_lines(newline(display), does.out)
            rows == Layout(transcript, <<NewLine>> \o Stream(does.out))
        IN  /\ does.result \notin {"Exit", "Clear"}
            /\ EnterLine(FALSE)
            /\ cwd' = DirAfter(cmd, cwd)
            /\ Shows(shown, rows)
            /\ UNCHANGED <<running, exited>>

EnterClear ==
    \E cmd \in parse_command(as_bytes(input)) :
        /\ execute(cmd, cwd).result = "Clear"
        /\ EnterLine(FALSE)
        /\ Shows(clear_display(newline(display)), <<<<>>>>)
        /\ UNCHANGED <<cwd, running, exited>>

EnterExit ==
    \E cmd \in parse_command(as_bytes(input)) :
        /\ execute(cmd, cwd).result = "Exit"
        /\ EnterLine(TRUE)
        /\ running' = FALSE
        /\ display' = newline(display)
        /\ transcript' = Layout(transcript, <<NewLine>>)
        /\ UNCHANGED <<prompt, cwd, exited>>

CtrlC_ResetsNavigation ==
    /\ input' = clear(input)
    /\ history' = reset_navigation(history)
    /\ pristine' = FALSE
    /\ Shows(writeln(display, <<Text>>), Layout(transcript, <<Text, NewLine>>))
    /\ UNCHANGED <<pushed, cwd, running, exited>>

CtrlC ==
    /\ Escape
    /\ Shows(writeln(display, <<Text>>), Layout(transcript, <<Text, NewLine>>))
    /\ UNCHANGED <<cwd, running, exited>>

CtrlD ==
    /\ input.len = 0
    /\ running' = FALSE
    /\ UNCHANGED <<line_vars, screen_vars, cwd, exited>>

CtrlL ==
    /\ Shows(clear_display(display), <<<<>>>>)
    /\ UNCHANGED <<line_vars, cwd, running, exited>>

Enter ==
    /\ as_bytes(input) \in EnteredLines
    /\ is_new(history, as_bytes(input)) => Len(pushed) < MaxPushed
    /\ EnterNothing \/ EnterCommand \/ EnterClear \/ EnterExit

handle_key == ~exited /\ (EditKey \/ Enter \/ CtrlC \/ CtrlD \/ CtrlL)

\* No key is left: run renders, and ends if a key has said so.
EndBatch ==
    /\ ~running /\ ~exited
    /\ exited' = TRUE
    /\ UNCHANGED <<line_vars, screen_vars, cwd, running>>

Next == handle_key \/ EndBatch

Spec == Init /\ [][Next]_vars

-----------------------------------------------------------------------------
(* Properties *)

(***************************************************************************)
(* The window shows the end of what was written.  The rows of the display  *)
(* are the last rows written since it was cleared: wrapping, scrolling and *)
(* clearing lose or double none.  As long as the terminal runs, the        *)
(* recorded prompt position is where the display writes next, behind a     *)
(* prompt.  And a render repaints every cell, whatever the window showed   *)
(* before, with those rows, the typed line behind the prompt, clipped to   *)
(* the row, and one cursor.                                                *)
(***************************************************************************)
WindowShowsTail ==
    LET n == Len(transcript)
        bytes == as_bytes(input)
        row(i) == IF i < n THEN transcript[i + 1] ELSE <<>>
        s == render(Screens("old"), display, prompt[1], prompt[2], bytes, input.cursor)
        cursors == {p \in DOMAIN s : s[p] \in {Cursor(c) : c \in Chars \union {Blank}}}
    IN  /\ position(display) = <<n - 1, Len(transcript[n])>>
        /\ \A i \in 0 .. display.max_rows - 1 : display.lines[i] = row(i)
        /\ running => prompt = position(display) /\ transcript[n] = <<Prompt>>
        /\ \A p \in DOMAIN s :
                /\ s[p] # "old"
                /\ p[1] # prompt[1] =>
                    s[p] = IF p[2] < Len(row(p[1])) THEN row(p[1])[p[2] + 1] ELSE Blank
        /\ cursors = {p \in DOMAIN s : p = <<prompt[1], prompt[2] + input.cursor>>}
        /\ \A i \in DOMAIN bytes :
                i - 1 # input.cursor /\ prompt[2] + i - 1 < COLS =>
                    s[<<prompt[1], prompt[2] + i - 1>>] = bytes[i]

\* The words of a line, by where they begin and end.
Words(s) ==
    LET begins == SelectSeq([i \in DOMAIN s |-> i],
                            LAMBDA i : s[i] # Space /\ (i = 1 \/ s[i - 1] = Space))
        word(i) == SubSeq(s, i, CHOOSE j \in i .. Len(s) :
                                    /\ \A k \in i .. j : s[k] # Space
                                    /\ j = Len(s) \/ s[j + 1] = Space)
    IN  [k \in DOMAIN begins |-> word(begins[k])]

(***************************************************************************)
(* parse_command splits a line without quotes into its words: the command  *)
(* and the next MAX_ARGS arguments.                                        *)
(***************************************************************************)
ParsesWords ==
    LET s == as_bytes(input)
        words == Words(s)
    IN  (\A i \in DOMAIN s : s[i] \notin Quotes) =>
            parse_command(s) = IF words = <<>> THEN {}
                               ELSE {[command |-> words[1], args |-> Take(Tail(words), MAX_ARGS)]}

(***************************************************************************)
(* The keys of the terminal act on the line as the line editor's steps, so *)
(* that what is proved of these holds of the terminal.                     *)
(***************************************************************************)
KeysAreLineSteps == LineSpec
=============================================================================
