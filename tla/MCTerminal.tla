----------------------------- MODULE MCTerminal -----------------------------
(***************************************************************************)
(* A window of 2 rows and 3 columns, lines of up to 3 characters, a        *)
(* history of 2 and paths of up to 4 bytes.  Command words have a letter   *)
(* or two; a quote alone is a line without a command.                      *)
(***************************************************************************)
EXTENDS Terminal, TLC

MCChars == {" ", "a", "c", "'"}
MCCommandOf == (<<"c">> :> "cd") @@ (<<"a">> :> "pwd") @@ (<<"c", "a">> :> "exit")
                @@ (<<"a", "a">> :> "clear")
MCNumberOf == <<"a">> :> 12

MCEnteredLines == {<<>>, <<"c", " ", "a">>, <<"a">>, <<"a", "a">>, <<"c", "a">>, <<"'">>}
\* Their beginnings, and the spaces of a tab.
MCTypedLines ==
    {SubSeq(s, 1, MinOf(n, Len(s))) : s \in MCEnteredLines, n \in 0 .. 3}
        \union {<<" ", " ", " ">>, <<" ", " ", " ", " ">>}
=============================================================================
