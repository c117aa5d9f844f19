------------------------------ MODULE Commands ------------------------------
(***************************************************************************)
(* The parser of the terminal and its commands (terminal/src/parser.rs,    *)
(* commands/, ipc_client.rs).  A command is what it prints, the result it  *)
(* returns and what it makes of the working directory.  Lines and paths    *)
(* are sequences of characters; a fixed text is one cell (see Display).    *)
(***************************************************************************)
EXTENDS Integers, Sequences, FiniteSets

CONSTANTS
    CommandOf,          \* a function from command words to command names
    HelpTopics,         \* the words get_command_help knows
    NumberOf,           \* a function from words to numbers, as parse_number
    LongFlags,          \* "-l" and "--long"
    MAX_ARGS,
    PATH_BYTES,         \* the size of CURRENT_DIR and of the path buffers
    ECHO_BYTES          \* the size of the buffer of echo

Space == " "
Quotes == {"'", "\""}
Slash == "/"
Dot == "."
Home_ == "~"

Take(s, n) == SubSeq(s, 1, IF Len(s) < n THEN Len(s) ELSE n)

-----------------------------------------------------------------------------
(* parser.rs *)

Trim(s) ==
    LET used == {i \in DOMAIN s : s[i] # Space}
        first == CHOOSE i \in used : \A j \in used : i <= j
        last == CHOOSE i \in used : \A j \in used : j <= i
    IN  IF used = {} THEN <<>> ELSE SubSeq(s, first, last)

AddToken_KeepsOpen(p, token) ==
    [p EXCEPT !.command = IF @ = <<>> THEN token ELSE @,
              !.args = IF p.command # <<>> /\ Len(@) < MAX_ARGS THEN Append(@, token) ELSE @]

\* A token ends: the first is the command, the next MAX_ARGS are arguments.
AddToken(p, token) ==
    [p EXCEPT !.in_token = FALSE, !.command = IF @ = <<>> THEN token ELSE @,
              !.args = IF p.command # <<>> /\ Len(@) < MAX_ARGS THEN Append(@, token) ELSE @]

\* One character of the trimmed input; position Len(s) + 1 is the end.
ParseChar(s, p, i) ==
    LET ch == IF i <= Len(s) THEN s[i] ELSE Space
        token == SubSeq(s, p.token_start, i - 1)
    IN  IF p.in_quotes THEN
            IF ch # p.quote_char THEN p
            ELSE IF i < Len(s) /\ s[i + 1] = Space
                 THEN AddToken([p EXCEPT !.in_quotes = FALSE], token)
                 ELSE [p EXCEPT !.in_quotes = FALSE]
        ELSE IF ch \in Quotes THEN
            IF p.in_token THEN p
            ELSE [p EXCEPT !.quote_char = ch, !.in_quotes = TRUE,
                           !.token_start = i + 1, !.in_token = TRUE]
        ELSE IF ch = Space THEN (IF p.in_token THEN AddToken(p, token) ELSE p)
        ELSE IF p.in_token THEN p
        ELSE [p EXCEPT !.token_start = i, !.in_token = TRUE]

\* The set of the parsed command, empty for None.
parse_command(input) ==
    LET s == Trim(input)
        start == [command |-> <<>>, args |-> <<>>, in_quotes |-> FALSE, quote_char |-> Space,
                  token_start |-> 1, in_token |-> FALSE]
        after[i \in 0 .. Len(s) + 1] == IF i = 0 THEN start ELSE ParseChar(s, after[i - 1], i)
        end == after[Len(s) + 1]
    IN  IF s = <<>> \/ end.command = <<>> THEN {}
        ELSE {[command |-> end.command, args |-> end.args]}

arg(cmd, default) == IF cmd.args = <<>> THEN default ELSE cmd.args[1]

-----------------------------------------------------------------------------
(* What the services answer, ipc_client.rs: fixed data for now. *)

Text == "text"
T(n) == [i \in 1 .. n |-> <<Text>>]
Empty == <<<<>>>>

query_processes == T(7)
query_services == T(4)
list_directory == T(6)
read_log == T(8)
kill_process(pid) == pid >= 10

-----------------------------------------------------------------------------
(* commands/.  Each gives its output, a sequence of lines, and its result. *)

Does(out, result) == [out |-> out, result |-> result]

\* Four categories with a blank line and a heading each, and 19 commands.
cmd_help(cmd) ==
    IF cmd.args = <<>>
    THEN Does(Empty \o T(2) \o Empty \o Empty \o T(9) \o Empty \o T(6) \o Empty \o T(6)
                    \o Empty \o T(2) \o Empty \o T(1) \o Empty, "Ok")
    ELSE Does(IF cmd.args[1] \in HelpTopics THEN Empty \o T(2) \o Empty ELSE T(1), "Ok")

cmd_version == Does(Empty \o T(4) \o Empty, "Ok")
cmd_uptime == Does(Empty \o T(1) \o Empty, "Ok")
cmd_date == Does(Empty \o T(1) \o Empty, "Ok")

\* A label and its value are written to the same line.
cmd_sysinfo ==
    LET pairs(n) == [i \in 1 .. n |-> <<Text, Text>>]
    IN  Does(Empty \o T(2) \o Empty \o pairs(4) \o Empty \o pairs(2) \o Empty, "Ok")

cmd_log == Does(Empty \o T(2) \o Empty \o read_log \o Empty, "Ok")
cmd_ports == Does(Empty \o T(2) \o Empty \o T(8) \o Empty, "Ok")
cmd_caps == Does(Empty \o T(2) \o Empty \o T(4) \o Empty, "Ok")

\* The arguments, with a space between them, as far as the buffer goes.
cmd_echo(cmd) ==
    LET sep(i) == IF i > 1 THEN <<Space>> ELSE <<>>
        out[i \in 0 .. Len(cmd.args)] ==
            IF i = 0 THEN <<>>
            ELSE Take(Take(out[i - 1] \o sep(i), ECHO_BYTES) \o cmd.args[i], ECHO_BYTES)
    IN  Does(<<out[Len(cmd.args)]>>, "Ok")

cmd_ps == Does(Empty \o T(2) \o Empty \o T(2) \o query_processes \o Empty, "Ok")

cmd_kill(cmd) ==
    IF cmd.args = <<>> THEN Does(T(1), "Error")
    ELSE IF cmd.args[1] \notin DOMAIN NumberOf THEN Does(T(1), "Error")
    ELSE IF NumberOf[cmd.args[1]] < 10 THEN Does(T(1), "Error")
    ELSE Does(T(1), IF kill_process(NumberOf[cmd.args[1]]) THEN "Ok" ELSE "Error")

\* spawn_process starts nothing yet.
cmd_exec(cmd) ==
    IF cmd.args = <<>> THEN Does(T(1), "Error") ELSE Does(T(1) \o T(6), "Ok")

cmd_memory == Does(Empty \o T(2) \o Empty \o T(3) \o Empty \o T(1) \o Empty, "Ok")
cmd_services == Does(Empty \o T(2) \o Empty \o T(2) \o query_services \o Empty, "Ok")

cmd_ls(cmd) ==
    LET long == \E i \in DOMAIN cmd.args : cmd.args[i] \in LongFlags
    IN  Does(Empty \o T(1) \o Empty \o (IF long THEN T(2) ELSE <<>>) \o list_directory \o Empty, "Ok")

cmd_pwd(cwd) == Does(<<cwd>>, "Ok")

\* read_file reads nothing yet.
cmd_cat(cmd) == IF cmd.args = <<>> THEN Does(T(1), "Error") ELSE Does(T(5), "Ok")

cmd_tree(cmd, cwd) == Does(Empty \o <<arg(cmd, cwd)>> \o list_directory \o Empty, "Ok")

-----------------------------------------------------------------------------
(* The working directory, commands/filesystem.rs *)

set_current_dir(path) == Take(path, PATH_BYTES - 1)

\* Up to the last slash, one at the end aside.
Parent(cwd) ==
    LET slashes == {i \in 1 .. Len(cwd) - 1 : cwd[i] = Slash}
        last == CHOOSE i \in slashes : \A j \in slashes : j <= i
    IN  IF cwd = <<Slash>> THEN cwd
        ELSE IF last = 1 THEN <<Slash>> ELSE set_current_dir(SubSeq(cwd, 1, last - 1))

\* The directory, a slash, and the target, in a buffer of PATH_BYTES.
join(cwd, target) ==
    LET base == Take(cwd, PATH_BYTES - 2)
        slashed == IF base # <<>> /\ base[Len(base)] # Slash THEN Append(base, Slash) ELSE base
    IN  Take(slashed \o target, PATH_BYTES - 1)

cmd_cd(cmd, cwd) ==
    LET target == cmd.args[1]
        path == IF target # <<>> /\ target[1] = Slash THEN Take(target, PATH_BYTES - 1)
                ELSE join(cwd, target)
        n == Len(path)
    IN  IF cmd.args = <<>> THEN set_current_dir(<<Slash>>)
        ELSE IF target \in {<<Home_>>, <<Slash>>} THEN set_current_dir(<<Slash>>)
        ELSE IF target = <<Dot, Dot>> THEN Parent(cwd)
        ELSE IF target = <<Dot>> THEN cwd
        ELSE set_current_dir(IF n > 1 /\ path[n] = Slash THEN SubSeq(path, 1, n - 1) ELSE path)

-----------------------------------------------------------------------------
\* commands/mod.rs: what a command prints and returns.
execute(cmd, cwd) ==
    LET name == IF cmd.command \in DOMAIN CommandOf THEN CommandOf[cmd.command] ELSE "unknown"
    IN  CASE name = "help" -> cmd_help(cmd)
          [] name = "version" -> cmd_version
          [] name = "uptime" -> cmd_uptime
          [] name = "date" -> cmd_date
          [] name = "clear" -> Does(<<>>, "Clear")
          [] name = "echo" -> cmd_echo(cmd)
          [] name = "sysinfo" -> cmd_sysinfo
          [] name = "ps" -> cmd_ps
          [] name = "kill" -> cmd_kill(cmd)
          [] name = "exec" -> cmd_exec(cmd)
          [] name = "mem" -> cmd_memory
          [] name = "services" -> cmd_services
          [] name = "ls" -> cmd_ls(cmd)
          [] name = "cd" -> Does(<<>>, "Ok")
          [] name = "pwd" -> cmd_pwd(cwd)
          [] name = "cat" -> cmd_cat(cmd)
          [] name = "tree" -> cmd_tree(cmd, cwd)
          [] name = "exit" -> Does(<<>>, "Exit")
          [] name = "log" -> cmd_log
          [] name = "ports" -> cmd_ports
          [] name = "caps" -> cmd_caps
          [] OTHER -> Does(T(1), "NotFound")

\* The directory after the command: only cd changes it.
DirAfter(cmd, cwd) ==
    IF cmd.command \in DOMAIN CommandOf /\ CommandOf[cmd.command] = "cd"
    THEN cmd_cd(cmd, cwd) ELSE cwd
=============================================================================
