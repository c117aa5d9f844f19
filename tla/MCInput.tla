------------------------------ MODULE MCInput -------------------------------
(* A small instance of Input. *)
EXTENDS Input

Plain(code) == [ext |-> FALSE, code |-> code]
Ext(code) == [ext |-> TRUE, code |-> code]

KeyA == Plain(30)
Up == Ext(72)
RightCtrl == Ext(Ctrl)

\* The keys each program tells apart.  The release of scancode 70 (112) is the
\* byte F0.
MCKeys == [p \in Programs |->
    CASE p = "terminal" -> {KeyA, Up, Plain(LeftShift), Plain(RightShift), RightCtrl, Plain(CapsLock)}
      [] p = "driver" -> {KeyA, Plain(LeftShift), Plain(RightShift), Plain(Ctrl), Plain(CapsLock)}
      [] p = "desktop" -> {KeyA, Plain(112)}
      [] p = "shell" -> {KeyA, Plain(Escape)}
      [] OTHER -> {KeyA}]

MCMotions == [p \in Programs |->
    IF p \in {"terminal", "driver", "client"} THEN {[dx |-> 1, dy |-> 1, left |-> FALSE]}
    ELSE {[dx |-> 8, dy |-> -3, left |-> TRUE], [dx |-> 300, dy |-> 1, left |-> FALSE]}]

MCKeyBudget == [p \in Programs |->
    CASE p = "terminal" -> 5
      [] p = "driver" -> 4
      [] p \in {"desktop", "client"} -> 3
      [] OTHER -> 1]

MCMotionBudget == [p \in Programs |->
    CASE p \in {"terminal", "driver"} -> 0
      [] p = "client" -> 1
      [] OTHER -> 2]

MCControllerDepth == [p \in Programs |-> IF p \in {"terminal", "driver"} THEN 1 ELSE 2]
=============================================================================
