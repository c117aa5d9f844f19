--------------------------- MODULE WindowManager ----------------------------
(***************************************************************************)
(* The windows of ui_shell, from the bottom to the top, and their focus.   *)
(***************************************************************************)
EXTENDS Integers, Sequences

NoWindow == 0

Window(id, r) ==
    [id |-> id, x |-> r.x, y |-> r.y, width |-> r.width, height |-> r.height,
     visible |-> TRUE, focused |-> FALSE]

NewManager == [windows |-> <<>>, next_id |-> 1, focused_id |-> NoWindow]

contains(w, x, y) ==
    /\ x >= w.x /\ x < w.x + w.width
    /\ y >= w.y /\ y < w.y + w.height

WithId(windows, id) == {i \in DOMAIN windows : windows[i].id = id}

Unfocus(windows, id) ==
    [i \in DOMAIN windows |-> IF windows[i].id = id THEN [windows[i] EXCEPT !.focused = FALSE]
                              ELSE windows[i]]

Others(windows, id) == SelectSeq(windows, LAMBDA w : w.id # id)

\* Focus moves from the window that has it to window id, which comes to the top.
focus_window(wm, id) ==
    LET windows == Unfocus(wm.windows, wm.focused_id)
        pos == CHOOSE i \in WithId(windows, id) : TRUE
    IN  IF WithId(windows, id) = {} THEN [wm EXCEPT !.windows = windows]
        ELSE [wm EXCEPT !.windows = Append(Others(windows, id), [windows[pos] EXCEPT !.focused = TRUE]),
                        !.focused_id = id]

create_window(wm, r) ==
    focus_window([wm EXCEPT !.windows = Append(@, Window(wm.next_id, r)), !.next_id = @ + 1],
                 wm.next_id)

\* The topmost visible window at a point.
window_at_Bottom(windows, x, y) ==
    LET hit == {i \in DOMAIN windows : windows[i].visible /\ contains(windows[i], x, y)}
    IN  IF hit = {} THEN NoWindow
        ELSE windows[CHOOSE i \in hit : \A j \in hit : i <= j].id

window_at(windows, x, y) ==
    LET hit == {i \in DOMAIN windows : windows[i].visible /\ contains(windows[i], x, y)}
    IN  IF hit = {} THEN NoWindow
        ELSE windows[CHOOSE i \in hit : \A j \in hit : i >= j].id

\* The focus of a closed window goes to the top one, whose flag is not set.
close_window_KeepsFocus(wm, id) == [wm EXCEPT !.windows = Others(wm.windows, id)]

close_window(wm, id) ==
    LET windows == Others(wm.windows, id)
        top == IF windows = <<>> THEN NoWindow ELSE windows[Len(windows)].id
    IN  [wm EXCEPT !.windows = windows,
                   !.focused_id = IF wm.focused_id = id THEN top ELSE @]
=============================================================================
