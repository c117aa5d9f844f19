------------------------------ MODULE Desktop -------------------------------
(***************************************************************************)
(* The event loops of the two desktops.  `desktop` says which one runs:    *)
(* "ui_shell", the userspace program, or "kernel", which the service       *)
(* ui_shell runs inside the kernel.  ui_shell moves the cursor on every    *)
(* mouse event and repaints at the end of a batch if `dirty`; the kernel   *)
(* moves the painted cursor at the end of a batch if anything happened.    *)
(* Events come from the decoders of module Input.                          *)
(***************************************************************************)
EXTENDS Screen

CONSTANTS
    Deltas,                 \* mouse movements: <<dx, dy>>
    ShellWindows,           \* rectangles of the windows ui_shell creates
    KernelWindows           \* and of those the kernel's desktop creates

VARIABLES
    desktop,
    fb,
    wm,                     \* WindowManager; windows and focus in the kernel
    x, y,                   \* where the cursor is
    saved,                  \* the pixels under the painted cursor
    dirty,                  \* dirty, needs_redraw
    prev_left,
    running,
    drawn                   \* history: the windows when they were last painted

vars == <<desktop, fb, wm, x, y, saved, dirty, prev_left, running, drawn>>

Scene(windows) == IF desktop = "ui_shell" THEN ShellScene(windows) ELSE KernelScene(windows)

\* The kernel's create_window pushes the window and focuses it.
kernel_create_window(m, r) ==
    [windows |-> Append(m.windows, Window(m.next_id, r)), next_id |-> m.next_id + 1,
     focused_id |-> m.next_id]

\* The windows of a list of rectangles, created in order.
ShellManager ==
    LET made[i \in 0 .. Len(ShellWindows)] ==
            IF i = 0 THEN NewManager ELSE create_window(made[i - 1], ShellWindows[i])
    IN  made[Len(ShellWindows)]

KernelManager ==
    LET made[i \in 0 .. Len(KernelWindows)] ==
            IF i = 0 THEN NewManager ELSE kernel_create_window(made[i - 1], KernelWindows[i])
    IN  made[Len(KernelWindows)]

\* The cursor painted at the place where the pixels under it were saved.
Cursor(scene, px, py) ==
    /\ saved' = save_region(scene, px, py)
    /\ fb' = draw_cursor(scene, px, py)

\* The loops begin after the windows were created and painted once.
Init ==
    \E d \in {"ui_shell", "kernel"} :
        LET m == IF d = "ui_shell" THEN ShellManager ELSE KernelManager
            scene == IF d = "ui_shell" THEN ShellScene(m.windows) ELSE KernelScene(m.windows)
        IN  /\ desktop = d /\ wm = m /\ drawn = m.windows
            /\ x = WIDTH \div 2 /\ y = HEIGHT \div 2
            /\ saved = save_region(scene, x, y)
            /\ fb = draw_cursor(scene, x, y)
            /\ dirty = (d = "ui_shell") /\ prev_left = FALSE /\ running = TRUE

---------------------------------------------------------------------------
(* ui_shell. *)

InHitArea(w, px, py) ==
    /\ px >= w.x + w.width - HitInset /\ px < w.x + w.width - HitInset + HitSize
    /\ py >= w.y + ButtonY /\ py < w.y + ButtonY + HitSize

\* A click raises the window under it, and closes it on its close button.
handle_click(px, py) ==
    LET id == window_at(wm.windows, px, py)
        raised == IF wm.focused_id = id THEN wm ELSE focus_window(wm, id)
        w == wm.windows[CHOOSE i \in WithId(wm.windows, id) : TRUE]
        closes == id # NoWindow /\ InHitArea(w, px, py)
    IN  /\ wm' = IF id = NoWindow THEN wm ELSE IF closes THEN close_window(raised, id) ELSE raised
        /\ dirty' = (dirty \/ (id # NoWindow /\ (wm.focused_id # id \/ closes)))

\* One mouse event: the cursor is lifted, moved, and put down again.
MouseEvent_SavesFirst(d, left) ==
    /\ desktop = "ui_shell" /\ running
    /\ x' = clamp(x + d[1], WIDTH - 1)
    /\ y' = clamp(y - d[2], HEIGHT - 1)
    /\ IF left /\ ~prev_left THEN handle_click(x', y') ELSE UNCHANGED <<wm, dirty>>
    /\ prev_left' = left
    /\ saved' = save_region(fb, x', y')
    /\ fb' = draw_cursor(restore_region(fb, saved), x', y')
    /\ UNCHANGED <<desktop, running, drawn>>

MouseEvent(d, left) ==
    /\ desktop = "ui_shell" /\ running
    /\ x' = clamp(x + d[1], WIDTH - 1)
    /\ y' = clamp(y - d[2], HEIGHT - 1)
    /\ IF left /\ ~prev_left THEN handle_click(x', y') ELSE UNCHANGED <<wm, dirty>>
    /\ prev_left' = left
    /\ Cursor(restore_region(fb, saved), x', y')
    /\ UNCHANGED <<desktop, running, drawn>>

\* Escape ends the program, wherever the cursor and the frame are.
handle_key ==
    /\ desktop = "ui_shell" /\ running
    /\ running' = FALSE
    /\ UNCHANGED <<desktop, fb, wm, x, y, saved, dirty, prev_left, drawn>>

\* The end of a batch: restore_region, then everything is painted anew.
draw_all ==
    /\ desktop = "ui_shell" /\ running /\ dirty
    /\ Cursor(ShellScene(wm.windows), x, y)
    /\ dirty' = FALSE
    /\ drawn' = wm.windows
    /\ UNCHANGED <<desktop, wm, x, y, prev_left, running>>

---------------------------------------------------------------------------
(* The desktop in the kernel. *)

\* handle_mouse_move, and handle_mouse_click on every event with the button down.
KernelMouse(d, left) ==
    /\ desktop = "kernel"
    /\ x' = clamp(x + d[1], WIDTH - 1)
    /\ y' = clamp(y + d[2], HEIGHT - 1)
    /\ LET id == window_at(wm.windows, x', y')
       IN  wm' = IF left /\ id # NoWindow THEN [wm EXCEPT !.focused_id = id] ELSE wm
    /\ dirty' = TRUE
    /\ UNCHANGED <<desktop, fb, saved, prev_left, running, drawn>>

\* A key pressed: handle_key does nothing yet, the cursor is painted again.
KernelKey ==
    /\ desktop = "kernel"
    /\ dirty' = TRUE
    /\ UNCHANGED <<desktop, fb, wm, x, y, saved, prev_left, running, drawn>>

render_cursor ==
    /\ desktop = "kernel" /\ dirty
    /\ Cursor(restore_region(fb, saved), x, y)
    /\ dirty' = FALSE
    /\ UNCHANGED <<desktop, wm, x, y, prev_left, running, drawn>>

Next ==
    \/ \E d \in Deltas, left \in BOOLEAN : MouseEvent(d, left) \/ KernelMouse(d, left)
    \/ handle_key
    \/ draw_all
    \/ KernelKey
    \/ render_cursor

Spec == Init /\ [][Next]_vars

---------------------------------------------------------------------------
(* Properties. *)

\* The cursor leaves no trail: the screen is the scene painted last with one
\* cursor on it, where its pixels were saved, and the saved pixels are those
\* under it, at the edges of the screen too (save_region, restore_region,
\* save_cursor_area, restore_cursor_area).  And when nothing is left to redraw it
\* shows the windows as they are and the cursor where it is.
NoTrail ==
    /\ ~dirty => drawn = wm.windows /\ saved.x = x /\ saved.y = y
    /\ fb = draw_cursor(Scene(drawn), saved.x, saved.y)
    /\ restore_region(fb, saved) = Scene(drawn)

\* In ui_shell the focused window is the top one, there is one as long as there
\* is a window, no other has the flag, and no two windows have the same id, after
\* any sequence of clicks that raise and close (focus_window, close_window).
FocusOnTop ==
    desktop = "ui_shell" =>
        /\ wm.focused_id = IF wm.windows = <<>> THEN NoWindow ELSE wm.windows[Len(wm.windows)].id
        /\ \A i \in DOMAIN wm.windows : wm.windows[i].focused => wm.windows[i].id = wm.focused_id
        /\ \A i, j \in DOMAIN wm.windows : wm.windows[i].id = wm.windows[j].id => i = j

Ids(windows) == {windows[i].id : i \in DOMAIN windows}

\* On a screen that is up to date, clicks act on what is seen under the cursor.
\* A click on a close button closes the window it is painted on; a window
\* disappears only when clicked in its own header, or where a shadow or the dock
\* hides its button (these pass clicks on); and otherwise the window that is seen
\* gets the focus.  Painting from bottom to top and searching from top to bottom
\* agree (draw_all and window_at, render_all and handle_mouse_click).
ClicksActOnWhatIsSeen ==
    [][~dirty =>
         LET seen == Scene(drawn)[<<x', y'>>]
             closed == Ids(wm.windows) \ Ids(wm'.windows)
         IN  /\ ~prev_left /\ prev_left' /\ seen.part = "close" => closed = {seen.of}
             /\ closed # {} => \/ seen.part \in {"shadow", "dock"}
                               \/ /\ closed = {seen.of}
                                  /\ seen.part \in {"close", "header", "focused"}
             /\ (wm' # wm \/ (~prev_left /\ prev_left')) /\ seen.of # NoWindow /\ closed = {}
                    => wm'.focused_id = seen.of]_vars
=============================================================================
