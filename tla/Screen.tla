------------------------------- MODULE Screen -------------------------------
(***************************************************************************)
(* The framebuffer and what the two compositors paint on it: ui_shell      *)
(* (drivers/ui_shell) and the desktop inside the kernel (init_process.rs). *)
(* A pixel is [of, part]: the window it was painted for, or 0, and what it *)
(* shows.  Lengths of the code are constants, to be scaled down.           *)
(***************************************************************************)
EXTENDS WindowManager

CONSTANTS
    WIDTH, HEIGHT,          \* of the screen
    PANEL, SHADOW, HEADER,  \* panel height, shadow offset, header height
    ButtonInset, ButtonY, ButtonSize, ButtonStep, \* window controls as painted
    HitInset, HitSize,      \* the area in which a click closes the window
    DockWidth, DockHeight, DockGap,
    SavedWidth, SavedHeight, \* the area saved under the cursor
    CursorShape             \* offsets of the pixels the cursor paints

ASSUME ScreenAssumption == CursorShape \subseteq (0 .. SavedWidth - 1) \X (0 .. SavedHeight - 1)

Pixels == (0 .. WIDTH - 1) \X (0 .. HEIGHT - 1)

Of(id, part) == [of |-> id, part |-> part]
Plain(part) == Of(0, part)

clamp(v, max) == IF v < 0 THEN 0 ELSE IF v > max THEN max ELSE v
saturating_sub(a, b) == IF a > b THEN a - b ELSE 0

fill_rect(fb, x, y, width, height, color) ==
    [p \in Pixels |-> IF p[1] \in x .. x + width - 1 /\ p[2] \in y .. y + height - 1
                      THEN color ELSE fb[p]]

draw_panel(fb) == fill_rect(fb, 0, 0, WIDTH, PANEL, Plain("panel"))

Button(fb, w, n, part) ==
    fill_rect(fb, w.x + w.width - ButtonInset - n * ButtonStep, w.y + ButtonY, ButtonSize, ButtonSize,
              Of(w.id, part))

draw_window(fb, w) ==
    LET shadow == fill_rect(fb, w.x + SHADOW, w.y + SHADOW, w.width, w.height, Plain("shadow"))
        border == fill_rect(shadow, w.x, w.y, w.width, w.height, Of(w.id, "border"))
        content == fill_rect(border, w.x + 1, w.y + 1, w.width - 2, w.height - 2, Of(w.id, "content"))
        header == fill_rect(content, w.x + 1, w.y + 1, w.width - 2, HEADER,
                            Of(w.id, IF w.focused THEN "focused" ELSE "header"))
    IN  Button(Button(Button(header, w, 0, "close"), w, 1, "minimize"), w, 2, "maximize")

draw_dock(fb) ==
    fill_rect(fb, saturating_sub(WIDTH \div 2, DockWidth \div 2),
              saturating_sub(HEIGHT, DockHeight + DockGap), DockWidth, DockHeight, Plain("dock"))

\* The kernel's desktop: title bar, close button and content, no focus colour.
render_window(fb, w) ==
    LET shadow == fill_rect(fb, w.x + SHADOW, w.y + SHADOW, w.width, w.height, Plain("shadow"))
        body == fill_rect(shadow, w.x, w.y, w.width, w.height, Of(w.id, "border"))
        title == fill_rect(body, w.x, w.y, w.width, HEADER, Of(w.id, "header"))
    IN  fill_rect(Button(title, w, 0, "close"), w.x, w.y + HEADER, w.width, w.height - HEADER,
                  Of(w.id, "content"))

Blank == [p \in Pixels |-> Plain("background")]

\* What draw_all paints before the cursor: the visible windows from the bottom up.
ShellScene(windows) ==
    LET painted[i \in 0 .. Len(windows)] ==
            IF i = 0 THEN draw_panel(Blank)
            ELSE IF windows[i].visible THEN draw_window(painted[i - 1], windows[i])
            ELSE painted[i - 1]
    IN  draw_dock(painted[Len(windows)])

\* What Compositor::new and render_all of the kernel paint before the cursor.
KernelScene(windows) ==
    LET painted[i \in 0 .. Len(windows)] ==
            IF i = 0 THEN draw_panel(Blank)
            ELSE IF windows[i].visible THEN render_window(painted[i - 1], windows[i])
            ELSE painted[i - 1]
    IN  painted[Len(windows)]

---------------------------------------------------------------------------
(* The cursor: the pixels under it are saved and put back. *)

SavedCells == (0 .. SavedWidth - 1) \X (0 .. SavedHeight - 1)

At(x, y, cell) == <<x + cell[1], y + cell[2]>>

\* Cells off the screen are not written; "zero" stands for whatever they held.
save_region(fb, x, y) ==
    [region |-> [c \in SavedCells |-> IF At(x, y, c) \in Pixels THEN fb[At(x, y, c)]
                                      ELSE Plain("zero")],
     x |-> x, y |-> y]

\* Both desktops save before they first restore.
restore_region(fb, saved) ==
    [p \in Pixels |->
        LET c == <<p[1] - saved.x, p[2] - saved.y>>
        IN  IF c \in SavedCells THEN saved.region[c] ELSE fb[p]]

draw_cursor(fb, x, y) ==
    [p \in Pixels |-> IF <<p[1] - x, p[2] - y>> \in CursorShape THEN Plain("cursor") ELSE fb[p]]
=============================================================================
