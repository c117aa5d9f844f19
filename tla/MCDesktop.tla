----------------------------- MODULE MCDesktop ------------------------------
(* A screen of 11 x 9 pixels with overlapping windows, one under the dock. *)
EXTENDS Desktop

Rect(px, py) == [x |-> px, y |-> py, width |-> 7, height |-> 5]

MCShellWindows == <<Rect(1, 1), Rect(3, 3)>>
MCKernelWindows == <<Rect(2, 2)>>

\* The last two reach beyond the edges of the screen.
MCDeltas == {<<0, 0>>, <<1, 0>>, <<-1, 0>>, <<0, 1>>, <<0, -1>>, <<12, 12>>, <<-12, -12>>}

MCCursorShape == {<<0, 0>>, <<0, 1>>, <<1, 1>>}
=============================================================================
