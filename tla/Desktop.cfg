SPECIFICATION Spec
CONSTANTS
    WIDTH = 11
    HEIGHT = 9
    PANEL = 1
    SHADOW = 1
    HEADER = 2
    ButtonInset = 2
    ButtonY = 1
    ButtonSize = 1
    ButtonStep = 2
    HitInset = 3
    HitSize = 2
    DockWidth = 4
    DockHeight = 1
    DockGap = 1
    SavedWidth = 3
    SavedHeight = 2
    CursorShape <- MCCursorShape
    Deltas <- MCDeltas
    ShellWindows <- MCShellWindows
    KernelWindows <- MCKernelWindows
INVARIANTS
    NoTrail
    FocusOnTop
PROPERTIES
    ClicksActOnWhatIsSeen
CHECK_DEADLOCK FALSE
