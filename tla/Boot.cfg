SPECIFICATION Spec
CONSTANTS
    PAGE_SIZE = 4
    HeaderBytes = 2
    U32 = 16
    UiShell = 1
    Empty = "empty"
    Service <- MCService
    Boots <- MCBoots
INVARIANTS
    ParsesExactly
    ImageSound
    StartupOrderCorrect
PROPERTIES
    
    BootFinishes
CHECK_DEADLOCK FALSE
