SPECIFICATION Spec
CONSTANTS
    Keys <- MCKeys
    Motions <- MCMotions
    KEYBOARD_BUFFER_SIZE = 3
    MOUSE_BUFFER_SIZE = 5
    DRAIN = 4
    MAX_QUEUE_DEPTH = 1
    KeyBudget <- MCKeyBudget
    MotionBudget <- MCMotionBudget
    CallBudget = 3
    ControllerDepth <- MCControllerDepth
INVARIANTS
    KeysDecoded
    
PROPERTIES
    BuffersAreFifos
    KeysAreRead
CHECK_DEADLOCK FALSE
