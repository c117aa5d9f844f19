SPECIFICATION Spec
CONSTANTS
    Chars <- MCChars
    MAX_LINE_LENGTH = 4
    CAPACITY = 2
    ROWS = 2
    COLS = 3
    MAX_VISIBLE_LINES = 3
    MAX_ROW_LENGTH = 6
    CommandOf <- MCCommandOf
    HelpTopics = {}
    NumberOf <- MCNumberOf
    LongFlags = {}
    MAX_ARGS = 1
    PATH_BYTES = 5
    ECHO_BYTES = 4
    TypedLines <- MCTypedLines
    EnteredLines <- MCEnteredLines
    MaxPushed = 3
CHECK_DEADLOCK FALSE
INVARIANTS
    RecallsCommand WindowShowsTail 
PROPERTIES
    EditsLine 
