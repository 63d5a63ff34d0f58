CONSTANTS
    NUM_TTYS = 3
    TERM_ROWS = 2
    TERM_COLS = 2
    Windows = {}
    MaxWritten = 3
SPECIFICATION Spec
INVARIANTS
    TypeOK
    PutsAtCursor
PROPERTIES
    ImplementsDisplays
    OthersUntouched
