CONSTANTS
    INPUT_BUFFER_SIZE = 5
    NewlineCode = 2
    TabWidth = 2
    ReadSizes = {2, 8}
    EnterWhenFull = FALSE
    TabPreempted = FALSE
    MaxStored = 7
SPECIFICATION FairSpec
CHECK_DEADLOCK FALSE
INVARIANTS
    TypeOK
    InOrderOnce
PROPERTIES
    ImplementsLineQueue
    EnterWakesReader
