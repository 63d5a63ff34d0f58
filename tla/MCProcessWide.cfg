CONSTANTS
    NUM_TTYS = 3
    MAX_PIDs = 5
    TimerWindows = {}
    EarlyCommands = FALSE
SPECIFICATION Spec
INVARIANTS
    TypeOK
    ContextConsistent
    OneContinuation
    CallerIsParent
    StackExclusive
PROPERTIES
    OnlyOwnHaltFrees
    ImplementsJobs
