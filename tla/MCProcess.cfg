CONSTANTS
    NUM_TTYS = 2
    MAX_PIDs = 4
    TimerWindows = {}
    EarlyCommands = FALSE
SPECIFICATION FairSpec
INVARIANTS
    TypeOK
    ContextConsistent
    OneContinuation
    CallerIsParent
    StackExclusive
PROPERTIES
    OnlyOwnHaltFrees
    ImplementsJobs
    EveryTerminalRuns
