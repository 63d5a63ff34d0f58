CONSTANTS
    NUM_TTYS = 3
    MAX_PIDs = 5
    TimerWindows = {"restart"}
    EarlyCommands = FALSE
SPECIFICATION Spec
INVARIANTS
    OwnTerminal
