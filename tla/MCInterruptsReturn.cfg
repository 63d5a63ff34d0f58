CONSTANTS
    NUM_TTYS = 2
    MaxFrames = 2
    EarlyKeys = FALSE
SPECIFICATION FairSpec
INVARIANTS
    OwnReturn
