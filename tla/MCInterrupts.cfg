CONSTANTS
    NUM_TTYS = 2
    MaxFrames = 3
    EarlyKeys = FALSE
SPECIFICATION FairSpec
INVARIANTS
    TypeOK
    ServiceMatchesHandlers
PROPERTIES
    TicksFindTerminals
    EveryRequestServed
