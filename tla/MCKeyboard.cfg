CONSTANTS
    Keys <- HonestKeys
    NUM_TTYS = 3
    Pids = {0, 1}
    MaxDown = 2
    MaxQueue = 1
SPECIFICATION Spec
INVARIANTS
    TypeOK
    ModsFollowKeys
    EveryCharacterTypes
PROPERTIES
    ImplementsTypist
