CONSTANTS
    Keys <- MCKeys
    NUM_TTYS = 3
    Pids = {0, 1}
    MaxDown = 2
    MaxQueue = 1
SPECIFICATION Spec
PROPERTIES
    FunctionKeysNeedAlt
