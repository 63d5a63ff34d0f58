CONSTANTS
    NUM_TTYS = 2
    HZ = 2
    Frequencies = {0, 1, 3, 4}
    Slots = {0, 1, 2}
SPECIFICATION FairClocksSpec
INVARIANTS
    FrequencyIsOwn
PROPERTIES
    ReadsLastTheirPeriod
    ImplementsRtc
    EveryReadReturns
