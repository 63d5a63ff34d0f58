CONSTANTS
    NUM_TTYS = 3
    HZ = 3
    Lengths <- MCLengths
    Times <- FirstMornings
    AckBytes = 1
    TornReads = FALSE
SPECIFICATION Spec
INVARIANTS
    TimeIsCentral
