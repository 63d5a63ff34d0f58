CONSTANTS
    NUM_TTYS = 3
    HZ = 3
    Lengths <- MCLengths
    Times <- MCTimes
    AckBytes = 1
    TornReads = FALSE
SPECIFICATION FairSpec
INVARIANTS
    TypeOK
    MessageLastsThreeSeconds
    TimeIsCentral
    ButtonsFollow
PROPERTIES
    MessageGoes
