CONSTANTS
    MAX_FD_ARR_SIZE = 4
    DATA_BLK_SIZE = 2
    NumBlocks = 6
    Entries <- MCEntries
    Inodes <- MCInodes
    Names <- MCNames
    ReadSizes = {1, 3, 8}
    ReadsOn = TRUE
SPECIFICATION Spec
INVARIANTS
    ReadTellsTransfer
