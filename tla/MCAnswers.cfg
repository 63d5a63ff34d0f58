CONSTANTS
    MAX_FD_ARR_SIZE = 4
    DATA_BLK_SIZE = 4
    NumBlocks = 7
    Entries <- ImageEntries
    Inodes <- ImageInodes
    Names = {}
    ReadSizes = {}
    ReadsOn = FALSE
    MAX_FILENAME_LEN = 2
    MAX_ARG_LEN = 4
    BUFSIZE = 4
    Bytes <- ImageBytes
    Blocks <- ImageBlocks
    ELF <- ImageELF
    Program <- ImageProgram
    Lines <- Commands
    Garbage = {"b"}
SPECIFICATION FairProgramsSpec
INVARIANTS
    ProgramsTypeOK
    AnswersCommand
PROPERTIES
    CommandsEnd
