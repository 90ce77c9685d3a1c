SPECIFICATION FairSpec
CONSTANTS
    f1 = f1
    NULL = NULL
    Writer <- MCWriter
    Stream <- MCStream
    FileMax = 1
    StdioMax = 3
    BuffMax = 3
    MaxChunks = 4
    Faults = {}
    Signals = 2
    Prompt = TRUE
INVARIANTS
    TypeOK
    NoCrash
    
PROPERTIES
    ExitEventually
CHECK_DEADLOCK FALSE
