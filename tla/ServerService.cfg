SPECIFICATION FairSpec
CONSTANTS
    f1 = f1
    NULL = NULL
    Writer <- MCWriter
    Stream <- MCStream
    FileMax = 1
    StdioMax = 3
    BuffMax = 3
    MaxChunks = 5
    Faults = {}
    Signals = 0
    Prompt = TRUE
INVARIANTS
    BufferFits
PROPERTIES
    ServerIsRelay
    EveryChunkHandled
