SPECIFICATION FairSpec
CONSTANTS
    f1 = f1
    NULL = NULL
    Writer <- MCWriter
    Stream <- MCStream
    FileMax = 3
    StdioMax = 3
    BuffMax = 3
    MaxChunks = 2
    Faults = {}
    Signals = 0
    Prompt = TRUE
PROPERTIES
    EveryChunkOnDisk
