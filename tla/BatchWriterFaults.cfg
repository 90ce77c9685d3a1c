SPECIFICATION Spec
CONSTANTS
    f1 = f1
    NULL = NULL
    Writer <- MCWriter
    Stream <- MCStream
    FileMax = 1
    StdioMax = 2
    Faults = {"stat", "mv", "open"}
    MaxChunks = 8
    MaxBatch = 2
INVARIANTS
    FileContents
