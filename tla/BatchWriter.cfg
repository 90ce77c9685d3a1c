SPECIFICATION Spec
CONSTANTS
    f1 = f1
    NULL = NULL
    Writer <- MCWriter
    Stream <- MCStream
    FileMax = 1
    StdioMax = 2
    Faults = {}
    MaxChunks = 10
    MaxBatch = 2
INVARIANTS
    ReturnedIsWritten
    WritesGoToRpioTxt
PROPERTIES
    FileIsRelay
