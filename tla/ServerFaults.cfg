SPECIFICATION Spec
CONSTANTS
    f1 = f1
    NULL = NULL
    Writer <- MCWriter
    Stream <- MCStream
    FileMax = 1
    StdioMax = 3
    BuffMax = 3
    MaxChunks = 2
    Faults = {"stat", "mv", "open", "bind", "thread", "epoll", "malloc"}
    Signals = 2
    Prompt = FALSE
INVARIANTS
    
    FlushAlone
    
CHECK_DEADLOCK FALSE
