SPECIFICATION FairSpec
CONSTANTS
    LISTEN = LISTEN
    Conn = {1, 2}
    Stray = {1, 2}
    MaxSent = 3
    RecvMax = 2
    MaxCrashes = 1
INVARIANTS
    
    Announced
    
    NeverBlocks
    CutOffByBurst
PROPERTIES
    
    EveryoneServed
