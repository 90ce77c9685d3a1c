SPECIFICATION SysFairSpec
CONSTANTS
    NULL = NULL
    LISTEN = LISTEN
    Conn = {1, 2, 3}
    Stray = {}
    MaxSent = 4
    RecvMax = 2
    MaxCrashes = 1
    Blocks = 1
    ClientFaults = {"socket", "malloc", "thread", "open", "signal"}
INVARIANTS
    SysTypeOK
    SendsOnConnected
    
    NoCrashWhileSending
PROPERTIES
    InOrderAtMostOnce
    
