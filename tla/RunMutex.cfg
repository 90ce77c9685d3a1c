SPECIFICATION FairSpec
CONSTANTS
    NULL = NULL
    Thread = {t1, t2, t3}
    Interval = 2
    Far = 4
    Credit = 1
    Lapse = {2, 5}
    Timeouts = {6}
    Skews = {0, 9}
    MaxSet = 1
    MaxCalls = 3
INVARIANTS
    LockInv
    Exclusion
    NotEarly
PROPERTIES
    EveryCallReturns
