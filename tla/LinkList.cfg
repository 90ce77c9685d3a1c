SPECIFICATION FairSpec
CONSTANTS
    n1 = n1
    n2 = n2
    n3 = n3
    NULL = NULL
    Node <- MCNode
    MaxChunks = 4
INVARIANTS
    ListInv
    DerefsAllocated
    PopFindsNode
    NoLeak
PROPERTIES
    QueueIsRelay
    EveryChunkPopped
