SPECIFICATION Spec
CONSTANTS
    n1 = n1
    n2 = n2
    n3 = n3
    n4 = n4
    Node <- MCNode
    HEAD = HEAD
    NULL = NULL
    Datum = {1, 2}
SYMMETRY NodeSymmetry
INVARIANT
    WellFormed
PROPERTIES
    AsASequence
    TailLost
