SPECIFICATION Spec
CONSTANTS
    Threads <- MCThreads
    Resources <- MCResources
    vec1 <- MCvec1
    vec2 <- MCvec2
    INT_MAX = 7
    Inputs = {1, 6}
INVARIANTS
    TypeOK
    TurnTaking
    SameInEveryOrder
    OutputIsProduct
