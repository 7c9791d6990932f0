\* Every buffer over three words, six queues.
SPECIFICATION Spec
CONSTANTS
    QNUM = 6
    RBuf <- MainRBuf
    IbSize = 5
    Ibufs <- AllIbufs
INVARIANTS
    TypeOK
    NothingLeftOver
    OffsetAtHeader
    PausedPastSync
PROPERTIES
    PausedKeepsPlace
    ServesTheBell
    StartsIdleQueue
