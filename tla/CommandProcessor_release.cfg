SPECIFICATION Spec
CONSTANTS
    QNUM = 3
    RBuf <- MainRBuf
    IbSize = 5
    Ibufs <- MainIbufs
PROPERTIES
    ReleasedBecomesFree
