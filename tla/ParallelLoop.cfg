SPECIFICATION Spec
CONSTANTS
    thread_count = 2
    Calls <- MCCalls
INVARIANTS
    TypeOK
    EachIndexOnce
    BlocksBalanced
PROPERTIES
    GetIsComplete
    DoneIsHandled
    CallReturns
