SPECIFICATION Spec
CONSTANTS
    thread_count = 2
    Calls <- MCCalls
INVARIANTS
    EveryIndexRuns
