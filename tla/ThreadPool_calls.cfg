SPECIFICATION Spec
CONSTANTS
    MaxThreads = 2
    ThreadCounts = {1, 2}
    Clients = {c1, c2}
    Owner = c1
    c1 = c1
    c2 = c2
    MaxTasks = 2
    Resets = TRUE
INVARIANTS
    TypeOK
    RunningCount
    DestructorRunsTasks
PROPERTIES
    WaitMeansDone
    ImplementsTaskPool
