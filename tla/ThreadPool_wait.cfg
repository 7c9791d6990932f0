SPECIFICATION Spec
CONSTANTS
    MaxThreads = 2
    ThreadCounts = {1, 2}
    Clients = {c1}
    Owner = c1
    c1 = c1
    c2 = c2
    MaxTasks = 3
    Resets = FALSE
PROPERTIES
    QueueDrains
    WaitReturns
    ThreadsStop
