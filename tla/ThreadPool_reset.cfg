SPECIFICATION Spec
CONSTANTS
    MaxThreads = 2
    ThreadCounts = {2}
    Clients = {c1}
    Owner = c1
    c1 = c1
    c2 = c2
    MaxTasks = 1
    Resets = TRUE
PROPERTIES
    QueueDrains
