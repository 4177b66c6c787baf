SPECIFICATION HttpSpec
CONSTANTS
    Parent = Parent
    MaxWorkers = 2
    FirstFd = 4
    PipeTasks = 2
    MaxTasks = 5
INVARIANTS
    ServerGoesOn
CHECK_DEADLOCK FALSE
