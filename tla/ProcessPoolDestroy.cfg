SPECIFICATION FairSpec
CONSTANTS
    Parent = Parent
    MaxWorkers = 2
    FirstFd = 3
    PipeTasks = 1
    MaxTasks = 2
PROPERTIES
    DestructorReaps
CHECK_DEADLOCK FALSE
