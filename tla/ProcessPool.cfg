SPECIFICATION FairSpec
CONSTANTS
    Parent = Parent
    MaxWorkers = 3
    FirstFd = 3
    PipeTasks = 2
    MaxTasks = 7
INVARIANTS
    TypeOK
    TasksInTurn
    OneReader
    NoBrokenPipe
PROPERTIES
    TasksRun
    WorkersFollow
\* The destructor may wait forever; see ProcessPoolDestroy.cfg.
CHECK_DEADLOCK FALSE
