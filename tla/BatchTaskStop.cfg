SPECIFICATION FairSpec
CONSTANTS
    Goal = 4
    Batch = 2
PROPERTIES
    LastSignalEndsTask1
CHECK_DEADLOCK FALSE
