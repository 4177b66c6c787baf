SPECIFICATION Spec
CONSTANTS
    W = 48
    Interval = 2
    Jump = 8
    FirstFlush = 3
    RtoDef = 3
    RtoMin = 2
    RtoMax = 8
    FastResend = 2
    FastLimit = 5
    Origins = {0, 43}
    Gaps = {1, 4, 9}
    MaxTime = 10
    MaxSegs = 3
INVARIANTS
    TypeOK
    FlushesKeepPace
    ResentInTime
    CheckNeverLate
PROPERTIES
    ResentWithReason
\* Time is bounded.
CHECK_DEADLOCK FALSE
