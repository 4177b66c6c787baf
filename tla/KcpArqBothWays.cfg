SPECIFICATION Spec
CONSTANTS
    a = a
    b = b
    Node <- MCNode
    MaxStream <- BothWays
    MaxNet <- OneInFlight
    SndWnd = 2
    RcvWnd = 3
    WndRcv = 3
    MaxFrags = 2
    MaxFaults = 1
INVARIANTS
    DeliveredIsPrefix
CHECK_DEADLOCK FALSE
