SPECIFICATION FairSpec
CONSTANTS
    a = a
    b = b
    Node <- MCNode
    MaxStream <- OneWayShort
    MaxNet <- OneInFlight
    SndWnd = 2
    RcvWnd = 2
    WndRcv = 2
    MaxFrags = 3
    MaxFaults = 1
PROPERTIES
    ImplementsChannel
    SendersDrain
CHECK_DEADLOCK FALSE
