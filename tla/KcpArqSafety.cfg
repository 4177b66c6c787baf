SPECIFICATION Spec
CONSTANTS
    a = a
    b = b
    Node <- MCNode
    MaxStream <- OneWay
    MaxNet <- TwoAcksInFlight
    SndWnd = 2
    RcvWnd = 2
    WndRcv = 2
    MaxFrags = 1
    MaxFaults = 0
INVARIANTS
    TypeOK
    DeliveredIsPrefix
    NoFragmentLost
    WindowsRespected
    NothingStranded
PROPERTIES
    NeverBackward
CHECK_DEADLOCK FALSE
