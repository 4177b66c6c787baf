SPECIFICATION StationSpec
CONSTANTS
    Observer = {d1, d2}
    Weather = {w1}
    MaxEntries = 3
PROPERTIES
    RemovedIsGone
CHECK_DEADLOCK FALSE
