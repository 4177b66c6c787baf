SPECIFICATION FairSpec
CONSTANTS
    Sender = Sender
    Receivers = {r1, r2}
    Size <- MCSize
    ChunkSize = 2
PROPERTIES
    SentIsSaved
\* The sender ends.
CHECK_DEADLOCK FALSE
