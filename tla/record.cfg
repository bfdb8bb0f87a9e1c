\* The scenarios of MCPeerRecord. The last block of the piece is short.
SPECIFICATION MCSpec
CONSTANTS
    BlockSize = 2
    PieceLength = 5
    BurstGap = 2
    Interval = 2
    Events <- MCEvents
    MaxClock = 10
    MaxEvents = 5
\* After finalize the session is over.
CHECK_DEADLOCK FALSE
INVARIANT MeasuredOnce
INVARIANT UploadLatencyNeverShort
INVARIANT BurstsPartition
INVARIANT BurstsKeepTheGap
INVARIANT WindowsTile
