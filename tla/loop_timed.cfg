\* A capture with a deadline. Snapshots may take longer than the interval.
SPECIFICATION LiveSpec
CONSTANTS
    TicksPerMs = 2
    snapshot_interval_ms = 5
    PollLimitMs = 2
    RuntimeMs = 11
    MaxDrain = 2
    MaxSnapshot = 12
    MaxOversleep = 1
    LastSignal = 70
    Horizon = 70
\* After finalize the session is over.
CHECK_DEADLOCK FALSE
INVARIANT StopsPromptly
INVARIANT SnapshotsOnTime
INVARIANT RuntimeIsHonoured
PROPERTY Ends
PROPERTY RoundsInOrder
