\* One endpoint that reconnects; alerts are lost and snapshots overtake them.
SPECIFICATION MCSpec
CONSTANTS
    Endpoints = {e1}
    QueueSize = 3
    SampleThreshold = 2
    Troubles = {"loss", "open_fails", "error_closes"}
    MaxConnections = 3
    MaxBytes = 1
    MaxRequests = 2
    Values <- MCValues
    MaxSamples = 6
\* After the last snapshot the session is over.
CHECK_DEADLOCK FALSE
INVARIANT TypeOK
INVARIANT NeverOvercounted
INVARIANT TotalsAddUp
INVARIANT CountsAreConnections
INVARIANT PercentilesAreQuantiles
INVARIANT DeviationsAreOfTheMean
