\* The queue is long enough for every alert.
SPECIFICATION Spec
CONSTANTS
    Endpoints = {e1, e2}
    Pieces = {p1}
    QueueLimit = 5
    Troubles = {"open_fails", "peer_error", "checking", "time_out"}
    MaxPosts = 5
SYMMETRY EndpointSymmetry
\* After finalize the session is over.
CHECK_DEADLOCK FALSE
INVARIANT RecordsAreConnections
INVARIANT OneConnectionIfInOrder
INVARIANT CompletionsAreDownloads
