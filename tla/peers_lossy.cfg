\* Alerts may be lost, also while a piece is refused and downloaded again.
SPECIFICATION Spec
CONSTANTS
    Endpoints = {e1}
    Pieces = {p1}
    QueueLimit = 2
    Troubles = {"hash_fails", "error_closes"}
    MaxPosts = 8
\* After finalize the session is over.
CHECK_DEADLOCK FALSE
INVARIANT TypeOK
INVARIANT OneActiveRecord
INVARIANT LatencyHasNoGap
INVARIANT CreditIsEarned
PROPERTY ClosedIsFrozen
