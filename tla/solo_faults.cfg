\* One client at a time, killed and refused by the disk.
SPECIFICATION Spec
CONSTANTS
    Clients = {c1}
    Sessions = {1, 2}
    NoSession = NoSession
    PathChoices <- DefaultPaths
    WritesMayFail = TRUE
    MaxCrashes = 2
    MaxCount = 2
INVARIANT TypeOK
INVARIANT ReadyIsComplete
INVARIANT NoDuplicateWithoutFault
INVARIANT FailureHistory
