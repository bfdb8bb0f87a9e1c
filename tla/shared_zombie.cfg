\* Two clients: a retry can recreate a session that was archived.
SPECIFICATION Spec
CONSTANTS
    Clients = {c1, c2}
    Sessions = {1}
    NoSession = NoSession
    PathChoices <- DefaultPaths
    WritesMayFail = FALSE
    MaxCrashes = 0
    MaxCount = 1
INVARIANT ReadyIsComplete
