\* A state.json whose last bytes do not reach the disk.
SPECIFICATION Spec
CONSTANTS
    Clients = {c1}
    Sessions = {1}
    NoSession = NoSession
    PathChoices <- DefaultPaths
    WritesMayFail = TRUE
    MaxCrashes = 0
    MaxCount = 1
INVARIANT ExitZeroIsHonest
