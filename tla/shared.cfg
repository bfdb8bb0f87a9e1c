\* Three clients on one artifacts directory.
SPECIFICATION Spec
CONSTANTS
    Clients = {c1, c2, c3}
    Sessions = {1}
    NoSession = NoSession
    PathChoices <- DefaultPaths
    WritesMayFail = FALSE
    MaxCrashes = 0
    MaxCount = 1
SYMMETRY ClientSymmetry
VIEW WithoutCounts
INVARIANT ArchivedWasDelivered
INVARIANT UploadsAreWhole
PROPERTY SealedNeverLost
PROPERTY ImplementsDelivery
