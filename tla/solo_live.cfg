\* One client, launched again and again, killed at most once; logs may be elsewhere.
SPECIFICATION FairSpec
CONSTANTS
    Clients = {c1}
    Sessions = {1, 2}
    NoSession = NoSession
    PathChoices <- LogOverride
    WritesMayFail = FALSE
    MaxCrashes = 1
    MaxCount = 1
INVARIANT FailureHistory
INVARIANT ExitZeroIsHonest
PROPERTY ReadyIsArchived
