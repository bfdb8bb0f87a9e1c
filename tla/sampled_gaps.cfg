\* A peer's requests come at any time while the loop polls.
SPECIFICATION SamplingSpec
CONSTANTS
    TicksPerMs = 1
    snapshot_interval_ms = 6
    PollLimitMs = 3
    RuntimeMs = 15
    MaxDrain = 1
    MaxSnapshot = 2
    MaxOversleep = 1
    LastSignal = 0
    Horizon = 30
    MaxRequests = 3
\* After finalize the session is over.
CHECK_DEADLOCK FALSE
INVARIANT GapsAreSampled
