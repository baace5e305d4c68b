SPECIFICATION FairSpec
CONSTANTS
    NumUserPools = 4
    Usable = {0, 1, 3}
    DevFee = FALSE
    NumTargets = 2
    SliceSeconds = 4
    CycleSeconds = 6
    OptRetries = 1
    RetryPause = 1
    PoolTimeout = 2
    KeepaliveSec = 0
    OpenTimeout = 1
    ReplyTimeout = 1
    XnonceTimeout = 1
    RetryCap = 2
    MaxLate = 1
INVARIANT PacedRetries
PROPERTY ServiceStops
PROPERTY RetryLimitReached
