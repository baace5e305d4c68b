SPECIFICATION Spec
CONSTANTS
    NumUserPools = 2
    Usable = {0, 1}
    DevFee = TRUE
    NumTargets = 2
    SliceSeconds = 4
    CycleSeconds = 6
    OptRetries = 0
    RetryPause = 1
    PoolTimeout = 2
    KeepaliveSec = 0
    OpenTimeout = 1
    ReplyTimeout = 1
    XnonceTimeout = 1
    RetryCap = 1
    MaxLate = 0
INVARIANT PacedRetries
