SPECIFICATION FairSpec
CONSTANTS
    NumUserPools = 2
    Usable = {0, 1}
    DevFee = TRUE
    NumTargets = 2
    SliceSeconds = 4
    CycleSeconds = 7
    OptRetries <- Forever
    RetryPause = 1
    PoolTimeout = 3
    KeepaliveSec = 2
    OpenTimeout = 1
    ReplyTimeout = 1
    XnonceTimeout = 1
    RetryCap = 0
    MaxLate = 0
PROPERTY SliceCutForCause
INVARIANT PoolSelection
INVARIANT OneTransport
INVARIANT SilenceBounded
PROPERTY NoWaitPastBoundary
PROPERTY UserMiningResumes
