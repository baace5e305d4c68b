SPECIFICATION FairSpec
CONSTANTS
    opt_n_threads = 2
    MaxFailures = 1
    MaxWorkFailures = 1
    MaxDrops = 1
INVARIANT NoUseAfterRelease
INVARIANT JoinsOnce
INVARIANT NothingLeft
PROPERTY AbortEnds
CHECK_DEADLOCK FALSE
