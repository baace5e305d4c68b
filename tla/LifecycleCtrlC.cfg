SPECIFICATION FairSpec
CONSTANTS
    opt_n_threads = 2
    MaxFailures = 0
    MaxWorkFailures = 0
    MaxDrops = 0
CHECK_DEADLOCK FALSE
PROPERTY CtrlCStops
