SPECIFICATION FairSpec
CONSTANTS
    Threads = {t1, t2}
    Seeds = {seedA, seedB}
    BenchmarkKey = benchmark
    None = none
    Torn = torn
    DrainPolls = 2
    MaxJobs = 2
    MaxFailures = 1
INVARIANT RebuildAlone
INVARIANT HashesKeyed
INVARIANT SharesSound
PROPERTY RekeyEnds
PROPERTY WorkHashed
CHECK_DEADLOCK FALSE
