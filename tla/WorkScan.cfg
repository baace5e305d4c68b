SPECIFICATION FairSpec
CONSTANTS
    opt_n_threads = 2
    Algos = {"verus", "standard", "randomx"}
    FullSpace = 3
    NicehashSpace = 1
    Jobs = {1, 2}
    MaxEpoch = 1
    ChunkSize = 2
    MaxPublish = 2
INVARIANT TypeOK
INVARIANT NoRepeatedHash
INVARIANT ScanInRange
PROPERTY WorkAdopted
PROPERTY ThreadsStop
CHECK_DEADLOCK FALSE
