SPECIFICATION Spec
CONSTANTS
    Algos = {"standard", "verus", "randomx"}
    Blocks = {1, 2}
    Diffs = {2}
    Xnonces <- SizesTried
    ReplyTimeout = 2
    XnonceTimeout = 1
    PoolTimeout = 2
    RebuildTime = 1
    None = none
    MaxConns = 2
    MaxLines = 4
INVARIANT AuthorizedHere
INVARIANT PublishedWorkSound
INVARIANT CurrentCopyAgrees
INVARIANT SetupBounded
CHECK_DEADLOCK FALSE
