SPECIFICATION Spec
CONSTANTS
    num_servers = 2
    max_ips = 2
    DNS_TIMEOUT_SEC = 3
    DNS_TOTAL_BUDGET_SEC = 4
    TcpOps = 2
    Senders = {s1, s2}
    None = none
    Timeout = 2
    SendTimeout = 1
    RecvSize = 2
    STRATUM_MAX_LINE_BYTES = 2
    LinePieces = 2
    MaxPieces = 0
    MaxSends = 0
    MaxConnects = 1
    MaxSignals = 1
INVARIANT WalkInBudget
CHECK_DEADLOCK FALSE
