SPECIFICATION Spec
CONSTANTS
    opt_n_threads = 2
    API_HISTORY_SIZE = 3
    API_RECV_SIZE = 4
    None = none
    MaxHashes = 2
    MaxRounds = 4
    MaxClients = 2
INVARIANT HistoryFaithful
INVARIANT RequestWhole
CHECK_DEADLOCK FALSE
