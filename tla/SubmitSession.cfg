SPECIFICATION Spec
CONSTANTS
    Threads = {t1, t2}
    UserPools = {u}
    DevPools = {d}
    MAX_PENDING_SUBMITS = 1
    NoSubmit = NoSubmit
    MaxConn = 2
    MaxPublish = 2
    MaxShares = 2
SYMMETRY Symmetry
INVARIANT TypeOK
INVARIANT CreditedOnce
INVARIANT ReplyFindsItsShare
INVARIANT TotalsExcludeDevFee
PROPERTY PassedCheckIsCurrent
PROPERTY KeepsLedger
