SPECIFICATION LoopSpec
CONSTANTS
    Tasks = {t1, t2}
    Owners = {o1, o2}
    NoOwner = NoOwner
    NoLease = NoLease
    NoTask = NoTask
    TTLs = {6}
    TTL = 6
    Interval = 2
    Setup = 1
    Lag = 1
    Settle = 1
    MaxTime = 9
INVARIANTS LoopTypeOK RunHoldsLease PromiseKept
PROPERTY ImplementsLeaseService
