SPECIFICATION Spec
CONSTANTS
    t1 = t1
    t2 = t2
    t3 = t3
    w1 = w1
    w2 = w2
    o1 = o1
    o2 = o2
    k1 = k1
    k2 = k2
    Tasks = {t1}
    Workers = {w1}
    Owners = {o1, o2}
    NoTask = NoTask
    NoOwner = NoOwner
    OwnerOf <- OneOwner
    Priority <- SamePriority
    Key <- Keys
    InitialTasks = {t1}
    MaxTasks = 2
    Faults = {"cancel"}
    Expiry = "never"
    Sweeping = FALSE
    MaxFaults = 1
    MaxApprovals = 1
INVARIANT NoRunNoRunningTask
