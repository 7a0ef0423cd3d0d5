SPECIFICATION FairSpec
CONSTANTS
    w1 = w1
    w2 = w2
    a1 = a1
    a2 = a2
    b1 = b1
    b2 = b2
    scan1 = scan1
    scan2 = scan2
    timer = timer
    trigger = trigger
    other = other
    NoConn = NoConn
    Workers = {w1, w2}
    Conns = {a1, a2, b1, b2}
    PoolOf <- Pools
    Names = {"scan"}
    Objects = {scan1, scan2}
    NameOf <- ObjectNames
    WorkerOf <- ObjectHomes
    Tasks = {timer, trigger, other}
    LockOf <- TaskLocks
    Faults = {"crash", "connloss"}
    MaxLost = 1
INVARIANTS OneRunner NoStrandedLock PoolRefills
PROPERTY LockComesBack
CHECK_DEADLOCK FALSE
