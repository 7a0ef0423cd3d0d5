SPECIFICATION RecoverySpec
CONSTANTS
    p1 = p1
    p2 = p2
    p3 = p3
    c1 = c1
    c2 = c2
    film = film
    Callers = {p1, p2, p3}
    Nobody = Nobody
    Threshold = 2
    Recovery = 2
    Retries = 2
    MaxCount = 4
    Films = {film}
    Syncs = {p1, p2}
    Nil = Nil
    Window = 2
    Dates = {1, 3}
    MaxMoves = 1
    MaxFaults = 1
    Restarts = 1
    Readers = {p1, p2}
    NoReader = NoReader
    Ttl = 2
    LastTick = 4
    MaxWrites = 2
    Coros = {p1, p2}
    Links = {c1, c2}
    NoLink = NoLink
    MaxWork = 2
INVARIANTS OneProbe ClosedIsBelow StaleAtMostTtl ReadsAreFresh
PROPERTIES FastFail OnlyProbeCloses Recovers MembershipConverges
CHECK_DEADLOCK FALSE
