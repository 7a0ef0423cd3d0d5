SPECIFICATION Spec
CONSTANTS
    film = film
    episode = episode
    series = series
    t1 = t1
    t2 = t2
    t3 = t3
    NoRow = NoRow
    Rows = {film}
    KindOf <- Kinds
    Stored = {film}
    Requested = {film}
    Elsewhere = {film}
    Torrents = {t1, t2, t3}
    Backing <- Downloads
    History <- Histories
    Workers = {w1}
    Origins = {"now"}
    Faults = {}
    MaxAttempts = 1
PROPERTY RightServer
CHECK_DEADLOCK FALSE
