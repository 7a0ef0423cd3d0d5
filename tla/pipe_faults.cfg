SPECIFICATION Spec
CONSTANTS
    film = film
    episode = episode
    series = series
    t1 = t1
    t2 = t2
    t3 = t3
    NoRow = NoRow
    Rows = {film}
    KindOf <- Kinds
    Stored = {film}
    Requested = {film}
    Elsewhere = {}
    Torrents = {t1, t2, t3}
    Backing <- Downloads
    History <- Histories
    Workers = {w1, w2}
    Origins = {"job", "now", "bulk"}
    Faults = {"crash", "lost", "refuse", "lookup", "discord", "dbwrite", "qbit"}
    MaxAttempts = 3
INVARIANTS ArrAfterServer CountedOnce
PROPERTY MeetsContract
SYMMETRY WorkersAlike
CHECK_DEADLOCK FALSE
