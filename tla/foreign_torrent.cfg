SPECIFICATION Spec
CONSTANTS
    film = film
    episode = episode
    series = series
    t1 = t1
    t2 = t2
    t3 = t3
    NoRow = NoRow
    Rows = {episode}
    KindOf <- Kinds
    Stored = {episode}
    Requested = {episode}
    Elsewhere = {}
    Torrents = {t1, t2, t3}
    Backing <- Downloads
    History <- Histories
    Workers = {w1}
    Origins = {"job"}
    Faults = {}
    MaxAttempts = 1
INVARIANTS OwnTorrentsOnly
CHECK_DEADLOCK FALSE
