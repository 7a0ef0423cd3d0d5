SPECIFICATION Spec
CONSTANTS
    film = film
    episode = episode
    series = series
    t1 = t1
    t2 = t2
    t3 = t3
    NoRow = NoRow
    Rows = {episode, series}
    KindOf <- Kinds
    Stored = {episode, series}
    Requested = {episode, series}
    Elsewhere = {episode}
    Torrents = {t1, t2, t3}
    Backing <- Downloads
    History <- Histories
    Workers = {w1, w2}
    Origins = {"job", "now"}
    Faults = {"refuse", "discord"}
    MaxAttempts = 3
INVARIANTS TorrentsFollow AnnouncedOnceInPeace
SYMMETRY WorkersAlike
CHECK_DEADLOCK FALSE
