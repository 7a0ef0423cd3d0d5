SPECIFICATION Spec
CONSTANTS
    film = film
    serie = serie
    emby = emby
    plex = plex
    Items = {film, serie}
    Servers = {emby, plex}
    ServerOf <- TwoServers
    DefaultServer = emby
    Tracked = {emby}
    Consolidated = {}
    Requests = {}
    Parallel = 1
    Graces = {1}
    Retention = 1
    Features = {"scrobble", "workers"}
    Faults = {"timeout", "dbwrite", "server"}
    MaxRowId = 2
    MaxTime = 2
INVARIANTS RescueGuarantee
