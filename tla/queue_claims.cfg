SPECIFICATION Spec
CONSTANTS
    film = film
    serie = serie
    emby = emby
    plex = plex
    Items = {film}
    Servers = {emby}
    ServerOf <- OneServer
    DefaultServer = emby
    Tracked = {emby}
    Consolidated = {}
    Requests = {h1}
    Parallel = 1
    Graces = {1}
    Retention = 1
    Features = {}
    Faults = {"crash", "server"}
    MaxRowId = 2
    MaxTime = 3
INVARIANTS TypeOK ClaimExclusive DeletingHasOwner DeletedIsGone
PROPERTY LifeCycle
