SPECIFICATION Spec
CONSTANTS
    film = film
    serie = serie
    emby = emby
    plex = plex
    Items = {film}
    Servers = {emby}
    ServerOf <- OneServer
    DefaultServer = emby
    Tracked = {emby}
    Consolidated = {}
    Requests = {h1}
    Parallel = 1
    Graces = {0}
    Retention = 1
    Features = {"bulk"}
    Faults = {}
    MaxRowId = 1
    MaxTime = 1
INVARIANT DeletedRowsAreGone
