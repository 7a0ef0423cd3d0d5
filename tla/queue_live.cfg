SPECIFICATION FairSpec
CONSTANTS
    film = film
    serie = serie
    emby = emby
    plex = plex
    Items = {film}
    Servers = {emby}
    ServerOf <- OneServer
    DefaultServer = emby
    Tracked = {emby}
    Consolidated = {film}
    Requests = {h1}
    Parallel = 1
    Graces = {0}
    Retention = 1
    Features = {"bulk"}
    Faults = {"crash"}
    MaxRowId = 1
    MaxTime = 2
PROPERTIES DeletingResolves DueIsProcessed
