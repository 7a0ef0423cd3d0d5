SPECIFICATION FairSpec
CONSTANTS
    film = film
    serie = serie
    emby = emby
    plex = plex
    Items = {film}
    Servers = {emby}
    ServerOf <- OneServer
    DefaultServer = emby
    Tracked = {emby}
    Consolidated = {}
    Requests = {}
    Parallel = 1
    Graces = {0}
    Retention = 1
    Features = {}
    Faults = {"timeout"}
    MaxRowId = 1
    MaxTime = 1
PROPERTY DeletingResolves
