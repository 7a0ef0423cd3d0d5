SPECIFICATION ServicesSpec
CONSTANTS
    None = None
    u1 = u1
    u2 = u2
    m1 = m1
    l1 = l1
    l2 = l2
    a = a
    e1 = e1
    e2 = e2
    p1 = p1
    p2 = p2
    Items = {a}
    Libraries = {l1, l2}
    Absent = Absent
    Thresholds = {1}
    Configs <- Settings
    Requested = {}
    DefaultGrace = 2
    LastDay = 1
    MaxRows = 2
    MaxUpsets = 1
    Media = {m1, e1, e2}
    Users = {u1}
    PageSize = 1
    MaxInserts = 1
    MaxRemovals = 1
    MaxPlays = 1
    Tabs = {p1, p2}
    AttemptMax = 1
    AttemptWindow = 1
    RetireGrace = 0
    Lifetime = 9
    LastSecond = 1
    MaxTokens = 3
    MaxSends = 3
    MaxErrors = 1
    Files = {e1, e2}
    Season = {e1}
    Kinds = {"film", "episode", "season", "series"}
    Retries = 2
    MaxCalls = 2
    MaxLosses = 2
    MaxImports = 1
    Engines = {"sqlite", "mariadb"}
    Boots = {p1, p2}
    NoBoot = NoBoot
    Retention = 2
    MaxKills = 2
    MaxBackups = 1
INVARIANTS RuleMeaning QueuedWithReason RightArrEntry PurgeMatchesRules GroupsAreWhole WarnedOnce MarkIsTrue ScanSeesAll BurstIsBounded SessionIsKept NoDuplicateColumn UpgradeIsSafe
PROPERTIES StaysIgnored DeletionIsReal
CHECK_DEADLOCK FALSE
