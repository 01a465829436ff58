CONSTANTS
    Calls = {"refreshA", "refreshB", "link", "current", "delete"}
    NoCall = NoCall
    Players = {"p1", "p2"}
    Kind <- MCKind
    Target <- MCTarget
    Activity <- MCActivity
    Scenarios <- MCScenarios
    Cooldown = 1
    MaxTime = 2
SPECIFICATION FairSpec
INVARIANTS CacheCoherent AnsweredRefreshCoolsDown
PROPERTIES LinkSavesRequested EveryCallAnswered
CHECK_DEADLOCK FALSE
