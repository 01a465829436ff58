CONSTANTS
    Scenarios <- MCScenarios
    Input <- MCInput
    Limited <- MCLimited
    AuthEnabled <- MCAuthEnabled
    Burst = 1
    Unit = 3
    Rate = 2
    ClientTTL = 4
    LockDelay = 1
    Publications <- MCPublications
    KeyTTL = 1
    FetchTime = 1
    Skew = 0
    MaxTime <- MCMaxTime
    Migrators = {"old", "new"}
    LastFile <- MCLastFile
    Marker = 2
    Expected = 3
    InitVersions = {0, 2, 3}
    NoOne = "nobody"
SPECIFICATION Spec
INVARIANTS TypeOK RateContract KeysFollowProvider ReadinessKept
CHECK_DEADLOCK FALSE
