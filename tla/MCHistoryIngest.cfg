CONSTANTS
    Calls = {"first", "again", "spelled", "correct", "toomany", "denied"}
    Input <- MCInput
    Uuid <- MCUuid
    NoUuid = "none"
    MaxEntries = 5
    MaxBuckets = 5
SPECIFICATION FairSpec
INVARIANTS BucketsReplayLog OneEffectPerRequest MetricsConserve
PROPERTY EveryCallAnswered
CHECK_DEADLOCK FALSE
