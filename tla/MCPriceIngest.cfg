CONSTANTS
    Calls = {"first", "retry", "spelled", "other", "reused", "refused"}
    Ids = {"r1", "r2"}
    Keys = {"k1", "k2"}
    Uuid <- MCUuid
    Request <- MCRequest
SPECIFICATION FairSpec
INVARIANTS CurrentIsNewest OneEffectPerRequest
PROPERTIES TouchedIsChanged EveryCallAnswered
CHECK_DEADLOCK FALSE
