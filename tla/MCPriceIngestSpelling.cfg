CONSTANTS
    Calls = {"first", "spelled"}
    Ids = {"r1", "r2"}
    Keys = {"k1", "k2"}
    Uuid <- MCUuid
    Request <- MCRequest
SPECIFICATION Spec
INVARIANT SameUuidRepeats
CHECK_DEADLOCK FALSE
