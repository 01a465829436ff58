CONSTANTS
    Calls = {"refreshA", "refreshB", "link", "current", "delete"}
    NoCall = NoCall
    Players = {"p1", "p2"}
    Kind <- MCKind
    Target <- MCTarget
    Activity <- MCActivity
    Scenarios <- UnlinkScenarios
    Cooldown = 1
    MaxTime = 2
SPECIFICATION Spec
INVARIANT UnlinkedStaysUnlinked
CHECK_DEADLOCK FALSE
