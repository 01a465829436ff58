CONSTANTS
    Calls = {"create1", "create2", "create3", "promote1", "delete1", "save1", "save2", "drop1"}
    Input <- MCInput
    Scenarios <- MCScenarios
    Names = {"x", "z", "w"}
    InitPresets <- NoDefault
    PresetLimit = 2
    CalculationLimit = 1
SPECIFICATION FairSpec
INVARIANTS OneDefault ExcessOnlyByOverlap
PROPERTIES DefaultNotLost EveryCallAnswered
CHECK_DEADLOCK FALSE
