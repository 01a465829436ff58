CONSTANTS
    Scenarios <- MCScenarios
    Input <- MCInput
    InitRows <- MCRows
    Overrides <- MCOverrides
    Grant = 1
    MaxTime = 3
    Skew = 1
    MaxDuration = 1
    Production = TRUE
    MaxFailures = 1
SPECIFICATION FairSpec
INVARIANTS AccessAnswerJustified SecondSaleOnlyByOverlap AuditTrail
PROPERTY EveryCallAnswered
CHECK_DEADLOCK FALSE
