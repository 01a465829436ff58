CONSTANTS
    Scenarios <- MCScenarios
    Workers = {w1, w2}
    Grace = 1
    Provisional = 1
    MaxTime = 2
    MaxFailures = 1
SPECIFICATION FairSpec
INVARIANTS OneRowPerOrder NotifiedOnce NewestEventWins ProvisionalOnce
PROPERTY SubscriptionsApplied
CHECK_DEADLOCK FALSE
