CONSTANTS
    Events = {e1}
    Workers = {w1, w2}
    MaxAttempts = 2
    MaxDeliveries = 2
    StatusAllowed = {"pending", "processed", "failed", "ignored"}
    NoWorker = NoWorker
    NoEvent = NoEvent
SPECIFICATION FairSpec
PROPERTY EveryEventSettles
CHECK_DEADLOCK FALSE
