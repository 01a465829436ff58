CONSTANTS
    Events = {e1, e2}
    Workers = {w1, w2}
    MaxAttempts = 2
    MaxDeliveries = 2
    StatusAllowed = {"pending", "processing", "processed", "failed", "ignored", "dead_letter"}
    NoWorker = NoWorker
    NoEvent = NoEvent
SPECIFICATION FairSpec
INVARIANTS TypeOK AppliedOncePerWorker ErasedWithCommit LeaseIffProcessing
PROPERTIES ImplementsInbox LeasedNotForgotten WorkerReturns
CHECK_DEADLOCK FALSE
