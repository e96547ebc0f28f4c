SPECIFICATION FairSpec
CONSTANTS
    t1 = t1
    t2 = t2
    None = None
    Tools = {t1}
    Cancellable = {}
    MaxAttempts = 2
    MaxContainers = 3
    MaxRestarts = 1
CHECK_DEADLOCK FALSE
INVARIANTS
    CompletedIsSaved
PROPERTIES
    FailedOnlyWhenLost
    EveryPendingIsSettled
