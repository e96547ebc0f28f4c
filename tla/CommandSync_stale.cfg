SPECIFICATION Spec
CONSTANTS
    t1 = t1
    t2 = t2
    None = None
    Tools = {t1, t2}
    Cancellable = {}
    MaxAttempts = 2
    MaxContainers = 1
    MaxRestarts = 1
CHECK_DEADLOCK FALSE
INVARIANTS
    CompletedIsSaved
