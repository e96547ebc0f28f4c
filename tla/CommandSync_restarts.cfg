SPECIFICATION Spec
CONSTANTS
    t1 = t1
    t2 = t2
    None = None
    Tools = {t1, t2}
    Cancellable = {t1, t2}
    MaxAttempts = 2
    MaxContainers = 2
    MaxRestarts = 1
CHECK_DEADLOCK FALSE
SYMMETRY Symmetry
INVARIANTS
    TypeOK
    NeverStranded
    
