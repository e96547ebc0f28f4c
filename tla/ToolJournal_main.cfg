SPECIFICATION Spec
CONSTANTS
    Calls = {t1}
    MaxTries = 2
    MaxRestarts = 1
    Other = Other
    None = None
INVARIANTS TypeOK ReportIsTrue
PROPERTIES FateIsDecidedOnce LandsOnItsBase
CHECK_DEADLOCK FALSE
