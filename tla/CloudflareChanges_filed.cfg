SPECIFICATION Spec
CONSTANTS
    c1 = c1
    c2 = c2
    None = None
    Changes = {c1, c2}
    MaxRestarts = 1
INVARIANTS
    FiledIsTheirs
CHECK_DEADLOCK FALSE
