SPECIFICATION Spec
CONSTANTS
    own = own
    team = team
    ann = ann
    bea = bea
    a1 = a1
    a2 = a2
    f1 = f1
    f2 = f2
    k1 = k1
    None = None
    Spaces = {own, team}
    Users = {ann, bea}
    RunBy <- TwoSpaces
    Accounts = {a1, a2}
    Flows = {f1, f2}
    Calls = {k1}
    NumHandles = 2
    MaxTokens = 2
    MaxFaults = 1
INVARIANTS
    TypeOK
    ActiveSpacesKeepTheirGrant
    EndedIsTrue
PROPERTIES
    NobodyTakesAnAccountOver
CHECK_DEADLOCK FALSE
SYMMETRY Exchanged
