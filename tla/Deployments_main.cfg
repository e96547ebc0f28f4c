SPECIFICATION Spec
CONSTANTS
    b1 = b1
    b2 = b2
    None = None
    NumCommits = 2
    Main = {1, 2}
    Builders = {b1, b2}
    LeaseUnits = 3
    HeartbeatUnits = 1
    TokenUnits = 1
    MaxRestarts = 1
    MaxBusyWaits = 1
    MaxAsks = 1
    MaxFaults = 1
INVARIANTS
    TypeOK
    
    PublishedIsLive
PROPERTIES
    LiveNeverGoesBack
SYMMETRY Exchanged
