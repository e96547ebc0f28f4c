SPECIFICATION FairSpec
CONSTANTS
    a1 = a1
    w1 = w1
    w2 = w2
    b1 = b1
    u1 = u1
    u2 = u2
    None = None
    Agents = {a1}
    Builders = {}
    Works = {w1, w2}
    OwnerOf <- OneAgent
    Limited = {w2}
    Upgrades = {u2}
    Reconnects = {}
    Stages = 1
    WindowUnits = 2
    QuietUnits = 1
    LeaseUnits = 2
    RenewalUnits = 1
    AdmissionUnits = 1
    WaitUnits = 1
    WorkUnits = 1
    MaxQueue = 2
    MaxFaults = 1
INVARIANTS
    StartedWorkIsRecorded
PROPERTIES
    WaitingWorkProceeds
