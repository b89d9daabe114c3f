SPECIFICATION FairSpec
CONSTANTS
    i1 = i1
    i2 = i2
    c1 = c1
    c2 = c2
    Nobody = Nobody
    Instances = {i1, i2}
    Callers = {c1, c2}
    Home <- TwoServers
    MaxClients = 2
    MaxAttempts = 1
    MaxHeirs = 1
    MaxFaults = 2
    MaxRotations = 1
INVARIANTS
    OneConnection
CHECK_DEADLOCK FALSE
PROPERTIES
    RecoversUnlessRotated
