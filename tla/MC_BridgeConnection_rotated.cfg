SPECIFICATION FairSpec
CONSTANTS
    i1 = i1
    i2 = i2
    c1 = c1
    c2 = c2
    Nobody = Nobody
    Instances = {i1}
    Callers = {c1}
    Home <- OneServer
    MaxClients = 2
    MaxAttempts = 1
    MaxHeirs = 1
    MaxFaults = 1
    MaxRotations = 1
CHECK_DEADLOCK FALSE
PROPERTIES
    Recovers
