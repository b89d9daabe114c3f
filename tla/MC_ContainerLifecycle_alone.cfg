SPECIFICATION FairSpec
CONSTANTS
    Actors = {a1, a2}
    MaxRows = 2
    MaxFails = 2
    MaxRestarts = 1
    MaxRequests = 3
    MaxFaults = 2
    MaxCrashes = 1
INVARIANTS
    AloneTellsTheTruth
PROPERTIES
    DeadIsNoticed
CHECK_DEADLOCK FALSE
