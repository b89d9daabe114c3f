SPECIFICATION Spec
CONSTANTS
    a1 = a1
    a2 = a2
    b = b
    c1 = c1
    c2 = c2
    Containers = {c1, c2}
    Instances = {a1, a2, b}
    Port <- MCPort
    Nobody = Nobody
    Clients <- MCClients
    MaxReplies <- MCMaxReplies
    MaxRequests = 3
    Faults <- MCFaults
INVARIANTS
    TypeOK
    QuietHolderRenews
PROPERTIES
    OtherPortsRespected
    LossIsNoticed
CHECK_DEADLOCK FALSE
