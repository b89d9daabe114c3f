SPECIFICATION Spec
CONSTANTS
    s1 = s1
    s2 = s2
    s3 = s3
    Steps = {s1, s2, s3}
    Graphs <- AllGraphs
    OnError <- OneOfEach
    MaxRetries <- OneRetry
    Missing = {s2}
    Faults = {"timeout", "database"}
INVARIANTS
    TypeOK
    SourcesSettled
    OutcomeIsLast
    FailureCutsOff
    CompletedMeansDoneIfSeen
PROPERTIES
    RunEnds
CHECK_DEADLOCK FALSE
