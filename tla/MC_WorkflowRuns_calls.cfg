SPECIFICATION Spec
CONSTANTS
    Calls = {c1, c2}
    Keys = {k1}
    NoKey = NoKey
    NoRun = NoRun
    MaxConcurrent = 1
    MaxRuns = 3
    Faults = {"redis", "call"}
INVARIANTS
    TypeOK
    OneRunPerQuietEvent
    StoredRunHasEnded
    CallersAgree
    LimitOverrunBounded
PROPERTIES
    CompletedIsFinal
    EveryRunEnds
CHECK_DEADLOCK FALSE
