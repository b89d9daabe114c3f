SPECIFICATION FairSpec
CONSTANTS
    Attempts = {a1, a2}
    User = User
    None = None
    Specs <- AllSpecs
    Faults = {"answer", "undo", "die", "record", "stall"}
    MaxHurt = 1
    MaxStalls = 1
INVARIANTS
    NothingLeftBehind
    OnlyTestedActive
    OwnProjectIsSafe
    StatusIsTrue
PROPERTIES
    EndedIsFinal
    RunEnds
CHECK_DEADLOCK FALSE
