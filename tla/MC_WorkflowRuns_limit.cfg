SPECIFICATION Spec
CONSTANTS
    Calls = {c1, c2}
    Keys = {k1}
    NoKey = NoKey
    NoRun = NoRun
    MaxConcurrent = 1
    MaxRuns = 3
    Faults = {}
INVARIANT
    WithinLimit
SYMMETRY Symmetry
CHECK_DEADLOCK FALSE
