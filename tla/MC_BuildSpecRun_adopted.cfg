SPECIFICATION Spec
CONSTANTS
    Attempts = {a1}
    User = User
    None = None
    Specs <- AllSpecs
    Faults = {}
    MaxHurt = 0
    MaxStalls = 1
INVARIANT
    UserRowsKept
CHECK_DEADLOCK FALSE
