SPECIFICATION Spec
CONSTANTS
    Runs = {r1, r2}
    None = None
    Default = Default
    NoDir = NoDir
    FsMayFail = TRUE
INVARIANTS
    NeverLastingExemption
CHECK_DEADLOCK FALSE
