SPECIFICATION Spec
CONSTANTS
    Runs = {r1, r2, r3}
    None = None
    Default = Default
    NoDir = NoDir
    FsMayFail = TRUE
INVARIANTS
    TypeOK
    LedgerCoversSnapshots
    WeakIsUndoable
PROPERTIES
    NoRunOnWeakWorkspace
CHECK_DEADLOCK FALSE
