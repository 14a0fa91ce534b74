SPECIFICATION Spec
CONSTANTS
    Callers = {c1, c2}
    None = None
INVARIANTS
    TypeOK
    OnlyVerifiedIsExtracted
    ProvenIsGenuine
    UsedIsGenuine
PROPERTIES
    WaitersSettle
CHECK_DEADLOCK FALSE
