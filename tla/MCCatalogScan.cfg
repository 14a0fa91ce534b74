SPECIFICATION Spec
CONSTANTS
    q1 = q1
    q2 = q2
    c1 = c1
    c2 = c2
    Requests = {q1, q2}
    Catalogs = {c1, c2}
    Scans <- SomeScans
    Digests = {d1, d2}
    Old = {d1}
    Blobs = 1
    Keep = 1
    None = None
ACTION_CONSTRAINT SecondOnlyFetches
INVARIANTS
    TypeOK
    SecretLivesWithFetches
PROPERTIES
    StopIsFinal
    ListedIsKept
    EveryScanEnds
CHECK_DEADLOCK FALSE
