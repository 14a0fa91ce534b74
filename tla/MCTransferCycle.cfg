SPECIFICATION Spec
CONSTANTS
    MaxPlan = 3
    Loads = {l1, l2, l3}
    None = None
SYMMETRY LoadSymmetry
ACTION_CONSTRAINT Reduced
VIEW WhatIsCarried
CONSTRAINT RecordTrue
INVARIANTS
    TypeOK
    NoRollback
    NoSilentLoss
CHECK_DEADLOCK FALSE
