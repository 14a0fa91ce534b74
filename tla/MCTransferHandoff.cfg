SPECIFICATION Spec
CONSTANTS
    Archives = 2
    MaxPrep = 2
    Receives = {r1, r2}
    Loads = {l1, l2}
    None = None
SYMMETRY JobSymmetry
VIEW WhatIsCarried
ACTION_CONSTRAINT ConnectedSideFirst
INVARIANTS
    TypeOK
    SumsDescribeFolder
    CopyInUseIsWhole
    OccupiedByItsWriter
CHECK_DEADLOCK FALSE
