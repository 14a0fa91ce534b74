SPECIFICATION Spec
CONSTANTS
    Fields = {f1, f2}
    MaxGen = 3
SYMMETRY FieldSymmetry
CONSTRAINT Regular
VIEW WhatMatters
INVARIANTS
    TypeOK
    SavedIsOnServer
    ExportIsCurrent
CHECK_DEADLOCK FALSE
