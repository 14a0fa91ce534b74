SPECIFICATION Spec
CONSTANTS
    Fields = {f1, f2}
    MaxGen = 2
PROPERTIES
    StaleCopyIsNotUsed
CHECK_DEADLOCK FALSE
