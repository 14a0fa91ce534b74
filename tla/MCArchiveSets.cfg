SPECIFICATION Spec
CONSTANTS
    Runs = {r1, r2, r3}
    None = None
SYMMETRY RunSymmetry
INVARIANTS
    TypeOK
    SucceededArchivesSurvive
    CleanTransferIsOwn
CHECK_DEADLOCK FALSE
