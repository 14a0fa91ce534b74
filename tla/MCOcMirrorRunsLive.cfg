SPECIFICATION FairSpec
CONSTANTS
    None = None
    Jobs = {j1, j2}
    j1 = j1
    j2 = j2
    AuthInTmp = FALSE
    UnlinkMayFail = FALSE
PROPERTY ReservationReturned
PROPERTY StoppedRunIsCleaned
PROPERTY ExitIsRecorded
CHECK_DEADLOCK TRUE
