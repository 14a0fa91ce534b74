SPECIFICATION Spec
CONSTANTS
    None = None
    Jobs = {j1, j2, j3}
    j1 = j1
    j2 = j2
    j3 = j3
    AuthInTmp = FALSE
    UnlinkMayFail = FALSE
SYMMETRY JobSymmetry
INVARIANT TypeOK
INVARIANT OneRun
INVARIANT RunningIsReachable
INVARIANT CredentialsWhileInUse
INVARIANT NothingLeftBehind
PROPERTY OutcomeSticks
PROPERTY StoppedIsNotRetried
PROPERTY ServicePromise
CHECK_DEADLOCK TRUE
