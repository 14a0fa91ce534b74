SPECIFICATION Spec
CONSTANTS
    None = None
    Jobs = {j1, j2}
    j1 = j1
    j2 = j2
    AuthInTmp = TRUE
    UnlinkMayFail = TRUE
SYMMETRY JobSymmetry
INVARIANT SecretsStayTracked
PROPERTY MirroringCredentialsSpared
CHECK_DEADLOCK TRUE
