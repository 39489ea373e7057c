SPECIFICATION Spec
CONSTANTS
    Requests = {r1, r2}
    Nonces = {n1, n2}
    Families = {f1}
    Grants = {g1}
    LegacyNonces = {}
    NoNonce = NoNonce
    NoFamily = NoFamily
    GraceWindow = 0
    MaxTime = 0
    MaxFaults = 0
SYMMETRY Symmetry
INVARIANT ResetTerminatesSessions
CHECK_DEADLOCK FALSE
