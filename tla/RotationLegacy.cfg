SPECIFICATION TokenSpec
CONSTANTS
    Requests = {r1, r2}
    Nonces = {n1, n2, n3}
    Families = {f1, f2}
    Grants = {g1, g2}
    LegacyNonces = {n1}
    NoNonce = NoNonce
    NoFamily = NoFamily
    GraceWindow = 0
    MaxTime = 1
    MaxFaults = 0
SYMMETRY Symmetry
INVARIANTS  RevocationIsJustified
CHECK_DEADLOCK FALSE
