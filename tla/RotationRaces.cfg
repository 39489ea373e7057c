SPECIFICATION TokenSpec
CONSTANTS
    Requests = {r1, r2}
    Nonces = {n1, n2, n3}
    Families = {f1}
    Grants = {g1}
    LegacyNonces = {}
    NoNonce = NoNonce
    NoFamily = NoFamily
    GraceWindow = 1
    MaxTime = 2
    MaxFaults = 1
SYMMETRY Symmetry
INVARIANTS TypeOK OneLiveTokenPerFamily SingleSuccessor RevocationIsJustified RolloverIsComplete
PROPERTIES DeadFamilyStaysDead ReplayHitsLiveToken ImplementsLineage
CHECK_DEADLOCK FALSE
