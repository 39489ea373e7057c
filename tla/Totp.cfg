SPECIFICATION Spec
CONSTANTS
    Handlers = {h1, h2}
    Codes = {c1, c2}
    Passcodes = {p1}
    MaxEnrolment = 2
    MaxCalls = 4
    None = None
INVARIANTS
    
    
    VerifiedMeansConfirmed
    RowIsOneEnrolment
    AttemptsSuffice

    
SYMMETRY Symmetry
CHECK_DEADLOCK FALSE
