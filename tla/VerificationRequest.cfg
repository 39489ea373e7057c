SPECIFICATION Spec
CONSTANTS
    Emails = {e1, e2}
    Passwords = {w1}
    Handlers = {h1, h2}
    MaxAccount = 2
    MaxToken = 3
    MaxRequest = 4
    Empty = Empty
INVARIANTS
    PurposeIsBound
    
    ProofIsKept
    
    
SYMMETRY Symmetry
CHECK_DEADLOCK FALSE
