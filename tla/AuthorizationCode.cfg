SPECIFICATION MCSpec
CONSTANTS
    s1 = s1
    c1 = c1
    c2 = c2
    r1 = r1
    k1 = k1
    a1 = a1
    n1 = n1
    n2 = n2
    u1 = u1
    Empty = Empty
    Requests <- MCRequests
    States = {s1}
    Clients = {c1, c2}
    Redirects = {r1}
    Challenges = {k1}
    Resources = {a1}
    Nonces = {n1, n2}
    SelfAsserted = {c2}
    Users = {u1, u2}
    Browsers = {b1}
    Handlers = {h1, h2}
    MaxCode = 2
    MaxSession = 3
INVARIANTS
    
    
    
    BrowserKeepsItsSession

    
SYMMETRY Symmetry
CONSTRAINT NoSocialAccount
CHECK_DEADLOCK FALSE
