SPECIFICATION Spec
CONSTANTS
    Methods = {m1}
    Users = {u1, u2}
    SubKeys = {s1, s2}
    maxCacheSize = 2
    Lifetimes = {1, 2}
    MaxTime = 3
SYMMETRY Symmetry
INVARIANTS TypeOK
PROPERTIES ImplementsSessionMap 
CHECK_DEADLOCK FALSE
