SPECIFICATION Spec
CONSTANTS
    HttpRequests = {h1, h2}
    RpcRequests = {g1}
    Work = {w1, w2}
INVARIANTS
    CounterIsExact
    HttpWorkIsDrained
PROPERTY
    InterruptTerminates
CHECK_DEADLOCK FALSE
