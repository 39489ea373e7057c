SPECIFICATION Spec
CONSTANTS
    Handlers = {h1, h2}
    MaxAttempts = 1
    TtlSeconds = 1
    MaxTime = 2
    MaxCalls = 4
    None = None
INVARIANTS
    BudgetHolds
    OvershootIsBounded
    ClaimIsExclusive
PROPERTIES
    AttemptsAreAtomic
    CallReturns
CHECK_DEADLOCK FALSE
