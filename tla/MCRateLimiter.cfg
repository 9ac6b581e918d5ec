SPECIFICATION LimiterFairSpec
CONSTANTS
    c1 = c1
    c2 = c2
    MaxPer <- MCMax
    Period <- MCPeriod
    AllowBurst = TRUE
    BurstPercent = 150
    Callers = {c1, c2}
    Counts = {1, 2}
    MaxSpan = 2
INVARIANTS
    LimiterTypeOK
    WindowLimit
PROPERTIES
    FirstWakeSucceeds
    SinglesServed
CHECK_DEADLOCK FALSE
