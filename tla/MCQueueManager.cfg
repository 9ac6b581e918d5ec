SPECIFICATION Spec
CONSTANTS
    w1 = w1
    w2 = w2
    w3 = w3
    w4 = w4
    s1 = s1
    s2 = s2
    Priorities = {0, 1}
    MaxSize = 2
    Concurrency = 2
    AutoStart = TRUE
    MaxAttempts = 2
    MaxMessages = 3
    Workers = {w1, w2, w3, w4}
    StopCalls = {s1, s2}
SYMMETRY WorkerSymmetry
INVARIANTS
    TypeOK
    Conservation
    CrewAccounting
    QuietAfterStop
PROPERTY
    ImplementsDelivery
CHECK_DEADLOCK FALSE
