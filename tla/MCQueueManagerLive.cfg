SPECIFICATION FairSpec
CONSTANTS
    w1 = w1
    w2 = w2
    w3 = w3
    w4 = w4
    s1 = s1
    s2 = s2
    Priorities = {0, 1}
    MaxSize = 0
    Concurrency = 2
    AutoStart = FALSE
    MaxAttempts = 2
    MaxMessages = 3
    Workers = {w1, w2, w3}
    StopCalls = {s1}
PROPERTIES
    InFlightEnds
    StopReturnsOrRestarted
    Served
CHECK_DEADLOCK FALSE
