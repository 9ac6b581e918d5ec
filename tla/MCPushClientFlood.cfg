SPECIFICATION FairSpec
CONSTANTS
    l1 = l1
    l2 = l2
    l3 = l3
    l4 = l4
    c1 = c1
    c2 = c2
    LifeCalls = {l1}
    SendCalls = {c1}
    MaxSize = 3
    BatchSize = 3
    Capacity = 2
PROPERTY BulkEnds
CHECK_DEADLOCK FALSE
