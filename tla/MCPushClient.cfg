SPECIFICATION Spec
CONSTANTS
    l1 = l1
    l2 = l2
    l3 = l3
    l4 = l4
    c1 = c1
    c2 = c2
    LifeCalls = {l1, l2, l3, l4}
    SendCalls = {c1, c2}
    MaxSize = 4
    BatchSize = 2
    Capacity = 2
SYMMETRY CallSymmetry
INVARIANTS
    TypeOK
    LifeCycleAgrees
    MetricsBalance
    DeliveriesReported
PROPERTY
    SendsOnlyWhenUp
CHECK_DEADLOCK FALSE
