SPECIFICATION Spec
CONSTANTS
    w1 = w1
    w2 = w2
    Workers = {w1, w2}
    maxAttempts <- JobAttempts
    MaxJobs = 2
    MaxInterventions = 2
SYMMETRY WorkerSymmetry
INVARIANTS
    TypeOK
    NothingLost
    OnePlace
    RunsBounded
CHECK_DEADLOCK FALSE
