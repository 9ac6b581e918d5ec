SPECIFICATION RetryFairSpec
CONSTANTS
    c1 = c1
    c2 = c2
    Calls = {c1, c2}
    AttemptValues = {0, 3}
INVARIANTS
    RetryTypeOK
    AttemptsBounded
    RestoredWhenAlone
PROPERTIES
    NoEarlyExit
    CallsEnd
CHECK_DEADLOCK FALSE
