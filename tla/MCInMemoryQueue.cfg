SPECIFICATION Spec
CONSTANTS
    Priorities <- MCPriorities
    MaxSize = 4
    MaxIds = 5
    AttemptBound = 1
INVARIANTS
    TypeOK
    Ordered
PROPERTY
    ServesInOrder
CHECK_DEADLOCK FALSE
