SPECIFICATION Spec
CONSTANTS
  c1 = c1
  c2 = c2
  c3 = c3
  Calls <- Callers
  MaxBatch = 2
  MaxConns = 3
SYMMETRY Symmetric
INVARIANTS NothingLeaks UsableWhenConnected ReportsOutcomes
CHECK_DEADLOCK FALSE
