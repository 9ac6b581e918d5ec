SPECIFICATION Spec
CONSTANTS
  a = a
  b = b
  j1 = j1
  Types = {"bullmq"}
  Callers <- TwoCallers
  Configs = {"orders"}
  Default = "jxpush"
  Jobs <- OneJob
  Attempts = 2
  MaxMade = 2
  MaxClears = 1
  MaxManual = 1
SYMMETRY Symmetric
INVARIANTS OneInstance TotalsBalance
CHECK_DEADLOCK FALSE
