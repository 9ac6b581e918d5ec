SPECIFICATION Spec
CONSTANTS
  t1 = t1
  t2 = t2
  b1 = b1
  b2 = b2
  TokenFields <- TokenValues
  Notes = {"First message", "Second message"}
  Builders <- TwoBuilders
  MaxObjects = 2
  MaxData = 1
  MaxEntries = 1
  FCMBatch = 3
  ExpoBatch = 2
  MaxMessages = 2
INVARIANT EachItsOwn
CHECK_DEADLOCK FALSE
