\* What the constructor reads after a restart.
SPECIFICATION Spec
CONSTANTS
  w1 = w1
  w2 = w2
  w3 = w3
  a = a
  ab = ab
  empty = empty
  Workers <- TwoWorkers
  Words <- OneWord
  MinInt <- LowInt
  MaxInt = 5
  Short <- OneShort
  Targets <- FlatTargets
  Bodies = {"x"}
  Methods = {"GET", "POST", "PUT", "DELETE"}
  MaxRequests = 2
  Faults = {"signal", "restart"}
INVARIANTS
  ExistingDataIsRead
CHECK_DEADLOCK FALSE
