\* The list of a collection whose last entity was deleted.
SPECIFICATION Spec
CONSTANTS
  w1 = w1
  w2 = w2
  w3 = w3
  a = a
  ab = ab
  empty = empty
  Workers <- TwoWorkers
  Words <- OneWord
  MinInt <- LowInt
  MaxInt = 5
  Short <- OneShort
  Targets <- FlatTargets
  Bodies = {"x"}
  Methods = {"GET", "POST", "PUT", "DELETE"}
  MaxRequests = 4
  Faults = {}
INVARIANTS
  ListEndsWithSeparator
CHECK_DEADLOCK FALSE
