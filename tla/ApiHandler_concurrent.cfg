\* Three workers on one collection: creates, updates, deletes, lists and reads.
SPECIFICATION Spec
CONSTANTS
  w1 = w1
  w2 = w2
  w3 = w3
  a = a
  ab = ab
  empty = empty
  Workers <- ThreeWorkers
  Words <- OneWord
  MinInt <- LowInt
  MaxInt = 5
  Short <- OneShort
  Targets <- FlatTargets
  Bodies = {"x"}
  Methods = {"GET", "POST", "PUT", "DELETE"}
  MaxRequests = 4
  Faults = {}
SYMMETRY WorkerSymmetry
PROPERTIES
  ImplementsJsonStore
CHECK_DEADLOCK FALSE
