\* A collection in the place of an entity, faults, and a range of ids that ends.
SPECIFICATION FairSpec
CONSTANTS
  w1 = w1
  w2 = w2
  w3 = w3
  a = a
  ab = ab
  empty = empty
  Workers <- TwoWorkers
  Words <- OneWord
  MinInt <- LowInt
  MaxInt = 1
  Short <- OneShort
  Targets <- NestedTargets
  Bodies = {"x"}
  Methods = {"GET", "POST", "PUT", "DELETE", "OTHER"}
  MaxRequests = 3
  Faults = {"disk", "signal", "restart"}
INVARIANTS
  TypeOK
  MapKnowsOwnFiles
  FilesAreNumbered
PROPERTIES
  CreateTakesFreshId
  EveryRequestEnds
CHECK_DEADLOCK FALSE
