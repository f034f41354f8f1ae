\* A response that takes two sends.
SPECIFICATION Spec
CONSTANTS
  t1 = t1
  t2 = t2
  t3 = t3
  s1 = s1
  s2 = s2
  s3 = s3
  short = short
  long = long
  split = split
  bad = bad
  Threads <- TwoThreads
  Sessions <- ThreeSessions
  Requests = {long}
  Segments <- SegmentsOf
  Chunks <- ChunksOf
  Fatal = {}
  MaxConnections = 1
  MaxSends = 1
  Faults = {}
INVARIANTS
  ResponseIsIntact
CHECK_DEADLOCK FALSE
