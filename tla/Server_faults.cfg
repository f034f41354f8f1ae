\* Every kind of request, response and failure.
SPECIFICATION Spec
CONSTANTS
  t1 = t1
  t2 = t2
  t3 = t3
  s1 = s1
  s2 = s2
  s3 = s3
  short = short
  long = long
  split = split
  bad = bad
  Threads <- TwoThreads
  Sessions <- ThreeSessions
  Requests = {short, long, split, bad}
  Segments <- SegmentsOf
  Chunks <- ChunksOf
  Fatal = {bad}
  MaxConnections = 2
  MaxSends = 2
  Faults = {"accept", "reset", "dirty", "thread"}
SYMMETRY Symmetry
INVARIANTS
  TypeOK
  SessionIsExclusive
  AllocatedIffInUse
  AlwaysListening
CHECK_DEADLOCK FALSE
