\* Requests of one segment, responses of one send, memory that was zero.
SPECIFICATION FairSpec
CONSTANTS
  t1 = t1
  t2 = t2
  t3 = t3
  s1 = s1
  s2 = s2
  s3 = s3
  short = short
  long = long
  split = split
  bad = bad
  Threads <- TwoThreads
  Sessions <- ThreeSessions
  Requests = {short, bad}
  Segments <- SegmentsOf
  Chunks <- ChunksOf
  Fatal = {bad}
  MaxConnections = 2
  MaxSends = 2
  Faults = {"thread"}
INVARIANTS
  RequestIsWhole
  ResponseIsIntact
PROPERTIES
  EveryRequestIsAnswered
  ClosedSessionsAreFreed
CHECK_DEADLOCK FALSE
