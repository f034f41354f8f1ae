\* Four configurations, requests right and wrong in every part.
SPECIFICATION Spec
CONSTANTS
  Numbers <- NoNumbers
  Configs <- SomeConfigs
  Arrivals <- SomeArrivals
  Capacity = 21
  Garbage <- SomeGarbage
  Small <- SmallLetters
  Files <- SomeFiles
  Directories <- SomeDirectories
  Here <- WorkingDirectory
  NoStatus <- Unreadable
INVARIANTS
  TypeOK
  EchoReturnsRequest
  LongestLocationWins
  ServesWhenComplete
  OnlyWholeRequestsAreHandled
  StaticServesItsRoot
CHECK_DEADLOCK FALSE
