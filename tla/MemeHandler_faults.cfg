\* Two workers; the disk, the pages and the process may fail at any point.
SPECIFICATION FairSpec
CONSTANTS
  w1 = w1
  w2 = w2
  w3 = w3
  Workers <- TwoWorkers
  ImageTexts <- OneImage
  Texts <- QuotedTexts
  Canonical <- OneImageCanonical
  RejectedTexts <- RejectQuote
  ColumnOf <- NoColumns
  ViewIds = {0, 1}
  MaxRequests = 3
  Faults = {"db", "page", "crash"}
INVARIANTS
  StoredMemeIsViewable
PROPERTIES
  MemesArePermanent
  EveryRequestEnds
CHECK_DEADLOCK FALSE
