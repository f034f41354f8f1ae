\* A caption that is also the name of a column of meme_table.
SPECIFICATION Spec
CONSTANTS
  w1 = w1
  w2 = w2
  w3 = w3
  Workers <- TwoWorkers
  ImageTexts <- OneImage
  Texts <- ColumnTexts
  Canonical <- OneImageCanonical
  RejectedTexts = {}
  ColumnOf <- TopColumn
  ViewIds = {1}
  MaxRequests = 2
  Faults = {}
INVARIANTS
  CreatedRefIsTheMeme
CHECK_DEADLOCK FALSE
