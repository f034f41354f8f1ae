\* Three workers, no faults: the interleavings of create, view and list.
SPECIFICATION Spec
CONSTANTS
  w1 = w1
  w2 = w2
  w3 = w3
  Workers <- ThreeWorkers
  ImageTexts <- OneImage
  Texts <- PlainTexts
  Canonical <- OneImageCanonical
  RejectedTexts = {}
  ColumnOf <- NoColumns
  ViewIds = {0, 1, 2}
  MaxRequests = 3
  Faults = {}
SYMMETRY WorkerSymmetry
INVARIANTS
  TypeOK
  RowsDenseAndDistinct
  StoredMemeIsViewable
  ViewShowsItsRow
  ListIsComplete
  CreatedRefIsTheMeme
  NoSpuriousFailure
  InductiveInvariant
PROPERTIES
  LeaksOnlyBelowOne
  ImplementsRegistry
CHECK_DEADLOCK FALSE
