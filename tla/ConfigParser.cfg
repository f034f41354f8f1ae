\* Every text of at most 5 pieces over two alphabets, every text of 4 phrases.
SPECIFICATION FairSpec
CONSTANTS
  TextsRead <- ShortTexts
  Pieces <- SomePieces
  Numbers <- SomeNumbers
INVARIANTS
  TypeOK
  BlocksAreNested
  ParsedAsWritten
  ValidIffWellFormed
  PortIsFirst
  ReprintParsesTheSame
PROPERTIES
  ParseReturns
CHECK_DEADLOCK FALSE
