SPECIFICATION FairSpec
CONSTANTS
  NumPieces = 4
  Bound = 2
INVARIANTS TypeOK OneMoreRow
PROPERTIES ImplementsStream ThreadLeaves
CHECK_DEADLOCK FALSE
