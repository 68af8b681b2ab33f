SPECIFICATION MCSpec
CONSTANTS
  Pieces <- MCPieces
  Selections <- MCSelections
  Named <- MCNamed
  Lengths <- MCLengths
  MaxInt = 3
  MaxRanges = 2
  MaxParts = 3
  MaxArgs = 2
  MaxPatterns = 2
INVARIANTS
  WholeHasAll
  ServedAsNamed
  SuccessIsWhole
  SetsFit
PROPERTIES
  ProducerEnds
CHECK_DEADLOCK FALSE
