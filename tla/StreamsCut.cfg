SPECIFICATION Spec
CONSTANTS
  Pieces <- MCPieces
  Selections <- MCSelections
INVARIANTS
  NormalEndIsWhole
CHECK_DEADLOCK FALSE
