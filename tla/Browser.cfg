SPECIFICATION MCSpec
CONSTANTS
  Paths = {a, b}
  NoPath = NoPath
  Batches = 2
  MaxSockets = 4
  MaxLosses = 1
  MaxClicks = 2
  Objects = {a, ab}
  Longer <- MCLonger
  Folder = Folder
  None = None
  MaxMoves = 4
INVARIANTS
  TypeOK
  ListOfOneRequest
  TruncatedIsReplaced
  DetailsOfSelection
  DeletesOwnVersion
PROPERTIES
  PathIsShown
  ListingCompletes
\* the user may stop and everything may be shown
CHECK_DEADLOCK FALSE
