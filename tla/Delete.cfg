SPECIFICATION FairSpec
CONSTANTS
  a = a
  ab = ab
  aba = aba
  d = d
  dx = dx
  new = new
  old = old
  NoVersion = NoVersion
  Paths = {a, d}
  Folders = {d}
  Items <- MCFewItems
  Under <- MCUnder
  Direct <- MCUnder
  EndsWith <- MCEndsWith
  Asking = {NoVersion, old}
  MaxFiles = 2
INVARIANTS
  RemovedAsAsked
  SuccessIsComplete
  FilesInOrder
  NothingLeftBehind
PROPERTIES
  RequestEnds
\* a request ends
CHECK_DEADLOCK FALSE
