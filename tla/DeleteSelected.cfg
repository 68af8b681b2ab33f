SPECIFICATION Spec
CONSTANTS
  a = a
  ab = ab
  aba = aba
  d = d
  dx = dx
  new = new
  old = old
  NoVersion = NoVersion
  Paths = {a, d}
  Folders = {d}
  Items <- MCItems
  Under <- MCUnder
  Direct <- MCUnder
  EndsWith <- MCEndsWith
  Asking = {NoVersion, old}
  MaxFiles = 1
INVARIANTS
  OnlySelectedDeleted
\* a request ends
CHECK_DEADLOCK FALSE
