SPECIFICATION PagesSpec
CONSTANTS
  Tabs = {t1}
  Users = {u1}
  NoUser = nobody
  MaxMoves = 3
INVARIANT
  RendersNothingBefore
CHECK_DEADLOCK FALSE
