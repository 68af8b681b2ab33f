SPECIFICATION FairSpec
CONSTANTS
  Paths = {a, b}
  NoPath = NoPath
  Batches = 1
  MaxSockets = 1
  MaxLosses = 0
  MaxClicks = 1
PROPERTIES
  ReloadIsServed
\* the user may stop and everything may be shown
CHECK_DEADLOCK FALSE
