SPECIFICATION FairSpec
CONSTANTS
  MaxItems = 3
  Configured <- MCConfigured
  BatchSizes <- MCBatchSizes
INVARIANTS
  TypeOK
  ConcurrencyLimit
  SlotAccounting
  PromiseAccounting
  StartsFresh
PROPERTIES
  GivesSlotsInOrder
  QueueMoves
  BatchReloads
\* every transfer may be over and the user may be idle
CHECK_DEADLOCK FALSE
