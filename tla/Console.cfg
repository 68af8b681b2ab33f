SPECIFICATION MCSpec
CONSTANTS
  Schemes <- MCSchemes
  Listeners <- MCListeners
  Requests = {r1, r2}
  MaxSignals = 2
  SystemTargets = {system}
  AuditTargets = {audit}
  QueueSize = 1
  Errors = {e1, e2}
  MaxChanges = 2
  MaxCleanups = 1
  Tabs = {t1, t2}
  Users = {u1, u2}
  NoUser = nobody
  MaxMoves = 3
INVARIANTS
  TypeOK
  HookAfterDrain
  ExitIsGraceful
  LoadingHasCall
PROPERTIES
  ShutdownEnds
  QueuesDrain
  PagesSettle
\* the process ends, and users stop
CHECK_DEADLOCK FALSE
