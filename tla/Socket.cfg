SPECIFICATION FairSpec
CONSTANTS
  MaxMessages = 2
  RequestIDs = {1, 2}
  ItemsPerBatch = 2
  Contents <- MCContents
INVARIANTS
  TypeOK
  AnswersInOrder
  EndIsComplete
  ContextsReleased
PROPERTIES
  GoroutinesEnd
  RequestsAnswered
\* both goroutines may have ended
CHECK_DEADLOCK FALSE
