SPECIFICATION Spec
CONSTANTS
  MaxMessages = 2
  RequestIDs = {1, 2}
  ItemsPerBatch = 2
  Contents <- MCFewContents
PROPERTIES
  CancelReachesListing
\* both goroutines may have ended
CHECK_DEADLOCK FALSE
