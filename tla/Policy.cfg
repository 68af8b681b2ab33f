SPECIFICATION Spec
CONSTANTS
  Actions = {get, put}
  CreateServiceAccount = put
  Resources = {all, bucket}
  AllResources = all
  MaxStatements = 3
INVARIANTS
  ExactBeyondDefaults
  NothingWithheld
\* the fold ends
CHECK_DEADLOCK FALSE
