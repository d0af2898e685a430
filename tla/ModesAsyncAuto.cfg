\* averify is the first call of an auto verifier; a server is listening.
CONSTANTS
  Programs <- MCAsync
  MaxLoops = 1
  MaxCalls = 1
  MaxFailures = 0
SPECIFICATION Spec
CHECK_DEADLOCK FALSE
PROPERTY FallsBackOnlyWithoutServer
