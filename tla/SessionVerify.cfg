\* Two tasks share a client and only verify; timeouts, retries, a crash, a close.
CONSTANTS
  t1 = t1
  t2 = t2
  Tasks = {t1, t2}
  MaxCalls = 1
  MaxRetries = 1
  MaxConns = 6
  Reconnects = {TRUE, FALSE}
  Kinds = {"verify"}
  Cancels = FALSE
  Large <- MCCommands
  Bulky <- MCCommands
  MaxMeddles = 1
  NRules = 0
  Commands <- MCCommands
  Unhashable = {}
  Unsignable = {}
  L1Enabled = TRUE
  MaxAuditLog = 1
  MaxRequests = 2
  MaxLives = 2
SPECIFICATION Spec
SYMMETRY TaskSymmetry
INVARIANTS
  TypeOK
  ResultMatchesCommand
  StreamInSync
  DecisionsBounded
  OneConnectionPerAttempt
  AtMostOnce
  AnswersOnce
PROPERTIES
  KeepsPromise
CHECK_DEADLOCK FALSE
