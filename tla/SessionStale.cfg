\* A health check shares the client with verify: whose result is returned?
CONSTANTS
  t1 = t1
  t2 = t2
  Tasks = {t1}
  MaxCalls = 3
  MaxRetries = 1
  MaxConns = 7
  Reconnects = {TRUE}
  Kinds = {"verify", "health"}
  Cancels = FALSE
  Large <- MCNone
  Bulky <- MCNone
  MaxMeddles = 0
  NRules = 0
  Commands <- MCCommands
  Unhashable = {}
  Unsignable = {}
  L1Enabled = TRUE
  MaxAuditLog = 1
  MaxRequests = 6
  MaxLives = 1
SPECIFICATION Spec
INVARIANT ResultMatchesCommand
CHECK_DEADLOCK FALSE
