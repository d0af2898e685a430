\* What does verify raise when the server goes away?
CONSTANTS
  t1 = t1
  t2 = t2
  Tasks = {t1, t2}
  MaxCalls = 1
  MaxRetries = 1
  MaxConns = 5
  Reconnects = {TRUE}
  Kinds = {"verify"}
  Cancels = FALSE
  Large <- MCNone
  Bulky <- MCNone
  MaxMeddles = 0
  NRules = 0
  Commands <- MCCommands
  Unhashable = {}
  Unsignable = {}
  L1Enabled = TRUE
  MaxAuditLog = 1
  MaxRequests = 6
  MaxLives = 2
SPECIFICATION Spec
INVARIANT OnlyTransportErrors
CHECK_DEADLOCK FALSE
