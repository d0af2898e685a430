\* Two tasks, every method, cancellations: what survives, and do calls end?
CONSTANTS
  t1 = t1
  t2 = t2
  Tasks = {t1, t2}
  MaxCalls = 1
  MaxRetries = 1
  MaxConns = 6
  Reconnects = {TRUE}
  Kinds = {"verify", "health", "get_l1_public_key"}
  Cancels = TRUE
  Large <- MCNone
  Bulky <- MCCommands
  MaxMeddles = 1
  NRules = 0
  Commands <- MCCommands
  Unhashable = {}
  Unsignable = {}
  L1Enabled = FALSE
  MaxAuditLog = 1
  MaxRequests = 2
  MaxLives = 1
SPECIFICATION FairSpec
INVARIANTS
  NeverInvented
  LockPassedOn
PROPERTIES
  CallsReturn
  StepsRunOut
CHECK_DEADLOCK FALSE
