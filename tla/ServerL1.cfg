\* An L1 server with an audit log of two entries, two processes, four requests.
CONSTANTS
  plain = plain
  unsafeInt = unsafeInt
  unhashable = unhashable
  NRules = 1
  Commands <- MCCommands
  Unsignable <- MCUnsignable
  Unhashable <- MCUnhashable
  L1Enabled = TRUE
  MaxAuditLog = 2
  MaxRequests = 5
  MaxLives = 2
SPECIFICATION ServerSpec
INVARIANTS
  ServerTypeOK
  AuditIsRecentHistory
  CountersAgree
  SequencesIncrease
PROPERTIES
  AuditOnlyGrows
