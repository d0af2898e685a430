\* Servers whose clock moves between two readings, programs that use the builder, and old documents.
CONSTANTS
  k1 = k1
  k2 = k2
  k3 = k3
  s1 = s1
  s2 = s2
  Keys = {k1, k2}
  Fingerprint <- MCFingerprint2
  OneSecond = 2
  Servers = {s1}
  IssuerOf <- MCOneIssuer
  KeysOf <- MCKeysOf1
  Traces = {"", "ok", "long"}
  Bodies = {"ok", "long", "unsafe"}
  Jitters <- MCJitters
  ClockSkew = 1
  Validity = 2
  OwnBuilds = TRUE
  MaxDrift = 1
  Start = 4
  MaxTime = 5
  MaxReceipts = 2
  MaxAnchors = 0
SPECIFICATION Spec
CHECK_DEADLOCK FALSE
INVARIANTS TypeOK SignedIsConsistent OldIsReadNotVerified
