\* Two deployments under one issuer name, keys that collide in their fingerprint, damage, rotation and clocks that drift.
CONSTANTS
  k1 = k1
  k2 = k2
  k3 = k3
  s1 = s1
  s2 = s2
  Keys = {k1, k2, k3}
  Fingerprint <- MCFingerprint
  OneSecond = 2
  Servers = {s1, s2}
  IssuerOf <- MCOneIssuer
  KeysOf <- MCKeysOf2
  Traces = {"ok"}
  Bodies = {"ok"}
  Jitters <- MCNoJitter
  ClockSkew = 1
  Validity = 1
  OwnBuilds = FALSE
  MaxDrift = 2
  Start = 4
  MaxTime = 8
  MaxReceipts = 2
  MaxAnchors = 2
SPECIFICATION Spec
CHECK_DEADLOCK FALSE
INVARIANTS AcceptedIsGenuine PinnedIsAccepted CheckedIsGenuine ExpiryFollowsIssuer
