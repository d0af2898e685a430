\* Two daemons on one address, both transports, three generations of asyncio.
CONSTANTS
  d1 = d1
  d2 = d2
  Procs <- MCProcs
  Stale = Stale
  NoNode = NoNode
  MaxClients = 1
  MaxSignals = 2
SPECIFICATION FairSpec
INVARIANTS
  TypeOK
  SocketIsOwnerOnly
  FailedStartLeavesNoFile
  NoLostWakeup
PROPERTIES
  StartFailsOnlyIfDisturbed
  PathLostOnlyToStart
  SignalEndsServing
