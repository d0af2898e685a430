\* Does a daemon that is sent a signal end?
CONSTANTS
  d1 = d1
  d2 = d2
  Procs <- MCAlone
  Stale = Stale
  NoNode = NoNode
  MaxClients = 1
  MaxSignals = 1
SPECIFICATION FairSpec
PROPERTY SignalEndsDaemon
