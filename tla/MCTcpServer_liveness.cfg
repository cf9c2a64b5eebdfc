\* Every thread scheduled; peers close only after what they sent has been read, and
\* the pool has room for one connection under the rule "random".
CONSTANTS
  w1 = w1
  w2 = w2
  NoWorker = NoWorker
  Workers = {w1}
  MaxConns = 2
  MaxTime = 0
  PatientClients = TRUE
  FdLimit = 3
  TransientErrors = FALSE
  MaxPerWorker = 1
  MaxEvents = 1
  EvictionRule = "random"
  InactiveRule = "none"
  EvictionPoolSize = 2
  InactiveTimeout = 0
  Callbacks <- AllCallbacks
  HandlerMayClose = FALSE
  MemoryMayExceed = FALSE
SPECIFICATION FairSpec
PROPERTY PeersAreAccepted
PROPERTY ImplementsLifecycle
 
PROPERTY ResetIsReaped
PROPERTY CloseIsReaped
PROPERTY OverloadIsShed
