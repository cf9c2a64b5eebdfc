\* Peers may send and close in one breath.
CONSTANTS
  w1 = w1
  w2 = w2
  NoWorker = NoWorker
  Workers = {w1}
  MaxConns = 2
  MaxTime = 0
  PatientClients = FALSE
  FdLimit = 3
  TransientErrors = FALSE
  MaxPerWorker = 1
  MaxEvents = 1
  EvictionRule = "none"
  InactiveRule = "none"
  EvictionPoolSize = 2
  InactiveTimeout = 0
  Callbacks <- AllCallbacks
  HandlerMayClose = FALSE
  MemoryMayExceed = FALSE
SPECIFICATION FairSpec
PROPERTY CloseIsReaped
