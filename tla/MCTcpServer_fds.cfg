\* Two descriptors for two connections; none of them is ever closed again.
\* The process may end.
CONSTANTS
  w1 = w1
  w2 = w2
  NoWorker = NoWorker
  Workers = {w1}
  MaxConns = 2
  MaxTime = 0
  PatientClients = FALSE
  FdLimit = 2
  TransientErrors = FALSE
  MaxPerWorker = 1
  MaxEvents = 1
  EvictionRule = "none"
  InactiveRule = "none"
  EvictionPoolSize = 2
  InactiveTimeout = 0
  Callbacks <- AllCallbacks
  HandlerMayClose = FALSE
  MemoryMayExceed = FALSE
SPECIFICATION Spec
CHECK_DEADLOCK FALSE
INVARIANT AcceptorStopsOnlyWhenFull
