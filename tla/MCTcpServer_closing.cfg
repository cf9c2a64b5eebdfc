\* One worker, three connections, callbacks that close connections, the rule
\* "random" without memory pressure, accept errors and just enough descriptors: the
\* process may end by the assertion on accept.
CONSTANTS
  w1 = w1
  w2 = w2
  NoWorker = NoWorker
  Workers = {w1}
  MaxConns = 3
  MaxTime = 0
  PatientClients = FALSE
  FdLimit = 3
  TransientErrors = TRUE
  MaxPerWorker = 1
  MaxEvents = 2
  EvictionRule = "random"
  InactiveRule = "none"
  EvictionPoolSize = 2
  InactiveTimeout = 0
  Callbacks <- AllCallbacks
  HandlerMayClose = TRUE
  MemoryMayExceed = FALSE
SPECIFICATION Spec
CHECK_DEADLOCK FALSE
INVARIANT NoCrash
