\* Two workers, two connections, every rule that removes connections and memory
\* pressure, with well-behaved user callbacks.
CONSTANTS
  w1 = w1
  w2 = w2
  NoWorker = NoWorker
  Workers = {w1, w2}
  MaxConns = 2
  MaxTime = 1
  PatientClients = FALSE
  FdLimit = 3
  TransientErrors = FALSE
  MaxPerWorker = 1
  MaxEvents = 1
  EvictionRule = "inactive"
  InactiveRule = "close"
  EvictionPoolSize = 2
  InactiveTimeout = 0
  Callbacks <- AllCallbacks
  HandlerMayClose = FALSE
  MemoryMayExceed = TRUE
SPECIFICATION Spec
SYMMETRY Symmetry
INVARIANT TypeOK
INVARIANT NoCrash
INVARIANT InOnePlace
INVARIANT DisconnectionsAreReal
PROPERTY LifecycleSteps
PROPERTY RemovalIsJustified
