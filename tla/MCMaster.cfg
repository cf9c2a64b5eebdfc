\* Three workers, which is no power of two, and a counter of three bits, which turns
\* negative at the fifth connection.  The process may end at a connection.
CONSTANTS
  Files <- AllFiles
  NotSet = NotSet
  PoolSize = 3
  IntHalf = 4
  IPs = {0, 4}
  MaxArrivals = 5
  Garbage <- Uninitialised
SPECIFICATION Spec
CHECK_DEADLOCK FALSE
INVARIANT TypeOK
INVARIANT LoadedAsWritten
INVARIANT RoundRobinIsEven
INVARIANT SoundFileServes
PROPERTY LeastLoadedIsChosen
