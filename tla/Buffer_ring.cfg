\* An array of 2 bytes that grows to 3, 4 and 5 (6 cut to the maximum).
CONSTANTS
  Byte = {0, 1}
  InitSize = 2
  MaxSize = 5
  MaxLen = 3
SPECIFICATION FairSpec
INVARIANT RingInvariant
PROPERTY ImplementsQueue
PROPERTY WriteReturns
