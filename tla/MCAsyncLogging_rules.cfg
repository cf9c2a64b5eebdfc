\* Every rolling rule, one byte a file and one midnight; the log may be stopped.
\* The number of lines is bounded, so the system may stop.
CONSTANTS
  a = a
  b = b
  Writers = {a, b}
  HighWaterMask = 2
  RollingRules = {"none", "size", "daily", "sizedaily"}
  MaxBytes = 1
  MaxLines = 4
  MaxDay = 1
  MayStop = TRUE
SPECIFICATION FairSpec
CHECK_DEADLOCK FALSE
INVARIANT TypeOK
INVARIANT NothingLost
 
INVARIANT HighWaterIsNotified
PROPERTY NotRolledEarly
PROPERTY LinesAreWritten
PROPERTY StopReturns
