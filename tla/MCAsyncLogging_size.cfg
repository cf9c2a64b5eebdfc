\* Rolling by size, no midnight and no stop.
\* The number of lines is bounded, so the system may stop.
CONSTANTS
  a = a
  b = b
  Writers = {a, b}
  HighWaterMask = 2
  RollingRules = {"size"}
  MaxBytes = 2
  MaxLines = 6
  MaxDay = 0
  MayStop = FALSE
SPECIFICATION Spec
CHECK_DEADLOCK FALSE
SYMMETRY Symmetry
INVARIANT FileSizeIsLimited
