SPECIFICATION Spec
CONSTANTS
  FifoSize = 2
  Sizes <- MCSizes
  RxSize = 1
  Apps <- MCApps
  Careful = TRUE
INVARIANT ErrorsKept
CHECK_DEADLOCK FALSE
