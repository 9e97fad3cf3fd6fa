SPECIFICATION Spec
CONSTANTS
  Max = 2
  Sizes <- Nine
  Src = 100
  Dst = 300
  Slow = TRUE
INVARIANTS NothingLost
