SPECIFICATION FairSpec
CONSTANTS
  Max = 2
  Sizes <- UpToEight
  Src = 100
  Dst = 300
  Slow = TRUE
INVARIANTS InOrder NothingLost ErrorFound
PROPERTIES ImplementsTransfer TransferEnds
