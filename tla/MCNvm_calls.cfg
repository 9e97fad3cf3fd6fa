SPECIFICATION FairNvmSpec
CONSTANTS
  BYTES_PER_PAGE = 4
  NB_OF_BYTES_IN_A_WORD = 2
  Devices <- MCDevices
  Calls <- MCCalls
  MaxCalls = 2
  MaxTries = 2
  MaxFabric = 1
INVARIANTS Exclusive NothingLeftBehind StatusIsTrue ProtectedUntouched
PROPERTIES OnlyTheRange NvmCallReturns
CHECK_DEADLOCK FALSE
