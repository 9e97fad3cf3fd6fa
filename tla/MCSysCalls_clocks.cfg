SPECIFICATION SysCallsSpec
CONSTANTS
  Devices <- MCDevices
  Requests <- MCRequests
  MaxCalls = 3
  Disabled <- Hashes
INVARIANTS BlockWellFormed ClocksRestored ProgramsPrepared LockReleased
PROPERTIES OneBitAtATime
CHECK_DEADLOCK FALSE
