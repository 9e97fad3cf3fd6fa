SPECIFICATION FairServicesSpec
CONSTANTS
  Depths = {1, 2, 3}
  MaxPage = 3
  Buffers <- MCBuffers
  Services <- MCServices
  Status <- MCStatus
  Payload <- Plain
  PorFlags <- Flag
  Tampers <- MCTampers
  RxDepth = 3
  MaxPages = 2
  MaxEvents = 2
  Patient = TRUE
  Orderly = TRUE
INVARIANTS FrameIntact
PROPERTIES ResultIsAnswer OnlyLiveBuffers CallsReturn IspCompletes
CHECK_DEADLOCK FALSE
