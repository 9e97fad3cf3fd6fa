SPECIFICATION FairSpec
CONSTANTS
  FifoSize = 2
  Sizes <- MCSizes
  RxSize = 1
  Apps <- MCApps
  Careful = TRUE
INVARIANTS TxCompleteMeansSent AssertsHold ReceivedInOrder
PROPERTIES ImplementsStream ReceptionServed
CHECK_DEADLOCK FALSE
