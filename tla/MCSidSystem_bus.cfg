SPECIFICATION FairSystemSpec
CONSTANTS
  Words <- MCWords
  Bytes <- MCBytes
  Index <- MCIndex
  ResetFreq = 3
  Transfers <- All
  Follows <- Careful
  MaxWait = 2
INVARIANTS StartedInTurn
PROPERTIES ImplementsPort BusNeverHangs
