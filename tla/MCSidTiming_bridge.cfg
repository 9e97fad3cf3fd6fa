SPECIFICATION TimingSpec
CONSTANTS
  Words <- SafeWords
  Bytes <- MCBytes
  Index <- MCIndex
  ResetFreq = 3
INVARIANTS NoContention StallBounded
PROPERTIES OneWindow PinsHeld
