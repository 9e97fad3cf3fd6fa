SPECIFICATION FairSpec
CONSTANTS
  Radix = 2
  MAX_BINARY_HIGHER_COUNT = 1
  Instants <- MCInstants
  CalendarArgs <- MCCalendarArgs
  CalendarAlarms <- MCCalendarAlarms
  BinaryArgs <- MCBinaryArgs
  MaxCalls = 4
CHECK_DEADLOCK FALSE
INVARIANT RingsAsAsked
INVARIANT WholeRead
PROPERTY AlarmRings
