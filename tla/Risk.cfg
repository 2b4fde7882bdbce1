SPECIFICATION Spec
CONSTANTS
  Biddings <- MCBiddings
  Values <- MCValues
  Records <- MCRecords
CHECK_DEADLOCK FALSE
INVARIANTS FlagsAsDefined FlagNamesEscapedBody GradesEarned
