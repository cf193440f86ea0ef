\* CHECK_DEADLOCK is off: the program ends.
SPECIFICATION LabelSpec
CONSTANTS
  MaxChunks = 2
  MaxTries = 3
  MaxFileRetries = 2
INVARIANTS OutputComplete
PROPERTIES FirstAnswerCounts Settles
CHECK_DEADLOCK FALSE
