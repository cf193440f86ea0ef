\* CHECK_DEADLOCK is off: the program ends.
SPECIFICATION Spec
CONSTANTS
  SentenceLengths <- Lengths
  TagSets <- Codes
  NullTags <- NoSet
  MaxAttempts = 2
  MaxRuns = 2
INVARIANTS TextKept RunLeavesWhole
PROPERTIES RunEnds
CHECK_DEADLOCK FALSE
