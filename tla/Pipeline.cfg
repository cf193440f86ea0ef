\* CHECK_DEADLOCK is off: after the last run nothing is left to do.
SPECIFICATION Spec
CONSTANTS
  RawList <- Dataset
  MaxWorkers = 2
  MaxRuns = 6
INVARIANTS FilesExplained
PROPERTIES FinishedStays RunCompletes ImplementsFileWork RunEnds
CHECK_DEADLOCK FALSE
