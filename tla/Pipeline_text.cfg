\* CHECK_DEADLOCK is off: after the last run nothing is left to do.
SPECIFICATION Spec
CONSTANTS
  RawList <- Dataset
  MaxWorkers = 2
  MaxRuns = 6
INVARIANTS OwnProblemInStep3
CHECK_DEADLOCK FALSE
