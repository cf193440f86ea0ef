SPECIFICATION Spec
\* CHECK_DEADLOCK is off: training ends, or a start fails for good.
CHECK_DEADLOCK FALSE
CONSTANTS
  Ranks = {0, 1}
  Configs <- MCConfigs
  StepsPerEpoch = 2
  total_epochs = 3
  save_freq = 2
  MaxCrashes = 2
INVARIANTS AlwaysSomething Lineage
PROPERTIES Ends
