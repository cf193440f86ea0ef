\* CHECK_DEADLOCK is off: training ends.
SPECIFICATION FairSpec
CONSTANTS
  Total = 5
  MaxRequired = 2
  MaxConcurrent = 2
  PendingCap = 2
  partial_rollout = FALSE
  MayFail = TRUE
  required_samples = 1
  trigger_parameter_sync_step = 2
  test_freq = 1
  use_trainer_do_validate = TRUE
INVARIANTS RolloutNum StepsTaken
PROPERTIES OnPolicy Ends
CHECK_DEADLOCK FALSE
