\* CHECK_DEADLOCK is off: training ends.
SPECIFICATION Spec
CONSTANTS
  Total = 4
  MaxRequired = 2
  MaxConcurrent = 2
  PendingCap = 5
  partial_rollout = TRUE
  MayFail = TRUE
  required_samples = 1
  trigger_parameter_sync_step = 1
  test_freq = 2
  use_trainer_do_validate = FALSE
INVARIANTS Whereabouts ActiveBound
PROPERTIES Fresh PauseWaits
CHECK_DEADLOCK FALSE
