SPECIFICATION Spec
\* CHECK_DEADLOCK is off: every item ends.
CHECK_DEADLOCK FALSE
CONSTANTS
  Items = {i1, i2, i3}
  Workers = {w1, w2}
  Modes <- MCModes
  Sizes = {2, 5}
  rate_limit = 2
  max_tokens = 3
  max_concurrent = 1
  timeout = 1
  max_retries = 2
  max_attempts = 2
INVARIANTS NeverUndercounted RateKept
PROPERTIES Ends
