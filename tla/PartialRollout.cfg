\* CHECK_DEADLOCK is off: conversations end and pauses are bounded.
SPECIFICATION Spec
CONSTANTS
  c1 = c1
  c2 = c2
  s1 = s1
  s2 = s2
  Convs = {c1, c2}
  SingleTurn = {c2}
  Groups <- OneGroup
  Servers = {s1, s2}
  response_length = 3
  max_model_len = 3
  max_assistant_turns = 0
  max_user_turns = 1
  HasInteraction = TRUE
  MaxReply = 1
  MaxPauses = 1
INVARIANTS Unbroken CancelMeant
PROPERTIES CancelReturns
CHECK_DEADLOCK FALSE
