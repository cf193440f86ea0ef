\* CHECK_DEADLOCK is off: conversations end and pauses are bounded.
SPECIFICATION Spec
CONSTANTS
  c1 = c1
  c2 = c2
  s1 = s1
  s2 = s2
  Convs = {c1}
  SingleTurn = {}
  Groups <- OneConversation
  Servers = {s1}
  response_length = 4
  max_model_len = 4
  max_assistant_turns = 0
  max_user_turns = 0
  HasInteraction = FALSE
  MaxReply = 1
  MaxPauses = 1
INVARIANTS CallsServed
CHECK_DEADLOCK FALSE
