\* CHECK_DEADLOCK is off: all callers may be consumers that wait for a sample.
SPECIFICATION Spec
CONSTANTS
  Clients = {c1, c2, c3}
  max_queue_size = 2
  MaxProduced = 3
  MaxAside = 1
INVARIANTS Conservation NewestInOrder WaitersJustified
PROPERTIES ImplementsQueue CallsReturn
CHECK_DEADLOCK FALSE
