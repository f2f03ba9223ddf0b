SPECIFICATION Spec
CONSTANTS
  MainFrames = 2
  CanFrames = 2
  RingSize = 3
  QueueLen = 1
  Batch = 2
INVARIANTS ExactlyOnce
CHECK_DEADLOCK FALSE
