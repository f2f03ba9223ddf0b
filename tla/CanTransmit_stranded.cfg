SPECIFICATION FairSpec
CONSTANTS
  MainFrames = 2
  CanFrames = 1
  RingSize = 3
  QueueLen = 1
  Batch = 2
PROPERTIES AllSent
CHECK_DEADLOCK FALSE
