SPECIFICATION FairSpec
CONSTANTS
  MainFrames = 1
  CanFrames = 3
  RingSize = 3
  QueueLen = 1
  Batch = 2
INVARIANTS TypeOK OnceApart Woken
PROPERTIES OnlyFull CanSent
CHECK_DEADLOCK FALSE
