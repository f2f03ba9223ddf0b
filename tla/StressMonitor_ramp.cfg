SPECIFICATION MSpec
CONSTANTS
  MaxRequests = 2
  MaxInits = 2
  MaxFaults = 1
  StartFreq = 4
  MaxFreq = 7
  StepFreq = 2
  WindowSize = 2
  MaxTicks = 3
  MaxTests = 2
INVARIANT RunsAtMaximum
CHECK_DEADLOCK FALSE
