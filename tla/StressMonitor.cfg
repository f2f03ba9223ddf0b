SPECIFICATION MFairSpec
CONSTANTS
  MaxRequests = 2
  MaxInits = 2
  MaxFaults = 1
  StartFreq = 4
  MaxFreq = 7
  StepFreq = 2
  WindowSize = 2
  MaxTicks = 3
  MaxTests = 2
INVARIANTS StressTypeOK ReadyHears
PROPERTIES LossAccounted DeviceBack RampEnds
CHECK_DEADLOCK FALSE
