SPECIFICATION GFairSpec
CONSTANTS
  Testers = {a, b}
  CanTesters = {b}
  Others = {b}
  Requests <- OtherRequests
  Throwing <- ReadMayThrow
  MaxRequests = 9
  MaxConnections = 2
  Clicks = {"ex", "code", "read", "Tester", "ECU"}
  MaxClicks = 2
  MaxOther = 1
INVARIANTS TypeOK SessionNeedsAuth OwnAnswers InRequestOrder InStep
PROPERTIES ReadsUnlocked PendingRuns
CHECK_DEADLOCK FALSE
