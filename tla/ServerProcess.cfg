SPECIFICATION PFairSpec
CONSTANTS
  Testers = {a, b}
  CanTesters = {}
  Requests <- ProbeAndRefused
  Throwing <- RefusedMayThrow
  MaxRequests = 2
  MaxConnections = 1
  Options <- CommandLines
  MaxKills = 1
  MaxFailures = 1
INVARIANTS OwnAnswers  LogInOrder
PROPERTIES Answered Written
CHECK_DEADLOCK FALSE
