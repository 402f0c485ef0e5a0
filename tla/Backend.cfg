SPECIFICATION MCSpec
INVARIANTS
  LoginIsStored
  OneQuestion
  OutputWhole
PROPERTIES
  LoginsEnd
  AnsweredToolReturns
  ServerStops
CONSTANTS
  MaxFlows = 2
  Conn = {k1}
  MaxRequests = 2
  MaxAttempts = 2
  Option = {o1, o2}
  MaxSubmits = 2
  MaxRuns = 2
  MaxDeaths = 1
  MaxLines = 3
  Session = {x1}
CHECK_DEADLOCK FALSE
