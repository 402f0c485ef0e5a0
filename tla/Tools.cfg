SPECIFICATION Spec
INVARIANTS
  ResultsAreHonest
PROPERTIES
  CellsOwnTheirCalls
  TimedCellsEnd
  CallsEndForCause
CONSTANTS
  MaxCells = 2
  MaxKids = 2
  MaxSteps = 1
  MaxCrashes = 1
  Call = {a, b, c}
  MaxClients = 2
  MaxDeaths = 1
  MaxLines = 5
  Widths = {1, 2, 4}
  LineCap = 3
  ByteCap = 3
  MaxOutput = 5
  PipeCap = 2
  Limit = 2
CHECK_DEADLOCK FALSE
