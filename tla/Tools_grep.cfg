SPECIFICATION Spec
INVARIANT GrepAnswers
CONSTANTS
  MaxCells = 1
  MaxKids = 2
  MaxSteps = 1
  MaxCrashes = 1
  Call = {a}
  MaxClients = 1
  MaxDeaths = 1
  MaxLines = 5
  Widths = {1, 2, 4}
  LineCap = 3
  ByteCap = 3
  MaxOutput = 5
  PipeCap = 2
  Limit = 2
CHECK_DEADLOCK FALSE
