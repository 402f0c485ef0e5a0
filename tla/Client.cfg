SPECIFICATION Spec
INVARIANTS
  SendsToOpenChannels
  ScreenSound
PROPERTIES
  CallsReturn
  EventsInOrder
  ClientReturns
  RestartSparesRuns
CONSTANTS
  MaxCalls = 2
  MaxBackends = 2
  MaxEvents = 4
  Cap = 2
  Screen = 1
  Text = {x, y}
  MaxTyped = 2
  MaxAsks = 2
  MaxKeys = 2
  MaxLate = 1
  MaxRuns = 2
  Resumed = FALSE
  MaxFlows = 2
  MaxTexts = 1
  MaxRestarts = 1
CHECK_DEADLOCK FALSE
