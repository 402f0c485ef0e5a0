SPECIFICATION MCSpec
INVARIANTS
  CallLeavesNothing
  ConsumerSeesEnd
  CallsAllowed
  ModelIsToldCurrent
  TextsKept
  TranscriptSound
CONSTANTS
  Servers = 2
  MaxCalls = 5
  MaxFailures = 2
  Budget = 2
  MaxTokens = 3
  Server = {"s1"}
  Raw = {"a-b", "a_b", "c"}
  Named <- Normalized
  Threshold = 1
  SearchMax = 1
  Call = {c1, c2}
  Plain = {"model", "date"}
  Posture = {"network"}
  Value = {"v1", "v2"}
  Tool = {"t1", "t2"}
  MaxChanges = 3
  Char = {"f", "_", "n", "r", "w"}
  MaxFile = 4
  MaxOld = 2
  MaxNew = 1
  MaxItems = 4
  Sizes = {1, 2, 5}
  ByteCap = 4
  LineCap = 2
  MaxCompleted = 1
  MaxWrites = 5
CHECK_DEADLOCK FALSE
