SPECIFICATION Spec
CONSTANTS
  Call = {c1, c2}
  StreamCorrections = 1
  Retries = 1
  MaxUpdates = 1
  Asked = {x1, x2}
  MaxCorrections = 1
  MaxCompactions = 0
  CompactFailures = 0
  Name = {n1}
  OneSession = {s}
  OneRun = {x1, x2}
  OneLines = 0
  TwoSession = {x1, x2}
  TwoRun = {r}
  TwoLines = 0
SYMMETRY Symmetry
CHECK_DEADLOCK FALSE
INVARIANT PersistedRunCloses
