SPECIFICATION Spec
CONSTANTS
  Call = {c1, c2, c3}
  StreamCorrections = 1
  Retries = 1
  MaxUpdates = 1
  Asked = {x1, x2}
  MaxCorrections = 2
  MaxCompactions = 2
  CompactFailures = 1
  Name = {n1}
  OneSession = {s}
  OneRun = {x1, x2}
  OneLines = 12
  TwoSession = {x1, x2}
  TwoRun = {r}
  TwoLines = 7
SYMMETRY Symmetry
CHECK_DEADLOCK FALSE
INVARIANTS
  ShownSound
  FileSound
  RequestsWhole
  StoredWhole
  Durable
  CompactionCovers
  ForkFaithful
  StoreUsable
PROPERTY CancelKeepsFile
