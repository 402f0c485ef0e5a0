SPECIFICATION MCSpec
CONSTANTS
  c1 = c1
  c2 = c2
  c3 = c3
  read1 = read1
  read2 = read2
  fetch = fetch
  edit = edit
  Call = {c1, c2, c3}
  Action = {read1, read2, fetch, edit}
  Needs <- MCNeeds
  Root = {"root"}
  Network = {"network"}
  NoCall = NoCall
  MaxRuns = 2
  MaxChanges = 1
INVARIANTS NobodyWaitsInVain GrantsKept
PROPERTIES DecisionsHold WaitingEnds
CHECK_DEADLOCK FALSE
