SPECIFICATION FairSpec
CONSTANTS
  p1 = p1
  p2 = p2
  Producers = {p1, p2}
  Writers = {1, 2}
  Size <- MCSize
  TraceLimit = 2
  QueueLimit = 2
  QueueBytes = 2
  FileBytes = 3
  MaxRecords = 4
  MaxErrors = 1
  MaxCrashes = 1
INVARIANTS
  LossesCounted
  FileBounded
PROPERTIES
  FlushReturns
CHECK_DEADLOCK FALSE
