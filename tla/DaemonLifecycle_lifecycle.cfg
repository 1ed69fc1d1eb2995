SPECIFICATION FairSpec
CONSTANTS
  Commands = {c1, c2}
  MaxCalls = 3
  MaxDaemons = 3
  MaxFaults = 1
INVARIANTS
  OneAnswers
  OwnFiles
PROPERTIES
  StopLeavesNothing
  StopEndsDaemons
CHECK_DEADLOCK FALSE
