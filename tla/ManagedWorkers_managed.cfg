SPECIFICATION FairSpec
CONSTANTS
  RestartLimit = 1
  Room = 1
  MaxRequests = 2
  MaxOps = 2
  MaxFaults = 2
INVARIANTS
  OneWorker
  PendingReleased
  FailureInHand
PROPERTY
  RequestAnswered
CHECK_DEADLOCK FALSE
