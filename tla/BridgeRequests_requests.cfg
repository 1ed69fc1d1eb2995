SPECIFICATION MCFairSpec
CONSTANTS
  Objects = {o1, o2}
  Kinds = {"spi", "ctl"}
  CreditLimit = 2
  RingEntries = 2
  MaxRequests = 3
  MaxGeneration = 2
  MaxSessions = 2
INVARIANTS
  TypeOK
  NoCreditLeak
  DaemonLossFailsWaiters
  NoLostWakeup
  NoRequestLost
  NoSessionMismatch
PROPERTY
  CallReturnsUnlessWedged
