SPECIFICATION MCFairSpec
CONSTANTS
  Objects = {o1, o2}
  Kinds = {"spi"}
  CreditLimit = 1
  RingEntries = 2
  MaxRequests = 2
  MaxGeneration = 2
  MaxSessions = 1
PROPERTY
  CallReturns
