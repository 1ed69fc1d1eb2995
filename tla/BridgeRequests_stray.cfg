SPECIFICATION MCSpec
CONSTANTS
  Objects = {o1, o2}
  Kinds = {"ctl"}
  CreditLimit = 1
  RingEntries = 2
  MaxRequests = 2
  MaxGeneration = 1
  MaxSessions = 1
INVARIANT
  CompletedOnlyByReply

