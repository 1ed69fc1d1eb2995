SPECIFICATION FairSpec
CONSTANTS
  c1 = c1
  c2 = c2
  c3 = c3
  Clients = {c1, c2, c3}
  NoClient = NoClient
  Scripts <- MCScripts
  MaxClients = 2
  MaxWorkers = 1
  MaxPending = 2
  MaxEvents = 1
INVARIANTS
  CapacityExact
  AnsweredInOrder
  EventOnce
  NoLostWakeup
PROPERTIES
  RequestsAnswered
  ShutdownCompletes
CHECK_DEADLOCK FALSE
