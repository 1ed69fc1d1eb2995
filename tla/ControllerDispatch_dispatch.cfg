SPECIFICATION FairSpec
CONSTANTS
  Workers = {w1, w2}
  Templates = {t}
  Controlled = {c}
  Backends = {b}
  Inventories = {{}, {t, c}}
  QueueLimit = 1
  MaxRequests = 2
  MaxInstalls = 1
  MaxRoutes = 1
  NoBackend = NoBackend
  NoLock = NoLock
INVARIANTS
  TypeOK
  PendingReleased
  PendingReachable
  TemplateExclusive
PROPERTY
  RequestAnswered
CHECK_DEADLOCK FALSE
