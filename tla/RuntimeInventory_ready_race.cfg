SPECIFICATION Spec
CONSTANTS
  Clients = {c1, c2}
  Main = main
  NoSnapshot = NoSnapshot
  Nobody = Nobody
  Models <- MCModels
  Plan <- MCPlan
  MaxFaults = 0
  MaxCrashes = 0
INVARIANTS
  ReadyMatchesKernel
