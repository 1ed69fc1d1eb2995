SPECIFICATION Spec
CONSTANTS
  Clients = {c1}
  Main = main
  NoSnapshot = NoSnapshot
  Nobody = Nobody
  Models <- MCModels
  Plan <- MCPlan
  MaxFaults = 3
  MaxCrashes = 1
INVARIANTS
  ReadyMatchesKernel
  SnapshotCurrent
  EmptyMeansEmpty
