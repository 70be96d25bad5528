SPECIFICATION Spec
CONSTANTS
  Binding = {a, b}
  ClusterID = {x, y}
  IdsOf <- AnyID
  None = None
  MaxInc = 2
  MaxDelete = 1
  MaxChange = 1
  MaxRestart = 1
  MaxError = 1
INVARIANTS
  DeployedUnderFinalizer
  SyncerKept
  ReadyMeansDeployed
  IdentifiersPaired
SYMMETRY Symmetric
CONSTRAINT AloneOrClash
CHECK_DEADLOCK FALSE
