SPECIFICATION FairSpec
CONSTANTS
  Binding = {a}
  ClusterID = {x}
  IdsOf <- AnyID
  None = None
  MaxInc = 1
  MaxDelete = 1
  MaxChange = 0
  MaxRestart = 1
  MaxError = 0
PROPERTIES
  DeletionCompletes
  BecomesReady
CHECK_DEADLOCK FALSE
