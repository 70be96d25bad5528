SPECIFICATION FairSpec
CONSTANTS
  Node = {a}
  None = None
  PortMin = 1
  PortMax = 1
  Hash <- Collide
  MaxUid = 2
  MaxChange = 2
  MaxUserDelete = 0
  MaxRestart = 1
  MaxError = 1
INVARIANTS
  LeaseOnlyForNode
PROPERTIES
  Converges
CHECK_DEADLOCK FALSE
