SPECIFICATION Spec
CONSTANTS
  Node = {a, b}
  None = None
  PortMin = 1
  PortMax = 2
  Hash <- Collide
  MaxUid = 1
  MaxChange = 0
  MaxUserDelete = 2
  MaxRestart = 0
  MaxError = 1
INVARIANTS
  PortsUnique
PROPERTIES
  ImplementsAllocation
CONSTRAINT NoPods
SYMMETRY Symmetric
CHECK_DEADLOCK FALSE
