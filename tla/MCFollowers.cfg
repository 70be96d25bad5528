SPECIFICATION Spec
CONSTANTS
  None = None
  MaxChange = 4
  MaxError = 1
  p1 = p1
  p2 = p2
  p3 = p3
  Proxiers = {p1, p2, p3}
  Drivers = {"d", "e"}
  PortSets <- Ports
INVARIANTS FakePodsFollow CSINodeFollows AddressFollows
PROPERTIES StaysReserved ForeignKept
SYMMETRY Symmetric
CONSTRAINT OneInPlay
CHECK_DEADLOCK FALSE
