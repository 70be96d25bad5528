SPECIFICATION Spec
CONSTANTS
  MaxV = 2
  MaxP = 2
  MaxLag = 1
  MaxDone = 1
  MaxRestart = 0
INVARIANTS
  CleanupOnlyDoomed
  GracefulDeletion
  MappingOwned
  LostOnlyIfGone
  TokenBacked
PROPERTIES
  RecordedOnce
