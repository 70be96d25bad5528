SPECIFICATION FairSpec
CONSTANTS
  MaxV = 1
  MaxP = 2
  MaxLag = 1
  MaxDone = 0
  MaxRestart = 1
PROPERTIES
  OrphanCollected
  DeletionCompletes
  EventuallyRecorded
  LossReported
