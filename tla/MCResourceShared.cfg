SPECIFICATION FairSpec
CONSTANTS
  Cluster = {a, b}
  Kinds = {"configmap"}
  Mount <- SameMount
  None = None
  MaxVersion = 1
  MaxSync = 2
  MaxForeign = 0
  MaxRestart = 0
  Steady = {a, b}
PROPERTIES
  DeletionCompletes
CONSTRAINT OneTrouble
CHECK_DEADLOCK FALSE
