SPECIFICATION FairSpec
CONSTANTS
  Cluster = {a, b}
  Kinds = {"configmap", "pvsecret", "pvc", "pv"}
  Mount <- SameMount
  None = None
  MaxVersion = 2
  MaxSync = 2
  MaxForeign = 1
  MaxRestart = 1
  Steady = {b}

  
PROPERTIES
  LetsGo
  CopyCatchesUp
  ForeignUntouched
CONSTRAINT OneTrouble
CHECK_DEADLOCK FALSE
