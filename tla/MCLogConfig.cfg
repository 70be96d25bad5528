SPECIFICATION FairSpec
CONSTANTS
  Specs <- MCSpecs
  Pods <- MCPods
  HostPods <- MCHostPods
  Worker = "kubeocean-worker"
  Mount = "kubeocean-worker"
  None = None
  MaxGroups = 2
  MaxEdit = 2
  MaxError = 1
  MaxRestart = 1
INVARIANTS
  SelectsSame
PROPERTIES
  ReleasedLast
  DeletionCompletes
  EventuallySynced
CONSTRAINT OneTrouble
CHECK_DEADLOCK FALSE
