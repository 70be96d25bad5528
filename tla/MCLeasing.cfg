SPECIFICATION FairSpec
CONSTANTS
  p1 = p1
  p2 = p2
  plain = plain
  tolerant = tolerant
  None = None
  Policy = {p1, p2}
  Rank <- RankMC
  Specs <- SpecsMC
  Start <- StartMC
  DayLen = 4
  Day <- DayMC
  Pods = {plain, tolerant}
  Tolerant = {tolerant}
  Alloc = 5
  Req = 2
  Horizon = 5
  Dawn = 2
  MaxEdit = 1
  MaxTaint = 1
  MaxError = 1
PROPERTIES GraceNotReset EvictedAfterGrace UserTaintKept Settles Reclaimed
CONSTRAINT OneChange
CHECK_DEADLOCK FALSE
