CONSTANTS
  Cluster = cluster
  Objects = {cluster}
  Data <- MCData
  NewData <- MCNewData
  MaxConfig = 2
  Compared <- Whole
  NoSecret = NoSecret
  SlowInformer = FALSE
  MaxFaults = 1
SPECIFICATION FairSpec
INVARIANTS
  TypeOK
  NoStrayCluster
  AppliedIsApplied
PROPERTIES
  
  RemovalEnds
CHECK_DEADLOCK FALSE
