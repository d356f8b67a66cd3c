CONSTANTS
  Objects = {b1, b2, b3}
  Data <- MCData
  NewData <- MCNewData
  Interval = 1
  Retention = 1
  MaxFaults = 1
  S3 = TRUE
SPECIFICATION FairSpec
INVARIANTS
  TypeOK
  NoOrphanSnapshot
PROPERTIES
  ResultIsFinal
  RotatesOnlyOld
  AlwaysRecentAgain
  DeletionEnds
