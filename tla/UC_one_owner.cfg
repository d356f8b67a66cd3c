CONSTANTS
  Servers = {1, 2}
  ChanCap = 1
  MaxFaults = 1
  MaxUint32 <- MCMaxUint32
  Clusters <- MCClusters
  Checksum <- MCChecksumTop
SPECIFICATION FairSpec
INVARIANTS
  TypeOK
  LastMessageIsCurrent
  TwoOwnersOnlyInTransition
PROPERTIES
  EventuallyOneOwner
  ShutdownGivesUp
CHECK_DEADLOCK FALSE
