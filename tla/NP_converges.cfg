CONSTANTS
  NoNode = NoNode
  Pools = {"p"}
  Nodes = {1,2,3}
  Hosts = {1,2,3}
  Quantities <- SomeOrNegative
  RoleSets <- TwoRoles
  DeleteNotReady = TRUE
  Disturbances = {"scale","deleteNode","fail","error","last restart","network","roles","deletePool"}
  MaxChanges = 1
SPECIFICATION FairSpec
INVARIANTS
  TypeOK
  NeverMoreThanAsked
  HostnamesUnique
  RemovedPoolLeavesNothing
  OneRequeuePerNode
PROPERTY
  EventuallyReconciled
