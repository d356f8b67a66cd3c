CONSTANTS
  NoNode = NoNode
  Pools = {"p"}
  Nodes = {1}
  Hosts = {1}
  Quantities = {1}
  RoleSets <- OneRole
  DeleteNotReady = TRUE
  Disturbances = {"network"}
  MaxChanges = 3
SPECIFICATION Spec
INVARIANT
  UnreachableIsWatched
CHECK_DEADLOCK FALSE
