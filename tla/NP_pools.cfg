CONSTANTS
  NoNode = NoNode
  Pools = {"p","q"}
  Nodes = {1,2,3}
  Hosts = {1,2,3}
  Quantities = {1}
  RoleSets <- OneRole
  DeleteNotReady = FALSE
  Disturbances = {"deletePool","error","restart"}
  MaxChanges = 1
SPECIFICATION Spec
INVARIANTS
  NodesKept
