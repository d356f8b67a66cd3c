CONSTANTS
  Projects = {1, 2}
  Starts <- One
  Installed <- Two
  MaxVersion = 2
  Rolling = TRUE
  BatchSize = 1
  NoApp = NoApp
  Disturbances = {"upgrade", "targets", "delete", "state", "error", "restart", "helm"}
  MaxChanges = 2
SPECIFICATION FairSpec
INVARIANTS
  TypeOK
  
PROPERTIES
  EventuallySettled
CHECK_DEADLOCK FALSE
