CONSTANTS
  Projects = {1, 2}
  Starts <- None
  Installed <- Two
  MaxVersion = 2
  Rolling = TRUE
  BatchSize = 1
  NoApp = NoApp
  Disturbances = {"upgrade"}
  MaxChanges = 2
SPECIFICATION Spec
INVARIANT
  InstalledIsInstalled
CHECK_DEADLOCK FALSE
