CONSTANTS
  APIs = {}
  Configs = {c1, c2}
  FirstConfigs = {c1, c2}
  NoConfig = NoConfig
  Records = {1, 2, 3}
  None = None
  Sync = Sync
  Remover = Remover
  Disturbances = {"delete"}
  MaxChanges = 1
SPECIFICATION FairSpec
INVARIANTS
  RemovedMeansStopped
CHECK_DEADLOCK FALSE
