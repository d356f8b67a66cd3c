CONSTANTS
  APIs = {a1}
  Configs = {c1, c2}
  FirstConfigs = {c1}
  NoConfig = NoConfig
  Records = {1, 2, 3, 4, 5}
  None = None
  Sync = Sync
  Remover = Remover
  Disturbances = {"reconfigure", "owner", "network", "delete"}
  MaxChanges = 1
SPECIFICATION FairSpec
INVARIANTS
  TypeOK
  NoZombieRecord
  StartedAsAsked
PROPERTIES
  EventuallyServed
  RemovalCompletes
CHECK_DEADLOCK FALSE
