CONSTANTS
  Keys = {k1}
  Handlers = {h1, h2}
  Late = {h2}
  Workers = {w1, w2}
  None = None
  MaxVersion = 2
  MaxFailures = 2
SPECIFICATION FairSpec
INVARIANTS
  TypeOK
  NoLostWork
PROPERTIES
  DeliversAll
CHECK_DEADLOCK FALSE
