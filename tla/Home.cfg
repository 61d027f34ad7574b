SPECIFICATION FairSpec
CONSTANTS
  Entities = {light, sensor}
  Own = {sensor}
  Callers = {c1}
  Connector = Connector
  Loop = Loop
  MaxVersion = 3
  MaxId = 3
INVARIANTS CacheFollows
PROPERTIES RelayedInOrder LoopGoesOn
CHECK_DEADLOCK FALSE
