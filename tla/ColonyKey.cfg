\* One command applies a Colony whose metadata names a colony.
CONSTANTS
  Clients = {x1}
  Watchers = {w1}
  PoolSize = 1
  ChannelCap = 1
  BatchRows = 2
  Manifests <- ColonyInColony
  Nil = Nil
  x1 = x1
  x2 = x2
SPECIFICATION Spec
CHECK_DEADLOCK FALSE
INVARIANTS
  ColonyIsHiveScoped
