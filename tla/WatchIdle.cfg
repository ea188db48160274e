\* A client whose objects do not change while others do.
CONSTANTS
  Writers = {w1}
  MutableKeys = {1, 2}
  ImmutableKeys = {}
  Specs = {s1}
  Metas = {m1}
  Statuses = {st0}
  InitialStatus = st0
  Runs = {}
  MaxVersion = 2
  Nil = Nil
  Watchers = {c1}
  Scope <- ScopeEven
  PageSize = 2
  KeptPage = "first"
  BatchLimit = 2
  ChannelCap = 1
  MaxDrops = 1
  w1 = w1
  w2 = w2
  c1 = c1
  c2 = c2
SPECIFICATION FairSystem
CHECK_DEADLOCK FALSE
PROPERTIES
  IdleWatcherCheckpoints
