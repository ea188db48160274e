\* A client that keeps the last page's watermark.
CONSTANTS
  Writers = {w1}
  MutableKeys = {1, 2}
  ImmutableKeys = {}
  Specs = {s1}
  Metas = {m1}
  Statuses = {st0}
  InitialStatus = st0
  Runs = {}
  MaxVersion = 4
  Nil = Nil
  Watchers = {c1}
  Scope <- ScopeAll
  PageSize = 1
  KeptPage = "last"
  BatchLimit = 2
  ChannelCap = 1
  MaxDrops = 1
  w1 = w1
  w2 = w2
  c1 = c1
  c2 = c2
SPECIFICATION SystemSpec
CHECK_DEADLOCK FALSE
INVARIANTS
  NoGap
