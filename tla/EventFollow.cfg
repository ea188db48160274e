\* A client following one run while two appenders write to two.
CONSTANTS
  Writers = {w1, w2}
  MutableKeys = {}
  ImmutableKeys = {}
  Specs = {s1}
  Metas = {m1}
  Statuses = {st0}
  InitialStatus = st0
  Runs = {r1, r2}
  MaxVersion = 3
  Nil = Nil
  Followers = {c1}
  Follows <- FollowsFirst
  Limit = 2
  BatchLimit = 2
  ChannelCap = 2
  MaxDrops = 1
  w1 = w1
  w2 = w2
  c1 = c1
  r1 = r1
  r2 = r2
SPECIFICATION FairLog
CHECK_DEADLOCK FALSE
PROPERTIES
  EveryEventArrives
INVARIANTS
  FollowTypeOK
  ReceivedIsPrefix
