\* One watcher and one follower of the in-process store.
CONSTANTS
  MutableKeys = {1}
  ImmutableKeys = {2}
  Specs = {s1, s2}
  Metas = {m1}
  Statuses = {st0}
  SentStatus <- SendNone
  Runs = {r1, r2}
  MaxVersion = 3
  Nil = Nil
  Watchers = {c1}
  Scope <- ScopeAll
  Followers = {f1}
  Follows <- FollowsFirst
  PageSize = 1
  ChannelCap = 1
  MaxDrops = 1
  c1 = c1
  f1 = f1
  r1 = r1
  r2 = r2
  st0 = st0
SPECIFICATION FairMemory
CHECK_DEADLOCK FALSE
INVARIANTS
  StreamTypeOK
  LogTellsVersions
  CheckpointCovers
  FollowsInOrder
PROPERTIES
  MirrorsContract
  EveryoneCatchesUp
