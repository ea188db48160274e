\* Two commands and one stream share a single connection.
CONSTANTS
  Clients = {x1, x2}
  Watchers = {w1}
  PoolSize = 1
  ChannelCap = 1
  BatchRows = 2
  Manifests <- MixedManifests
  Nil = Nil
  x1 = x1
  x2 = x2
SPECIFICATION Spec
CHECK_DEADLOCK FALSE
INVARIANTS
  KeeperTypeOK
  ConnectionsAddUp
  ReportIsTrue
  AgentVersionsAgree
  AppliedIsFound
PROPERTIES
  CommandsEndUntimed
  ConnectionsComeFree
  ShutdownEnds
