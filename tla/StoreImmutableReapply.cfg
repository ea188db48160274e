\* Two first Applies of one AgentVersion.
CONSTANTS
  Writers = {w1, w2}
  MutableKeys = {}
  ImmutableKeys = {a1}
  Specs = {s1, s2}
  Metas = {m1}
  Statuses = {st0}
  InitialStatus = st0
  Runs = {}
  MaxVersion = 2
  Nil = Nil
  w1 = w1
  w2 = w2
  w3 = w3
SPECIFICATION Spec
CHECK_DEADLOCK FALSE
INVARIANTS
  IdenticalReapplySucceeds
