\* Every operation, under the fairness of PostgreSQL's lock queues.
CONSTANTS
  Writers = {w1, w2, w3}
  MutableKeys = {k1}
  ImmutableKeys = {a1}
  Specs = {s1}
  Metas = {m1}
  Statuses = {st0}
  InitialStatus = st0
  Runs = {r1}
  MaxVersion = 1
  Nil = Nil
  w1 = w1
  w2 = w2
  w3 = w3
SPECIFICATION FairSpec
CHECK_DEADLOCK FALSE
PROPERTIES
  EveryCallEnds
