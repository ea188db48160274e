\* Two concurrent calls over a mutable and an immutable resource and two logs.
CONSTANTS
  Writers = {w1, w2}
  MutableKeys = {k1}
  ImmutableKeys = {a1}
  Specs = {s1, s2}
  Metas = {m1, m2}
  Statuses = {st0, st1}
  InitialStatus = st0
  Runs = {r1, r2}
  MaxVersion = 3
  Nil = Nil
  w1 = w1
  w2 = w2
  w3 = w3
SPECIFICATION Spec
SYMMETRY Symmetry
CHECK_DEADLOCK FALSE
INVARIANTS
  TypeOK
  VersionNamesOneWrite
  EventLogInOrder
  AppendNeverRejected
PROPERTIES
  ImplementsContract
  WatermarkSeparates
  ConditionalApplyIsAtomic
  StatusAndSpecKeptApart
  GenerationCountsSpecs
  VersionTracksChange
  ImmutableSpecStays
