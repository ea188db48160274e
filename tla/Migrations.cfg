\* Two Keepers and an operator on a new database, or one of the sequence's time.
CONSTANTS
  k1 = k1
  k2 = k2
  Nil = Nil
  Keepers = {k1, k2}
  Operator = Operator
  Environments = {"", "false", "yes"}
  Found <- MCFound
  MaxVersion = 3
  MaxCommands = 2
  MaxMishaps = 1
SPECIFICATION Spec
CHECK_DEADLOCK FALSE
INVARIANT VersionsNeverRepeat
PROPERTY EveryKeeperServes
