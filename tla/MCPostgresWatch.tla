---------------------------- MODULE MCPostgresWatch ----------------------------
(* Instances of PostgresWatch for TLC.                                     *)
EXTENDS PostgresWatch, TLC

CONSTANTS w1, w2, c1, c2

Symmetry == Permutations(Writers)

(* Every client selects every key.                                         *)
ScopeAll == [c \in Watchers |-> Keys]

(* Every client selects the even keys only (another colony has the rest).  *)
ScopeEven == [c \in Watchers |-> {k \in Keys : k % 2 = 0}]

================================================================================
