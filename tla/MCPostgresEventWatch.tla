-------------------------- MODULE MCPostgresEventWatch --------------------------
(* Instances of PostgresEventWatch for TLC.                                *)
EXTENDS PostgresEventWatch, TLC

CONSTANTS w1, w2, c1, r1, r2

Symmetry == Permutations(Writers)

(* Every client follows the same run, whatever is appended to others.      *)
FollowsFirst == [c \in Followers |-> r1]

================================================================================
