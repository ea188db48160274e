---------------------------- MODULE MCPostgresStore ----------------------------
(* Instances of PostgresStore for TLC.                                     *)
EXTENDS PostgresStore, TLC

CONSTANTS w1, w2, w3

(* Calls are interchangeable.                                              *)
Symmetry == Permutations(Writers)

================================================================================
