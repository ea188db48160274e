----------------------------- MODULE MCMemoryWatch -----------------------------
(* Instances of MemoryStore and MemoryWatch for TLC.                       *)
EXTENDS MemoryWatch, TLC

CONSTANTS c1, f1, r1, r2, st0

ScopeAll     == [c \in Watchers |-> Keys]
FollowsFirst == [c \in Followers |-> r1]

(* The kinds whose handler sends no status: all but Run.                   *)
SendNone == [k \in Keys |-> Nil]

================================================================================
