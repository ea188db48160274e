---------------------------- MODULE ResourceContract ----------------------------
(***************************************************************************)
(* What ResourceStore and EventStore promise (internal/store/store.go),    *)
(* with no transaction, lock or snapshot: every call that changes          *)
(* something takes effect at one instant, at a version above every version *)
(* handed out before.                                                      *)
(***************************************************************************)
EXTENDS Integers, Sequences

CONSTANTS MutableKeys, ImmutableKeys, Specs, Metas, Statuses, InitialStatus, Runs, Nil

VARIABLES
  objects,    \* the resource stored under each key, or Nil
  logs,       \* the versions of each run's events, in seq order
  clock       \* the watermark List reports

vars == <<objects, logs, clock>>

Keys == MutableKeys \cup ImmutableKeys

Init ==
  /\ objects = [k \in Keys |-> Nil]
  /\ logs = [r \in Runs |-> <<>>]
  /\ clock = 0

(* Apply of a key that is not there.                                       *)
Create(k) ==
  /\ objects[k] = Nil
  /\ \E s \in Specs, m \in Metas :
       objects' = [objects EXCEPT ![k] =
         [spec |-> s, meta |-> m, status |-> InitialStatus, gen |-> 1, rv |-> clock']]
  /\ UNCHANGED logs

(* Apply of a new spec: only mutable kinds, the generation counts it.      *)
ChangeSpec(k) ==
  /\ objects[k] # Nil
  /\ \E s \in Specs \ {objects[k].spec}, m \in Metas :
       objects' = [objects EXCEPT ![k].spec = s, ![k].meta = m, ![k].rv = clock',
                                  ![k].gen = objects[k].gen + 1]
  /\ UNCHANGED logs

(* Apply of new labels or annotations.                                     *)
ChangeMeta(k) ==
  /\ objects[k] # Nil
  /\ \E m \in Metas \ {objects[k].meta} :
       objects' = [objects EXCEPT ![k].meta = m, ![k].rv = clock']
  /\ UNCHANGED logs

ApplyStatus(k) ==
  /\ objects[k] # Nil
  /\ \E st \in Statuses : objects' = [objects EXCEPT ![k].status = st, ![k].rv = clock']
  /\ UNCHANGED logs

AppendEvent(r) ==
  /\ logs' = [logs EXCEPT ![r] = Append(logs[r], clock')]
  /\ UNCHANGED objects

(* A call that changes nothing may use up a version.                       *)
Skip == UNCHANGED <<objects, logs>>

Next ==
  /\ clock' > clock
  /\ \/ \E k \in Keys : Create(k) \/ ApplyStatus(k)
     \/ \E k \in MutableKeys : ChangeSpec(k) \/ ChangeMeta(k)
     \/ \E r \in Runs : AppendEvent(r)
     \/ Skip

Spec == Init /\ [][Next]_vars

================================================================================
