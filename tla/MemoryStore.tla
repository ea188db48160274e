------------------------------ MODULE MemoryStore ------------------------------
(***************************************************************************)
(* The in-process store the handler tests run on                           *)
(* (internal/store/memory.go).  Every method holds one mutex from its      *)
(* first to its last line, so a call is a single step, and one counter     *)
(* numbers resources and events alike.                                     *)
(*                                                                         *)
(* A call that changes nothing (a conflict, an immutable resource, a key   *)
(* that is not there) has no step: its early return is the guard.          *)
(*                                                                         *)
(* Definitions marked "Wrong:" are bugs, as in PostgresStore.              *)
(***************************************************************************)
EXTENDS Integers, Sequences, FiniteSets

CONSTANTS
  MutableKeys, ImmutableKeys,   \* as in PostgresStore
  Specs, Metas, Statuses,
  SentStatus,       \* the status a key's handler sends with Apply, or Nil
  Runs,
  MaxVersion,       \* bound: no change once this version is handed out
  Nil

Keys == MutableKeys \cup ImmutableKeys

ASSUME MemoryKeysAssumption == MutableKeys \cap ImmutableKeys = {}
ASSUME SentAssumption == SentStatus \in [Keys -> Statuses \cup {Nil}]
ASSUME BoundAssumption == MaxVersion \in Nat

VARIABLES
  resources,    \* the map: the row of each key, or Nil
  log,          \* the change log: a key and a version per change
  events,       \* the events of all runs
  eventSeq,     \* the last seq of each run
  seq           \* the last version handed out

memoryVars == <<resources, log, events, eventSeq, seq>>

Row   == [spec : Specs, meta : Metas, status : Statuses \cup {Nil}, gen : Nat, rv : Nat]
Entry == [key : Keys, rv : Nat]
Event == [run : Runs, seq : Nat, rv : Nat]

ASSUME NilAssumption == Nil \notin Row

(* The place in I that n - 1 others are before.                            *)
Place(I, n) == CHOOSE i \in I : Cardinality({j \in I : j < i}) = n - 1

(* What a loop over s collects at the places in I: in the order of s.      *)
Collected(s, I) == [n \in 1 .. Cardinality(I) |-> s[Place(I, n)]]

Init ==
  /\ resources = [k \in Keys |-> Nil]
  /\ log = <<>>
  /\ events = <<>>
  /\ eventSeq = [r \in Runs |-> 0]
  /\ seq = 0

Changed(k, s, m) ==
  resources[k] # Nil => resources[k].spec # s \/ resources[k].meta # m

(* Wrong: the status of the resource it was given, or none.                *)
StoredDropsStatus(k, s, m) ==
  LET old == resources[k]
  IN  IF old = Nil
        THEN [spec |-> s, meta |-> m, status |-> SentStatus[k], gen |-> 1, rv |-> seq + 1]
        ELSE [old EXCEPT !.spec = s, !.meta = m, !.status = SentStatus[k],
                         !.gen = IF old.spec = s THEN @ ELSE @ + 1,
                         !.rv  = IF Changed(k, s, m) THEN seq + 1 ELSE @]

(* The row Apply stores.  A status sent along replaces the stored one; the *)
(* version and the generation do not count that.                           *)
Stored(k, s, m) ==
  LET old == resources[k]
  IN  IF old = Nil
        THEN [spec |-> s, meta |-> m, status |-> SentStatus[k], gen |-> 1, rv |-> seq + 1]
        ELSE [spec   |-> s,
              meta   |-> m,
              status |-> IF SentStatus[k] = Nil THEN old.status ELSE SentStatus[k],
              gen    |-> IF old.spec = s THEN old.gen ELSE old.gen + 1,
              rv     |-> IF Changed(k, s, m) THEN seq + 1 ELSE old.rv]

(* An immutable resource that is there is never stored again; a condition  *)
(* fails when the resource is absent or has another version.               *)
Apply(k, s, m, ifRV) ==
  /\ seq < MaxVersion
  /\ k \in ImmutableKeys => resources[k] = Nil
  /\ ifRV # Nil => resources[k] # Nil /\ resources[k].rv = ifRV
  /\ resources' = [resources EXCEPT ![k] = Stored(k, s, m)]
  /\ \/ /\ Changed(k, s, m)
        /\ seq' = seq + 1
        /\ log' = Append(log, [key |-> k, rv |-> seq + 1])
     \/ /\ ~Changed(k, s, m)
        /\ UNCHANGED <<seq, log>>
  /\ UNCHANGED <<events, eventSeq>>

(* Wrong: the status is stored and nothing is logged.                      *)
ApplyStatusUnlogged(k, st) ==
  /\ seq < MaxVersion
  /\ resources[k] # Nil
  /\ seq' = seq + 1
  /\ resources' = [resources EXCEPT ![k].status = st, ![k].rv = seq + 1]
  /\ UNCHANGED <<log, events, eventSeq>>

ApplyStatus(k, st) ==
  /\ seq < MaxVersion
  /\ resources[k] # Nil
  /\ seq' = seq + 1
  /\ resources' = [resources EXCEPT ![k].status = st, ![k].rv = seq + 1]
  /\ log' = Append(log, [key |-> k, rv |-> seq + 1])
  /\ UNCHANGED <<events, eventSeq>>

AppendEvent(r) ==
  /\ seq < MaxVersion
  /\ seq' = seq + 1
  /\ eventSeq' = [eventSeq EXCEPT ![r] = eventSeq[r] + 1]
  /\ events' = Append(events, [run |-> r, seq |-> eventSeq[r] + 1, rv |-> seq + 1])
  /\ UNCHANGED <<resources, log>>

Next ==
  \/ \E k \in Keys, s \in Specs, m \in Metas, ifRV \in 1 .. seq \cup {Nil} : Apply(k, s, m, ifRV)
  \/ \E k \in Keys, st \in Statuses : ApplyStatus(k, st)
  \/ \E r \in Runs : AppendEvent(r)

Spec == Init /\ [][Next]_memoryVars

--------------------------------------------------------------------------------
EventsOf(r) == Collected(events, {i \in DOMAIN events : events[i].run = r})

TypeOK ==
  /\ resources \in [Keys -> Row \cup {Nil}]
  /\ log \in Seq(Entry)
  /\ events \in Seq(Event)
  /\ eventSeq \in [Runs -> Nat]
  /\ seq \in Nat

(* The change log, which is all Watch looks at, is in version order and    *)
(* says of every resource which version it is in; a watcher past the       *)
(* store's counter has nothing left to see.                                *)
LogTellsVersions ==
  /\ \A i, j \in DOMAIN log : i < j => log[i].rv < log[j].rv
  /\ \A i \in DOMAIN log : log[i].rv <= seq
  /\ \A k \in Keys : resources[k] # Nil =>
       \E i \in DOMAIN log :
         /\ log[i].key = k /\ log[i].rv = resources[k].rv
         /\ \A j \in DOMAIN log : log[j].key = k => j <= i

(* The contract of the production store, for handlers that send no status: *)
(* a resource has none until ApplyStatus gives it one.                     *)
Contract == INSTANCE ResourceContract WITH
  objects       <- resources,
  logs          <- [r \in Runs |-> [n \in 1 .. Len(EventsOf(r)) |-> EventsOf(r)[n].rv]],
  clock         <- seq,
  InitialStatus <- Nil

MirrorsContract == Contract!Spec

================================================================================
