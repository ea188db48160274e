------------------------------ MODULE Migrations ------------------------------
(***************************************************************************)
(* The schema's migrations (internal/store/migrations, applied by goose    *)
(* through store.Migrate) under Keepers that migrate when they start, an   *)
(* operator who runs `hived-keeper migrate`, and the writes of Keepers     *)
(* that serve.                                                             *)
(*                                                                         *)
(* A Keeper or the operator's command is a process:                        *)
(*                                                                         *)
(*   down -> looking -> found -> running -> looking -> ... -> serving      *)
(*                                                                         *)
(*   looking   it reads goose's version                                    *)
(*   found     it is about to run the next migration                       *)
(*   running   that migration's transaction has run its statements, `next` *)
(*             is the schema it will commit                                *)
(*   serving   a Keeper has migrated; the operator's command is over then  *)
(*                                                                         *)
(* goose (external) runs one migration and its own bookkeeping per         *)
(* transaction, and takes no lock of its own: of two processes that run    *)
(* one migration the second waits for the first in a CREATE, and fails     *)
(* when the first has committed.                                           *)
(*                                                                         *)
(* Definitions marked "Wrong:" are bugs, as in PostgresStore.              *)
(***************************************************************************)
EXTENDS Integers, Sequences

CONSTANTS
  Keepers,
  Operator,      \* the process of `hived-keeper migrate`
  Environments,  \* what HIVED_AUTO_MIGRATE may be
  Found,         \* the databases there may be at first, each with the versions
                 \* of its rows
  Nil,
  MaxVersion,    \* bound: nothing is written from this version on
  MaxCommands,   \* bound: commands of the operator
  MaxMishaps     \* bound: kills, failed statements and lost connections

ASSUME MigrationsAssumption ==
  /\ Operator \notin Keepers
  /\ {MaxVersion, MaxCommands, MaxMishaps} \subseteq Nat

\* A sequence starts at 1, not called; what it holds is handed out once it is.
SequenceValues == [last: Nat \ {0}, called: BOOLEAN]

ASSUME NilAssumption == Nil \notin Nat /\ Nil \notin SequenceValues

VARIABLES
  db,         \* the schema
  used,       \* the versions of resources and events, in the order they
              \* were committed
  writing,    \* the version an open transaction has allocated, or Nil
  env,        \* per Keeper, HIVED_AUTO_MIGRATE
  process,
  commands,   \* of the operator so far
  mishaps     \* so far

vars == <<db, used, writing, env, process, commands, mishaps>>

Processes == Keepers \cup {Operator}
Latest == 3

\* Schemas by goose's version: Nil without its table.
Schema(goose, resources, events, sequence, counter) ==
  [goose: goose, resources: {resources}, events: {events}, sequence: sequence,
   counter: counter]

\* The schemas that the migrations lead through.
Schemas ==
       Schema({Nil, 0}, FALSE, FALSE, {Nil}, {Nil})
  \cup Schema({1}, TRUE, FALSE, SequenceValues, {Nil})
  \cup Schema({2}, TRUE, TRUE, SequenceValues, {Nil})
  \cup Schema({3}, TRUE, TRUE, {Nil}, Nat)

EmptyDatabase ==
  [goose |-> Nil, resources |-> FALSE, events |-> FALSE, sequence |-> Nil,
   counter |-> Nil]

\* The versions a database has handed out end here.
HandedOut(d) ==
  IF d.counter # Nil THEN d.counter
  ELSE IF d.sequence = Nil THEN 0
  ELSE IF d.sequence.called THEN d.sequence.last
  ELSE d.sequence.last - 1

ASSUME FoundAssumption ==
  \A f \in Found :
    /\ f.db \in Schemas
    /\ f.used \in Seq(Nat \ {0})
    /\ \A i, j \in DOMAIN f.used : i < j => f.used[i] < f.used[j]
    /\ \A i \in DOMAIN f.used : f.used[i] <= HandedOut(f.db)

Idle == [stage |-> "down", direction |-> "up", target |-> 0, next |-> Nil]

Init ==
  /\ \E f \in Found : db = f.db /\ used = f.used
  /\ writing = Nil
  /\ env \in [Keepers -> Environments]
  /\ process = [p \in Processes |-> Idle]
  /\ commands = 0
  /\ mishaps = 0

-----------------------------------------------------------------------------
(* The migrations. Each makes of a schema another, or fails: Nil.          *)

GooseTable(d) == IF d.goose = Nil THEN [d EXCEPT !.goose = 0] ELSE Nil

Up1(d) ==
  IF d.resources \/ d.sequence # Nil THEN Nil
  ELSE [d EXCEPT !.resources = TRUE, !.sequence = [last |-> 1, called |-> FALSE],
                 !.goose = 1]

Up2(d) == IF d.events THEN Nil ELSE [d EXCEPT !.events = TRUE, !.goose = 2]

\* Wrong: the last value, called or not, less one.
SeedLessOne(s) == s.last - 1

\* What the sequence has handed out so far.
Seed(s) == IF s.called THEN s.last ELSE s.last - 1

Up3(d) ==
  IF d.counter # Nil \/ d.sequence = Nil THEN Nil
  ELSE [d EXCEPT !.counter = Seed(d.sequence), !.sequence = Nil, !.goose = 3]

\* setval: a sequence starts at 1, and counts as called.
Down3(d) ==
  IF d.counter = Nil \/ d.sequence # Nil THEN Nil
  ELSE [d EXCEPT !.sequence = [last |-> IF d.counter > 1 THEN d.counter ELSE 1,
                               called |-> TRUE],
                 !.counter = Nil, !.goose = 2]

Down2(d) == IF d.events THEN [d EXCEPT !.events = FALSE, !.goose = 1] ELSE Nil

Down1(d) ==
  IF d.resources /\ d.sequence # Nil
  THEN [d EXCEPT !.resources = FALSE, !.sequence = Nil, !.goose = 0] ELSE Nil

\* The statements of the migration with this number: 0 is goose's own table,
\* which it makes before it looks any further in either direction.
Statements(d, direction, target) ==
  CASE target = 0 -> GooseTable(d)
    [] direction = "up" /\ target = 1 -> Up1(d)
    [] direction = "up" /\ target = 2 -> Up2(d)
    [] direction = "up" /\ target = 3 -> Up3(d)
    [] direction = "down" /\ target = 1 -> Down1(d)
    [] direction = "down" /\ target = 2 -> Down2(d)
    [] direction = "down" /\ target = 3 -> Down3(d)

-----------------------------------------------------------------------------
(* Processes.                                                              *)

\* The operator's `migrate down` and the Keepers keep out of each other's way.
\* Nothing in the code sees to it: a Keeper that writes while the counter is
\* read and dropped commits a version the sequence will hand out again.
Quiesced ==
  writing = Nil /\ \A k \in Keepers : process[k].stage = "down"
Reverting ==
  process[Operator].stage # "down" /\ process[Operator].direction = "down"

\* config.FromEnv: what strconv.ParseBool takes, TRUE when not set.
Parses(v) == v \in {"", "true", "false"}
AutoMigrate(v) == v # "false"

\* A Keeper is started: with a configuration it cannot read it exits at once.
Start(k) ==
  /\ process[k].stage = "down"
  /\ Parses(env[k])
  /\ ~Reverting
  /\ process' = [process EXCEPT ![k].stage =
       IF AutoMigrate(env[k]) THEN "looking" ELSE "serving"]
  /\ UNCHANGED <<db, used, writing, env, commands, mishaps>>

\* `hived-keeper migrate up`, or `down`; `status` changes nothing, and any
\* other word is refused.
Command ==
  /\ process[Operator].stage = "down"
  /\ commands < MaxCommands
  /\ commands' = commands + 1
  /\ \E direction \in {"up", "down"} :
       /\ direction = "down" => Quiesced
       /\ process' = [process EXCEPT ![Operator] =
            [Idle EXCEPT !.stage = "looking", !.direction = direction]]
  /\ UNCHANGED <<db, used, writing, env, mishaps>>

\* What goose finds to do next: its own table first, Nil when nothing is left.
Upcoming(p) ==
  IF db.goose = Nil THEN 0
  ELSE IF process[p].direction = "up"
  THEN IF db.goose < Latest THEN db.goose + 1 ELSE Nil
  ELSE IF db.goose = 0 THEN Nil ELSE db.goose

Look(p) ==
  /\ process[p].stage = "looking"
  /\ Upcoming(p) # Nil
  /\ process' = [process EXCEPT ![p].stage = "found", ![p].target = Upcoming(p)]
  /\ UNCHANGED <<db, used, writing, env, commands, mishaps>>

\* Whoever has run a CREATE or DROP holds its locks until it ends.
Free == \A q \in Processes : process[q].stage # "running"

\* The statements of the migration, in a transaction of their own.
Run(p) ==
  LET next == Statements(db, process[p].direction, process[p].target) IN
  /\ process[p].stage = "found"
  /\ Free
  /\ next # Nil
  /\ process' = [process EXCEPT ![p].stage = "running", ![p].next = next]
  /\ UNCHANGED <<db, used, writing, env, commands, mishaps>>

\* Its commit. A DROP TABLE has waited for the transactions that write to it.
Commit(p) ==
  /\ process[p].stage = "running"
  /\ writing = Nil
  /\ db' = process[p].next
  /\ used' = IF process[p].next.resources \/ ~db.resources THEN used ELSE <<>>
  /\ process' = [process EXCEPT ![p].next = Nil, ![p].stage =
       IF process[p].direction = "down" /\ process[p].target # 0 THEN "down" ELSE "looking"]
  /\ UNCHANGED <<writing, env, commands, mishaps>>

\* Wrong: the Keeper logs that its migration failed, and goes on.
AfterFailureOn(p) == IF p \in Keepers THEN "serving" ELSE "down"

\* A process whose migration fails exits.
AfterFailure(p) == "down"

Fail(p) == process' = [process EXCEPT ![p] = [Idle EXCEPT !.stage = AfterFailure(p)]]

\* Another process has done what this one was about to do.
Conflict(p) ==
  /\ process[p].stage = "found"
  /\ Free
  /\ Statements(db, process[p].direction, process[p].target) = Nil
  /\ Fail(p)
  /\ UNCHANGED <<db, used, writing, env, commands, mishaps>>

\* A statement fails or its connection is lost: Postgres rolls back.
MigrationFails(p) ==
  /\ process[p].stage \in {"looking", "found", "running"}
  /\ mishaps < MaxMishaps
  /\ mishaps' = mishaps + 1
  /\ Fail(p)
  /\ UNCHANGED <<db, used, writing, env, commands>>

\* Nothing is left to do: a Keeper serves, a command ends.
Migrated(p) ==
  /\ process[p].stage = "looking"
  /\ Upcoming(p) = Nil
  /\ process' = [process EXCEPT ![p] =
       [Idle EXCEPT !.stage = IF p \in Keepers THEN "serving" ELSE "down"]]
  /\ UNCHANGED <<db, used, writing, env, commands, mishaps>>

\* A process is killed, or told to stop.
Killed(p) ==
  /\ process[p].stage # "down"
  /\ mishaps < MaxMishaps
  /\ mishaps' = mishaps + 1
  /\ process' = [process EXCEPT ![p] = Idle]
  /\ UNCHANGED <<db, used, writing, env, commands>>

-----------------------------------------------------------------------------
(* Writes, of whichever Keeper serves: the counter's lock is held from the *)
(* allocation to the end of the transaction, which a kill need not undo.   *)

Allocate ==
  /\ \E k \in Keepers : process[k].stage = "serving"
  /\ db.counter # Nil
  /\ db.counter < MaxVersion
  /\ writing = Nil
  /\ writing' = db.counter + 1
  /\ UNCHANGED <<db, used, env, process, commands, mishaps>>

CommitWrite ==
  /\ writing # Nil
  /\ db' = [db EXCEPT !.counter = writing]
  /\ used' = Append(used, writing)
  /\ writing' = Nil
  /\ UNCHANGED <<env, process, commands, mishaps>>

RollBackWrite ==
  /\ writing # Nil
  /\ writing' = Nil
  /\ UNCHANGED <<db, used, env, process, commands, mishaps>>

Step(p) ==
  Look(p) \/ Run(p) \/ Commit(p) \/ Conflict(p) \/ Migrated(p)

Next ==
  \/ \E k \in Keepers : Start(k)
  \/ Command
  \/ \E p \in Processes : Step(p) \/ MigrationFails(p) \/ Killed(p)
  \/ Allocate
  \/ CommitWrite
  \/ RollBackWrite

\* A process goes on, a transaction ends, and somebody starts a Keeper again.
Fairness ==
  /\ \A k \in Keepers : SF_vars(Start(k))
  /\ \A p \in Processes : SF_vars(Step(p))
  /\ WF_vars(CommitWrite \/ RollBackWrite)

Spec == Init /\ [][Next]_vars /\ Fairness

-----------------------------------------------------------------------------
(* Properties.                                                             *)

\* Versions are handed out in the order they are committed, none twice, through
\* every upgrade and every downgrade that keeps the tables, failed ones
\* included: a watch cursor a client holds stays valid
\* (00003_transactional_resource_version.sql:28-30).
VersionsNeverRepeat ==
  \A i, j \in DOMAIN used : i < j => used[i] < used[j]

\* Every Keeper whose environment is one it can read ends up serving, and if it
\* migrates at start it does so on the latest schema, however many of them
\* start at once, lose the race for a migration, or are killed in one.
EveryKeeperServes ==
  \A k \in Keepers :
    Parses(env[k]) =>
      <>[](process[k].stage = "serving" /\ (AutoMigrate(env[k]) => db.goose = Latest))
=============================================================================
