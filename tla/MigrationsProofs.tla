-------------------------- MODULE MigrationsProofs --------------------------
(***************************************************************************)
(* Versions never repeat, whatever Keepers and the operator migrate,       *)
(* however many of them there are and however often they fail.             *)
(*                                                                         *)
(* VersionsNeverRepeat says nothing of the version to come.  Inductive     *)
(* adds where it comes from: the counter or the sequence covers every      *)
(* version used, a write in flight has the next one, and a migration in    *)
(* flight still is what its statements would make of the schema, since     *)
(* whoever writes needs the counter, an upgrade needs it not to be there   *)
(* yet, and a downgrade has the database to itself.                        *)
(***************************************************************************)
EXTENDS Migrations, TLAPS

Stages == {"down", "looking", "found", "running", "serving"}

ProcessStates ==
  [stage: Stages, direction: {"up", "down"}, target: 0 .. 3, next: Schemas \cup {Nil}]

Typed ==
  /\ db \in Schemas
  /\ used \in Seq(Nat \ {0})
  /\ writing \in Nat \cup {Nil}
  /\ process \in [Processes -> ProcessStates]

\* Every version used is covered by what the database has handed out.
Covered == \A i \in DOMAIN used : used[i] <= HandedOut(db)

\* A write in flight has the counter's next value.
WritesNext == writing # Nil => db.counter # Nil /\ writing = db.counter + 1

\* Keepers only upgrade, and not while the operator downgrades.
KeptApart ==
  /\ \A k \in Keepers : process[k].direction = "up"
  /\ Reverting => Quiesced

Made(p) == Statements(db, process[p].direction, process[p].target)

\* A migration in flight is alone, and is what its statements still make.
RunsAlone ==
  /\ \A p \in Processes : process[p].stage = "running" =>
       process[p].next # Nil /\ process[p].next = Made(p)
  /\ \A p, q \in Processes :
       process[p].stage = "running" /\ process[q].stage = "running" => p = q

\* How far a schema has come, -1 without goose's table.
Level(d) == IF d.goose = Nil THEN -1 ELSE d.goose

\* The migration follows what is there, or for an upgrade was there once.
Aims(d, dir, n) == IF dir = "up" THEN n - 1 <= Level(d) ELSE d.goose = IF n = 0 THEN Nil ELSE n

Aimed ==
  \A p \in Processes : process[p].stage \in {"found", "running"} =>
    Aims(db, process[p].direction, process[p].target)

Inductive ==
  Typed /\ VersionsNeverRepeat /\ Covered /\ WritesNext /\ KeptApart
  /\ RunsAlone /\ Aimed

-----------------------------------------------------------------------------
(* The migrations themselves.                                              *)

\* A schema by its fields.
FromFields(g, r, e, s, c) ==
  [goose |-> g, resources |-> r, events |-> e, sequence |-> s, counter |-> c]

Fits(g, r, e, s, c) ==
  \/ g \in {Nil, 0} /\ r = FALSE /\ e = FALSE /\ s = Nil /\ c = Nil
  \/ g = 1 /\ r = TRUE /\ e = FALSE /\ s \in SequenceValues /\ c = Nil
  \/ g = 2 /\ r = TRUE /\ e = TRUE /\ s \in SequenceValues /\ c = Nil
  \/ g = 3 /\ r = TRUE /\ e = TRUE /\ s = Nil /\ c \in Nat

\* A schema fits, and is the record of its fields.
LEMMA SchemaByFields ==
  ASSUME NEW d \in Schemas
  PROVE  /\ Fits(d.goose, d.resources, d.events, d.sequence, d.counter)
         /\ d = FromFields(d.goose, d.resources, d.events, d.sequence, d.counter)
BY DEF Schemas, Schema, Fits, FromFields

\* Fields that fit make a schema.
LEMMA FieldsMakeSchema ==
  ASSUME NEW g, NEW r, NEW e, NEW s, NEW c, Fits(g, r, e, s, c)
  PROVE  FromFields(g, r, e, s, c) \in Schemas
BY DEF Schemas, Schema, Fits, FromFields

\* A migration that does not fail makes another of the schemas, and takes back
\* no version unless it drops the table of resources.
LEMMA MigrationKeepsVersions ==
  ASSUME NEW d \in Schemas, NEW dir \in {"up", "down"}, NEW n \in 0 .. 3,
         Aims(d, dir, n), Statements(d, dir, n) # Nil
  PROVE  /\ Statements(d, dir, n) \in Schemas
         /\ \/ /\ HandedOut(Statements(d, dir, n)) >= HandedOut(d)
               /\ Statements(d, dir, n).resources \/ ~d.resources
            \/ d.resources /\ ~Statements(d, dir, n).resources
         /\ dir = "up" => Level(Statements(d, dir, n)) >= Level(d)
<1> USE NilAssumption
<1> DEFINE made == Statements(d, dir, n)
<1>a. Fits(d.goose, d.resources, d.events, d.sequence, d.counter)
  BY SchemaByFields
<1>b. d = FromFields(d.goose, d.resources, d.events, d.sequence, d.counter)
  BY SchemaByFields
<1>c. made # Nil
  OBVIOUS
<1> HIDE DEF made
<1>1. CASE n = 0
  <2>1. made = GooseTable(d)
    BY <1>1 DEF Statements, made
  <2>2. /\ d.goose \in {Nil}
        /\ d.resources = FALSE
        /\ d.events = FALSE
        /\ d.sequence = Nil
        /\ d.counter = Nil
    BY <2>1, <1>a, <1>c, <1>1 DEF GooseTable, Fits, Aims, Level
  <2>3. made = FromFields(0, FALSE, FALSE, Nil, Nil)
    BY <2>1, <2>2, <1>b, <1>c DEF GooseTable, FromFields
  <2>4. Fits(0, FALSE, FALSE, Nil, Nil)
    BY <2>2 DEF Fits
  <2>5. made \in Schemas
    BY <2>3, <2>4, FieldsMakeSchema
  <2>6. HandedOut(made) >= HandedOut(d) /\ (made.resources \/ ~d.resources)
    BY <2>2, <2>3 DEF FromFields, HandedOut
  <2>7. dir = "up" => Level(made) >= Level(d)
    BY <2>2, <2>3, <1>1 DEF FromFields, Level
  <2> QED BY <2>5, <2>6, <2>7 DEF made
<1>2. CASE dir = "up" /\ n = 1
  <2>1. made = Up1(d)
    BY <1>2 DEF Statements, made
  <2>2. /\ d.goose = 0
        /\ d.resources = FALSE
        /\ d.events = FALSE
        /\ d.sequence = Nil
        /\ d.counter = Nil
    BY <2>1, <1>a, <1>c, <1>2 DEF Up1, Fits, Aims, Level
  <2>3. made = FromFields(1, TRUE, FALSE, [last |-> 1, called |-> FALSE], Nil)
    BY <2>1, <2>2, <1>b, <1>c DEF Up1, FromFields
  <2>4. Fits(1, TRUE, FALSE, [last |-> 1, called |-> FALSE], Nil)
    BY <2>2 DEF Fits, SequenceValues
  <2>5. made \in Schemas
    BY <2>3, <2>4, FieldsMakeSchema
  <2>6. HandedOut(made) >= HandedOut(d) /\ (made.resources \/ ~d.resources)
    BY <2>2, <2>3 DEF FromFields, HandedOut, SequenceValues
  <2>7. dir = "up" => Level(made) >= Level(d)
    BY <2>2, <2>3, <1>2 DEF FromFields, Level
  <2> QED BY <2>5, <2>6, <2>7 DEF made
<1>3. CASE dir = "up" /\ n = 2
  <2>1. made = Up2(d)
    BY <1>3 DEF Statements, made
  <2>2. /\ d.goose = 1
        /\ d.resources = TRUE
        /\ d.events = FALSE
        /\ d.sequence \in SequenceValues
        /\ d.counter = Nil
    BY <2>1, <1>a, <1>c, <1>3 DEF Up2, Fits, Aims, Level
  <2>3. made = FromFields(2, TRUE, TRUE, d.sequence, Nil)
    BY <2>1, <2>2, <1>b, <1>c DEF Up2, FromFields
  <2>4. Fits(2, TRUE, TRUE, d.sequence, Nil)
    BY <2>2 DEF Fits, SequenceValues
  <2>5. made \in Schemas
    BY <2>3, <2>4, FieldsMakeSchema
  <2>6. HandedOut(made) >= HandedOut(d) /\ (made.resources \/ ~d.resources)
    BY <2>2, <2>3 DEF FromFields, HandedOut, SequenceValues
  <2>7. dir = "up" => Level(made) >= Level(d)
    BY <2>2, <2>3, <1>3 DEF FromFields, Level
  <2> QED BY <2>5, <2>6, <2>7 DEF made
<1>4. CASE dir = "up" /\ n = 3
  <2>1. made = Up3(d)
    BY <1>4 DEF Statements, made
  <2>2. /\ d.goose = 2
        /\ d.resources = TRUE
        /\ d.events = TRUE
        /\ d.sequence \in SequenceValues
        /\ d.counter = Nil
    BY <2>1, <1>a, <1>c, <1>4 DEF Up3, Fits, Aims, Level
  <2>3. made = FromFields(3, TRUE, TRUE, Nil, Seed(d.sequence))
    BY <2>1, <2>2, <1>b, <1>c DEF Up3, FromFields
  <2>4. Fits(3, TRUE, TRUE, Nil, Seed(d.sequence))
    BY <2>2 DEF Fits, SequenceValues, Seed
  <2>5. made \in Schemas
    BY <2>3, <2>4, FieldsMakeSchema
  <2>6. HandedOut(made) >= HandedOut(d) /\ (made.resources \/ ~d.resources)
    BY <2>2, <2>3 DEF FromFields, HandedOut, SequenceValues, Seed
  <2>7. dir = "up" => Level(made) >= Level(d)
    BY <2>2, <2>3, <1>4 DEF FromFields, Level
  <2> QED BY <2>5, <2>6, <2>7 DEF made
<1>5. CASE dir = "down" /\ n = 1
  <2>1. made = Down1(d)
    BY <1>5 DEF Statements, made
  <2>2. /\ d.goose = 1
        /\ d.resources = TRUE
        /\ d.events = FALSE
        /\ d.sequence \in SequenceValues
        /\ d.counter = Nil
    BY <2>1, <1>a, <1>c, <1>5 DEF Down1, Fits, Aims, Level
  <2>3. made = FromFields(0, FALSE, FALSE, Nil, Nil)
    BY <2>1, <2>2, <1>b, <1>c DEF Down1, FromFields
  <2>4. Fits(0, FALSE, FALSE, Nil, Nil)
    BY <2>2 DEF Fits
  <2>5. made \in Schemas
    BY <2>3, <2>4, FieldsMakeSchema
  <2>6. d.resources /\ ~made.resources
    BY <2>2, <2>3 DEF FromFields, HandedOut
  <2>7. dir = "up" => Level(made) >= Level(d)
    BY <2>2, <2>3, <1>5 DEF FromFields, Level
  <2> QED BY <2>5, <2>6, <2>7 DEF made
<1>6. CASE dir = "down" /\ n = 2
  <2>1. made = Down2(d)
    BY <1>6 DEF Statements, made
  <2>2. /\ d.goose = 2
        /\ d.resources = TRUE
        /\ d.events = TRUE
        /\ d.sequence \in SequenceValues
        /\ d.counter = Nil
    BY <2>1, <1>a, <1>c, <1>6 DEF Down2, Fits, Aims, Level
  <2>3. made = FromFields(1, TRUE, FALSE, d.sequence, Nil)
    BY <2>1, <2>2, <1>b, <1>c DEF Down2, FromFields
  <2>4. Fits(1, TRUE, FALSE, d.sequence, Nil)
    BY <2>2 DEF Fits, SequenceValues
  <2>5. made \in Schemas
    BY <2>3, <2>4, FieldsMakeSchema
  <2>6. HandedOut(made) >= HandedOut(d) /\ (made.resources \/ ~d.resources)
    BY <2>2, <2>3 DEF FromFields, HandedOut, SequenceValues
  <2>7. dir = "up" => Level(made) >= Level(d)
    BY <2>2, <2>3, <1>6 DEF FromFields, Level
  <2> QED BY <2>5, <2>6, <2>7 DEF made
<1>7. CASE dir = "down" /\ n = 3
  <2>1. made = Down3(d)
    BY <1>7 DEF Statements, made
  <2>2. /\ d.goose = 3
        /\ d.resources = TRUE
        /\ d.events = TRUE
        /\ d.sequence = Nil
        /\ d.counter \in Nat
    BY <2>1, <1>a, <1>c, <1>7 DEF Down3, Fits, Aims, Level
  <2> DEFINE last == IF d.counter > 1 THEN d.counter ELSE 1
             values == [last |-> last, called |-> TRUE]
  <2>n. last \in Nat \ {0} /\ last >= d.counter
    BY <2>2
  <2>3. made = FromFields(2, TRUE, TRUE, values, Nil)
    BY <2>1, <2>2, <1>b, <1>c DEF Down3, FromFields
  <2> HIDE DEF last
  <2>m. values \in SequenceValues
    BY <2>n DEF SequenceValues
  <2>v. values.last = last /\ values.called = TRUE
    OBVIOUS
  <2> HIDE DEF values
  <2>s. values \in SequenceValues /\ values # Nil
    BY <2>m
  <2>4. Fits(2, TRUE, TRUE, values, Nil)
    BY <2>n, <2>s DEF Fits
  <2>5. made \in Schemas
    BY <2>3, <2>4, FieldsMakeSchema
  <2>6. HandedOut(made) >= HandedOut(d) /\ (made.resources \/ ~d.resources)
    <3>1. made.counter = Nil /\ made.sequence = values /\ made.resources
      BY <2>3 DEF FromFields
    <3>2. HandedOut(made) = last
      BY <3>1, <2>s, <2>v DEF HandedOut
    <3>3. HandedOut(d) = d.counter
      BY <2>2 DEF HandedOut
    <3> QED BY <3>1, <3>2, <3>3, <2>n
  <2>7. dir = "up" => Level(made) >= Level(d)
    BY <2>2, <2>3, <1>7 DEF FromFields, Level
  <2> QED BY <2>5, <2>6, <2>7 DEF made
<1> QED BY <1>1, <1>2, <1>3, <1>4, <1>5, <1>6, <1>7 DEF made

\* What a schema has handed out is a number.
LEMMA HandedOutIsInt == ASSUME NEW d \in Schemas PROVE HandedOut(d) \in Int
<1>1. Fits(d.goose, d.resources, d.events, d.sequence, d.counter)
  BY SchemaByFields
<1>2. d.counter \in Nat \cup {Nil} /\ d.sequence \in SequenceValues \cup {Nil}
  BY <1>1 DEF Fits
<1> QED BY <1>2 DEF HandedOut, SequenceValues

\* How far it has come is one as well.
LEMMA LevelIsInt == ASSUME NEW d \in Schemas PROVE Level(d) \in Int
<1>1. Fits(d.goose, d.resources, d.events, d.sequence, d.counter)
  BY SchemaByFields
<1>2. d.goose \in {Nil, 0, 1, 2, 3}
  BY <1>1 DEF Fits
<1> QED BY <1>2 DEF Level

\* With the counter there is nothing left to upgrade.
LEMMA CounterIsLatest ==
  ASSUME NEW d \in Schemas, d.counter # Nil, NEW n \in 0 .. 3
  PROVE  Statements(d, "up", n) = Nil
<1>1. /\ d.goose = 3 /\ d.resources = TRUE /\ d.events = TRUE
      /\ d.sequence = Nil /\ d.counter \in Nat
  BY SchemaByFields DEF Fits
<1>2. /\ GooseTable(d) = Nil /\ Up1(d) = Nil /\ Up2(d) = Nil /\ Up3(d) = Nil
  BY <1>1, NilAssumption DEF GooseTable, Up1, Up2, Up3
<1> QED BY <1>2 DEF Statements

-----------------------------------------------------------------------------
(* Steps of processes that leave the database alone.                       *)

\* What a process may become without disturbing the invariant.
Becomes(p, s) ==
  /\ p \in Keepers => s.direction = "up" /\ (s.stage # "down" => ~Reverting)
  /\ p = Operator /\ s.stage # "down" /\ s.direction = "down" => Quiesced
  /\ s.stage \in {"found", "running"} => Aims(db, s.direction, s.target)
  /\ s.stage = "running" =>
       Free /\ s.next # Nil /\ s.next = Statements(db, s.direction, s.target)

\* A process that becomes such a thing leaves the invariant as it was.
LEMMA ProcessMoves ==
  ASSUME Inductive, NEW p \in Processes, NEW s \in ProcessStates, Becomes(p, s),
         process' = [process EXCEPT ![p] = s], UNCHANGED <<db, used, writing>>
  PROVE  Inductive'
<1>1. /\ process \in [Processes -> ProcessStates]
      /\ process'[p] = s
      /\ \A q \in Processes \ {p} : process'[q] = process[q]
  BY DEF Inductive, Typed
<1>2. Typed'
  BY <1>1 DEF Inductive, Typed
<1>3. VersionsNeverRepeat' /\ Covered' /\ WritesNext'
  BY DEF Inductive, VersionsNeverRepeat, Covered, WritesNext
<1>4. KeptApart'
  <2>1. \A k \in Keepers : process'[k].direction = "up"
    BY <1>1 DEF Becomes, Inductive, KeptApart, Processes
  <2>2. ASSUME Reverting' PROVE Quiesced'
    <3>1. CASE p = Operator
      <4>1. Quiesced
        BY <1>1, <2>2, <3>1 DEF Becomes, Reverting
      <4> QED BY <1>1, <3>1, <4>1, MigrationsAssumption DEF Quiesced, Processes
    <3>2. CASE p # Operator
      <4>1. Reverting /\ p \in Keepers
        BY <1>1, <2>2, <3>2 DEF Reverting, Processes
      <4>2. Quiesced /\ s.stage = "down"
        BY <4>1 DEF Inductive, KeptApart, Becomes
      <4> QED BY <1>1, <4>2 DEF Quiesced, Processes
    <3> QED BY <3>1, <3>2
  <2> QED BY <2>1, <2>2 DEF KeptApart
<1>5. RunsAlone'
  <2>1. \A q \in Processes : process'[q].stage = "running" =>
          process'[q].next # Nil /\ process'[q].next = Made(q)'
    BY <1>1 DEF Inductive, RunsAlone, Becomes, Made
  <2>2. \A q, r \in Processes :
          process'[q].stage = "running" /\ process'[r].stage = "running" => q = r
    BY <1>1 DEF Inductive, RunsAlone, Becomes, Free
  <2> QED BY <2>1, <2>2 DEF RunsAlone
<1>6. Aimed'
  BY <1>1 DEF Inductive, Aimed, Becomes
<1> QED BY <1>2, <1>3, <1>4, <1>5, <1>6 DEF Inductive

\* A process that fails, ends, is killed or starts to serve.
LEMMA Settles ==
  ASSUME Inductive, NEW p \in Processes, NEW stage \in {"down", "serving"},
         stage = "serving" => p \in Keepers /\ ~Reverting,
         process' = [process EXCEPT ![p] = [Idle EXCEPT !.stage = stage]],
         UNCHANGED <<db, used, writing>>
  PROVE  Inductive'
<1> DEFINE s == [Idle EXCEPT !.stage = stage]
<1>1. s \in ProcessStates /\ s.stage = stage /\ s.direction = "up"
  BY DEF Idle, ProcessStates, Stages
<1> HIDE DEF s
<1>2. Becomes(p, s)
  BY <1>1 DEF Becomes
<1>3. process' = [process EXCEPT ![p] = s]
  BY DEF s
<1> QED BY <1>1, <1>2, <1>3, ProcessMoves

\* Keepers in action and a downgrade exclude each other.
LEMMA BusyKeepsApart ==
  ASSUME Inductive, NEW p \in Processes, process[p].stage # "down"
  PROVE  /\ p \in Keepers => process[p].direction = "up" /\ ~Reverting
         /\ p = Operator /\ process[p].direction = "down" => Quiesced
BY DEF Inductive, KeptApart, Quiesced, Reverting

-----------------------------------------------------------------------------
(* One lemma per action.                                                   *)

\* A database that is found has only used versions it has handed out.
LEMMA InitInductive == Init => Inductive
<1> SUFFICES ASSUME Init PROVE Inductive
  OBVIOUS
<1>1. PICK f \in Found : db = f.db /\ used = f.used
  BY DEF Init
<1>2. \A p \in Processes : process[p] = Idle
  BY DEF Init
<1>3. Idle \in ProcessStates /\ Idle.stage = "down" /\ Idle.direction = "up"
  BY DEF Idle, ProcessStates, Stages
<1>4. Typed
  BY <1>1, <1>3, FoundAssumption DEF Init, Typed
<1>5. VersionsNeverRepeat /\ Covered
  BY <1>1, FoundAssumption DEF VersionsNeverRepeat, Covered
<1>6. WritesNext
  BY DEF Init, WritesNext
<1>7. KeptApart /\ RunsAlone /\ Aimed
  BY <1>2, <1>3 DEF KeptApart, Reverting, Processes, RunsAlone, Aimed
<1> QED BY <1>4, <1>5, <1>6, <1>7 DEF Inductive

\* A Keeper starts only while nobody downgrades (runServe).
LEMMA StartKeeps ==
  ASSUME Inductive, NEW k \in Keepers, Start(k)
  PROVE  Inductive'
<1> DEFINE stage == IF AutoMigrate(env[k]) THEN "looking" ELSE "serving"
           s == [process[k] EXCEPT !.stage = stage]
<1>1. k \in Processes /\ process[k] \in ProcessStates /\ process[k].direction = "up"
  BY DEF Processes, Inductive, Typed, KeptApart
<1>2. s \in ProcessStates /\ s.direction = "up" /\ s.stage \in {"looking", "serving"}
  BY <1>1 DEF ProcessStates, Stages
<1>3. process' = [process EXCEPT ![k] = s] /\ UNCHANGED <<db, used, writing>>
  BY DEF Start
<1>4. ~Reverting /\ k # Operator
  BY MigrationsAssumption DEF Start
<1> HIDE DEF s
<1>5. Becomes(k, s)
  BY <1>2, <1>4 DEF Becomes
<1> QED BY <1>1, <1>2, <1>3, <1>5, ProcessMoves

\* The operator's command starts to look (runMigrate).
LEMMA CommandKeeps == ASSUME Inductive, Command PROVE Inductive'
<1>1. PICK direction \in {"up", "down"} :
        /\ direction = "down" => Quiesced
        /\ process' = [process EXCEPT ![Operator] =
             [Idle EXCEPT !.stage = "looking", !.direction = direction]]
  BY DEF Command
<1> DEFINE s == [Idle EXCEPT !.stage = "looking", !.direction = direction]
<1>2. s \in ProcessStates /\ s.stage = "looking" /\ s.direction = direction
  <2>1. Idle \in ProcessStates
    BY DEF Idle, ProcessStates, Stages
  <2> QED BY <2>1 DEF ProcessStates, Stages
<1>3. process' = [process EXCEPT ![Operator] = s] /\ UNCHANGED <<db, used, writing>>
  BY <1>1 DEF Command
<1> HIDE DEF s
<1>4. Becomes(Operator, s)
  BY <1>1, <1>2, MigrationsAssumption DEF Becomes
<1> QED BY <1>2, <1>3, <1>4, ProcessMoves DEF Processes

\* What a process finds to do follows what is there.
LEMMA LookKeeps ==
  ASSUME Inductive, NEW p \in Processes, Look(p)
  PROVE  Inductive'
<1> DEFINE s == [process[p] EXCEPT !.stage = "found", !.target = Upcoming(p)]
<1>1. /\ process[p] \in ProcessStates /\ db \in Schemas
      /\ process[p].stage = "looking" /\ Upcoming(p) # Nil
  BY DEF Inductive, Typed, Look
<1>2. db.goose \in {Nil, 0, 1, 2, 3}
  <2>1. Fits(db.goose, db.resources, db.events, db.sequence, db.counter)
    BY <1>1, SchemaByFields
  <2> QED BY <2>1 DEF Fits
<1>3. Upcoming(p) \in 0 .. 3 /\ Aims(db, process[p].direction, Upcoming(p))
  <2>1. process[p].direction \in {"up", "down"}
    BY <1>1 DEF ProcessStates
  <2>2. CASE db.goose = Nil
    BY <2>1, <2>2 DEF Upcoming, Aims, Level
  <2>3. CASE db.goose # Nil /\ process[p].direction = "up"
    <3>1. db.goose \in 0 .. 2 /\ Upcoming(p) = db.goose + 1
      BY <1>1, <1>2, <2>3 DEF Upcoming, Latest
    <3> QED BY <2>3, <3>1 DEF Aims, Level
  <2>4. CASE db.goose # Nil /\ process[p].direction = "down"
    <3>1. db.goose \in 1 .. 3 /\ Upcoming(p) = db.goose
      BY <1>1, <1>2, <2>4 DEF Upcoming
    <3> QED BY <2>4, <3>1 DEF Aims
  <2> QED BY <2>1, <2>2, <2>3, <2>4
<1>4. /\ s \in ProcessStates /\ s.stage = "found" /\ s.target = Upcoming(p)
      /\ s.direction = process[p].direction
  BY <1>1, <1>3 DEF ProcessStates, Stages
<1>5. process' = [process EXCEPT ![p] = s] /\ UNCHANGED <<db, used, writing>>
  BY DEF Look
<1> HIDE DEF s
<1>6. Becomes(p, s)
  BY <1>1, <1>3, <1>4, BusyKeepsApart DEF Becomes
<1> QED BY <1>4, <1>5, <1>6, ProcessMoves

\* Statements run alone, and what they make is kept for the commit.
LEMMA RunKeeps ==
  ASSUME Inductive, NEW p \in Processes, Run(p)
  PROVE  Inductive'
<1> DEFINE next == Statements(db, process[p].direction, process[p].target)
           s == [process[p] EXCEPT !.stage = "running", !.next = next]
<1>1. /\ process[p] \in ProcessStates /\ db \in Schemas
      /\ process[p].stage = "found" /\ next # Nil /\ Free
  BY DEF Inductive, Typed, Run
<1>2. Aims(db, process[p].direction, process[p].target)
  BY <1>1 DEF Inductive, Aimed
<1>3. process[p].direction \in {"up", "down"} /\ process[p].target \in 0 .. 3
  BY <1>1 DEF ProcessStates
<1>4. next \in Schemas
  BY <1>1, <1>2, <1>3, MigrationKeepsVersions
<1>5. process' = [process EXCEPT ![p] = s] /\ UNCHANGED <<db, used, writing>>
  BY DEF Run
<1> HIDE DEF next
<1>6. /\ s \in ProcessStates /\ s.stage = "running" /\ s.next = next
      /\ s.direction = process[p].direction /\ s.target = process[p].target
  BY <1>1, <1>4 DEF ProcessStates, Stages
<1> HIDE DEF s
<1>7. Becomes(p, s)
  BY <1>1, <1>2, <1>6, BusyKeepsApart DEF Becomes, next
<1> QED BY <1>5, <1>6, <1>7, ProcessMoves

\* A process whose migration fails leaves no trace.
LEMMA FailKeeps ==
  ASSUME Inductive, NEW p \in Processes, Fail(p), UNCHANGED <<db, used, writing>>
  PROVE  Inductive'
<1>1. process' = [process EXCEPT ![p] = [Idle EXCEPT !.stage = "down"]]
  BY DEF Fail, AfterFailure
<1> QED BY <1>1, Settles

\* Neither does one that is killed.
LEMMA KilledKeeps ==
  ASSUME Inductive, NEW p \in Processes, Killed(p)
  PROVE  Inductive'
<1>1. Idle = [Idle EXCEPT !.stage = "down"]
  BY DEF Idle
<1>2. process' = [process EXCEPT ![p] = [Idle EXCEPT !.stage = "down"]]
  BY <1>1 DEF Killed
<1> QED BY <1>2, Settles DEF Killed

\* A process with nothing left to migrate serves, or ends.
LEMMA MigratedKeeps ==
  ASSUME Inductive, NEW p \in Processes, Migrated(p)
  PROVE  Inductive'
<1> DEFINE stage == IF p \in Keepers THEN "serving" ELSE "down"
<1>1. process' = [process EXCEPT ![p] = [Idle EXCEPT !.stage = stage]]
  BY DEF Migrated
<1>2. stage = "serving" => p \in Keepers /\ ~Reverting
  BY BusyKeepsApart DEF Migrated
<1>3. stage \in {"down", "serving"}
  OBVIOUS
<1> HIDE DEF stage
<1> QED BY <1>1, <1>2, <1>3, Settles DEF Migrated

\* While a migration runs on a schema with the counter, nobody writes.
LEMMA RunningStopsWrites ==
  ASSUME Inductive, NEW p \in Processes, process[p].stage = "running", db.counter # Nil
  PROVE  Quiesced
<1>1. /\ db \in Schemas /\ process[p] \in ProcessStates
      /\ Statements(db, process[p].direction, process[p].target) # Nil
  BY DEF Inductive, Typed, RunsAlone, Made
<1>2. process[p].direction \in {"up", "down"} /\ process[p].target \in 0 .. 3
  BY <1>1 DEF ProcessStates
<1>3. process[p].direction = "down"
  BY <1>1, <1>2, CounterIsLatest
<1>4. p = Operator
  BY <1>3 DEF Inductive, KeptApart, Processes
<1> QED BY <1>3, <1>4, BusyKeepsApart

\* A migration's commit covers the versions used so far (MigrationKeepsVersions),
\* and leaves nothing else to run on the schema there was.
LEMMA CommitKeeps ==
  ASSUME Inductive, NEW p \in Processes, Commit(p)
  PROVE  Inductive'
<1> DEFINE made == Statements(db, process[p].direction, process[p].target)
           stage == IF process[p].direction = "down" /\ process[p].target # 0
                    THEN "down" ELSE "looking"
           s == [process[p] EXCEPT !.next = Nil, !.stage = stage]
<1>1. /\ db \in Schemas /\ process \in [Processes -> ProcessStates]
      /\ process[p] \in ProcessStates
      /\ used \in Seq(Nat \ {0})
      /\ process[p].stage = "running" /\ writing = Nil
      /\ made # Nil /\ process[p].next = made
      /\ Aims(db, process[p].direction, process[p].target)
  BY DEF Inductive, Typed, Commit, RunsAlone, Aimed, Made
<1>2. process[p].direction \in {"up", "down"} /\ process[p].target \in 0 .. 3
  BY <1>1 DEF ProcessStates
<1>3. /\ made \in Schemas
      /\ \/ HandedOut(made) >= HandedOut(db) /\ (made.resources \/ ~db.resources)
         \/ db.resources /\ ~made.resources
      /\ process[p].direction = "up" => Level(made) >= Level(db)
  BY <1>1, <1>2, MigrationKeepsVersions
<1>4. /\ db' = made /\ writing' = Nil
      /\ used' = IF made.resources \/ ~db.resources THEN used ELSE <<>>
      /\ process' = [process EXCEPT ![p] = s]
  BY <1>1 DEF Commit
<1>5. /\ s \in ProcessStates /\ s.stage \in {"down", "looking"}
      /\ s.direction = process[p].direction
  BY <1>1 DEF ProcessStates, Stages
<1> HIDE DEF made, s
<1>6. /\ process'[p] = s
      /\ \A q \in Processes \ {p} : process'[q] = process[q]
  BY <1>1, <1>4
<1>7. Typed'
  <2>1. used' \in Seq(Nat \ {0})
    BY <1>1, <1>4
  <2> QED BY <1>1, <1>3, <1>4, <1>5, <2>1 DEF Typed
<1>8. VersionsNeverRepeat' /\ Covered'
  <2>1. CASE made.resources \/ ~db.resources
    <3>1. used' = used /\ db' = made /\ HandedOut(made) >= HandedOut(db)
      BY <1>3, <1>4, <2>1
    <3>2. HandedOut(made) \in Int /\ HandedOut(db) \in Int
      BY <1>1, <1>3, HandedOutIsInt
    <3>3. \A i \in DOMAIN used : used[i] \in Nat
      BY <1>1
    <3> QED BY <3>1, <3>2, <3>3 DEF Inductive, VersionsNeverRepeat, Covered
  <2>2. CASE ~(made.resources \/ ~db.resources)
    <3>1. used' = <<>>
      BY <1>4, <2>2
    <3> QED BY <3>1 DEF VersionsNeverRepeat, Covered
  <2> QED BY <2>1, <2>2
<1>9. WritesNext'
  BY <1>4 DEF WritesNext
<1>10. KeptApart'
  <2>1. \A k \in Keepers : process'[k].direction = "up"
    BY <1>5, <1>6 DEF Inductive, KeptApart, Processes
  <2>2. ASSUME Reverting' PROVE Quiesced'
    <3>1. Reverting
      BY <1>1, <1>5, <1>6, <2>2 DEF Reverting, Processes
    <3>2. Quiesced
      BY <3>1 DEF Inductive, KeptApart
    <3>3. p = Operator
      BY <1>1, <3>2 DEF Quiesced, Processes
    <3> QED BY <1>4, <1>6, <3>2, <3>3, MigrationsAssumption DEF Quiesced, Processes
  <2> QED BY <2>1, <2>2 DEF KeptApart
<1>11. \A q \in Processes : process'[q].stage # "running"
  BY <1>1, <1>5, <1>6 DEF Inductive, RunsAlone
<1>12. RunsAlone'
  BY <1>11 DEF RunsAlone
<1>13. Aimed'
  <2> SUFFICES ASSUME NEW q \in Processes, process'[q].stage \in {"found", "running"}
               PROVE  Aims(db', process'[q].direction, process'[q].target)
    BY DEF Aimed
  <2>1. q # p /\ process'[q] = process[q]
    BY <1>5, <1>6
  <2>2. Aims(db, process[q].direction, process[q].target)
    BY <2>1 DEF Inductive, Aimed
  <2>3. ~Reverting
    BY <1>1, <2>1 DEF Inductive, KeptApart, Quiesced, Processes
  <2>4. process[q].direction = "up" /\ process[p].direction = "up"
    <3>1. \A r \in Processes : process[r] \in ProcessStates
      BY <1>1
    <3>2. \A r \in Processes : process[r].direction \in {"up", "down"}
      BY <3>1 DEF ProcessStates
    <3> QED BY <1>1, <2>1, <2>3, <3>2 DEF Inductive, KeptApart, Reverting, Processes
  <2>5. Level(made) \in Int /\ Level(db) \in Int /\ process[q].target \in Int
    <3>1. process[q] \in ProcessStates
      BY <1>1
    <3>2. process[q].target \in 0 .. 3
      BY <3>1 DEF ProcessStates
    <3> QED BY <1>1, <1>3, <3>2, LevelIsInt
  <2> QED BY <1>3, <1>4, <2>1, <2>2, <2>4, <2>5 DEF Aims
<1> QED BY <1>7, <1>8, <1>9, <1>10, <1>12, <1>13 DEF Inductive

\* Writes leave processes, and all of the schema but the counter, alone.
LEMMA AllocateKeeps == ASSUME Inductive, Allocate PROVE Inductive'
<1>1. /\ db.counter # Nil /\ writing = Nil /\ writing' = db.counter + 1
      /\ UNCHANGED <<db, used, process>> /\ ~Quiesced
  BY DEF Allocate, Quiesced
<1>2. db.counter \in Nat
  BY <1>1, SchemaByFields, NilAssumption DEF Inductive, Typed, Fits
<1>3. Typed'
  BY <1>1, <1>2 DEF Inductive, Typed
<1>4. VersionsNeverRepeat' /\ Covered' /\ WritesNext'
  BY <1>1 DEF Inductive, VersionsNeverRepeat, Covered, WritesNext
<1>5. KeptApart'
  BY <1>1 DEF Inductive, KeptApart, Reverting
<1>6. RunsAlone' /\ Aimed'
  BY <1>1 DEF Inductive, RunsAlone, Aimed, Made
<1> QED BY <1>3, <1>4, <1>5, <1>6 DEF Inductive

\* A write that ends without a commit gives its version back.
LEMMA RollBackWriteKeeps == ASSUME Inductive, RollBackWrite PROVE Inductive'
<1>1. writing' = Nil /\ UNCHANGED <<db, used, process>>
  BY DEF RollBackWrite
<1>2. Typed'
  BY <1>1 DEF Inductive, Typed
<1>3. VersionsNeverRepeat' /\ Covered' /\ WritesNext'
  BY <1>1 DEF Inductive, VersionsNeverRepeat, Covered, WritesNext
<1>4. KeptApart'
  BY <1>1 DEF Inductive, KeptApart, Reverting, Quiesced
<1>5. RunsAlone' /\ Aimed'
  BY <1>1 DEF Inductive, RunsAlone, Aimed, Made
<1> QED BY <1>2, <1>3, <1>4, <1>5 DEF Inductive

\* A write's commit uses the version after all those used so far.
LEMMA CommitWriteKeeps == ASSUME Inductive, CommitWrite PROVE Inductive'
<1>1. /\ writing # Nil /\ writing' = Nil /\ process' = process
      /\ db' = [db EXCEPT !.counter = writing]
      /\ used' = Append(used, writing)
  BY DEF CommitWrite
<1>2. /\ db \in Schemas /\ used \in Seq(Nat \ {0})
      /\ db.counter # Nil /\ writing = db.counter + 1 /\ ~Quiesced
  BY <1>1 DEF Inductive, Typed, WritesNext, Quiesced
<1>3. /\ db.goose = 3 /\ db.resources = TRUE /\ db.events = TRUE
      /\ db.sequence = Nil /\ db.counter \in Nat
      /\ db = FromFields(3, TRUE, TRUE, Nil, db.counter)
  BY <1>2, SchemaByFields DEF Fits
<1>4. db' = FromFields(3, TRUE, TRUE, Nil, writing)
  BY <1>1, <1>3 DEF FromFields
<1>5. writing \in Nat \ {0} /\ writing # Nil
  BY <1>1, <1>2, <1>3
<1>6. db' \in Schemas
  BY <1>4, <1>5, FieldsMakeSchema DEF Fits
<1>7. HandedOut(db) = db.counter /\ HandedOut(db') = writing
  BY <1>1, <1>2, <1>4 DEF HandedOut, FromFields
<1>8. /\ used' \in Seq(Nat \ {0})
      /\ Len(used') = Len(used) + 1 /\ Len(used) \in Nat
      /\ \A i \in 1 .. Len(used) : used'[i] = used[i] /\ used[i] \in Nat
      /\ used'[Len(used) + 1] = writing
      /\ DOMAIN used = 1 .. Len(used) /\ DOMAIN used' = 1 .. Len(used) + 1
  BY <1>1, <1>2, <1>5
<1>9. Typed'
  BY <1>1, <1>6, <1>8 DEF Inductive, Typed
<1>10. \A i \in 1 .. Len(used) : used[i] < writing
  <2>1. \A i \in 1 .. Len(used) : used[i] <= db.counter
    BY <1>7, <1>8 DEF Inductive, Covered
  <2> QED BY <1>2, <1>3, <1>8, <2>1
<1>11. VersionsNeverRepeat'
  <2> SUFFICES ASSUME NEW i \in DOMAIN used', NEW j \in DOMAIN used', i < j
               PROVE  used'[i] < used'[j]
    BY DEF VersionsNeverRepeat
  <2>1. CASE j = Len(used) + 1
    BY <1>8, <1>10, <2>1
  <2>2. CASE j # Len(used) + 1
    <3>1. i \in DOMAIN used /\ j \in DOMAIN used
      BY <1>8, <2>2
    <3>2. used[i] < used[j]
      BY <3>1 DEF Inductive, VersionsNeverRepeat
    <3> QED BY <1>8, <3>1, <3>2
  <2> QED BY <2>1, <2>2
<1>12. Covered'
  <2> SUFFICES ASSUME NEW i \in DOMAIN used' PROVE used'[i] <= HandedOut(db')
    BY DEF Covered
  <2>1. CASE i = Len(used) + 1
    BY <1>5, <1>7, <1>8, <2>1
  <2>2. CASE i # Len(used) + 1
    <3>1. i \in 1 .. Len(used)
      BY <1>8, <2>2
    <3> QED BY <1>5, <1>7, <1>8, <1>10, <3>1
  <2> QED BY <2>1, <2>2
<1>13. WritesNext'
  BY <1>1 DEF WritesNext
<1>14. KeptApart'
  BY <1>1, <1>2 DEF Inductive, KeptApart, Reverting
<1>15. \A p \in Processes : process'[p].stage # "running"
  BY <1>1, <1>2, RunningStopsWrites
<1>16. RunsAlone'
  BY <1>15 DEF RunsAlone
<1>17. db'.goose = db.goose
  BY <1>3, <1>4 DEF FromFields
<1>18. Aimed'
  BY <1>1, <1>17 DEF Inductive, Aimed, Aims, Level
<1> QED BY <1>9, <1>11, <1>12, <1>13, <1>14, <1>16, <1>18 DEF Inductive

-----------------------------------------------------------------------------

\* A process's steps together.
LEMMA StepKeeps ==
  ASSUME Inductive, NEW p \in Processes, Step(p)
  PROVE  Inductive'
<1>1. CASE Conflict(p)
  <2>1. Fail(p) /\ UNCHANGED <<db, used, writing>>
    BY <1>1 DEF Conflict
  <2> QED BY <2>1, FailKeeps
<1> QED BY <1>1, LookKeeps, RunKeeps, CommitKeeps, MigratedKeeps DEF Step

\* All steps together.
LEMMA NextKeeps == ASSUME Inductive, [Next]_vars PROVE Inductive'
<1>1. CASE \E k \in Keepers : Start(k)
  BY <1>1, StartKeeps
<1>2. CASE \E p \in Processes : MigrationFails(p)
  <2> PICK p \in Processes : MigrationFails(p)
    BY <1>2
  <2>1. Fail(p) /\ UNCHANGED <<db, used, writing>>
    BY DEF MigrationFails
  <2> QED BY <2>1, FailKeeps
<1>3. CASE \E p \in Processes : Step(p) \/ Killed(p)
  BY <1>3, StepKeeps, KilledKeeps
<1>4. CASE UNCHANGED vars
  <2>1. UNCHANGED <<db, used, writing, process>>
    BY <1>4 DEF vars
  <2> QED BY <2>1 DEF Inductive, Typed, VersionsNeverRepeat, Covered, WritesNext,
                      KeptApart, Reverting, Quiesced, RunsAlone, Made, Aimed
<1> QED BY <1>1, <1>2, <1>3, <1>4, CommandKeeps, AllocateKeeps, CommitWriteKeeps,
           RollBackWriteKeeps DEF Next

\* For any number of Keepers, any database of one of the schemas and any order
\* of upgrades, downgrades, failures and writes: versions are handed out in
\* ascending order across every migration (00003, lines 28-35 and 47-52).
THEOREM VersionsAscend == Spec => []VersionsNeverRepeat
<1>1. Inductive => VersionsNeverRepeat
  BY DEF Inductive
<1> QED BY InitInductive, NextKeeps, <1>1, PTL DEF Spec
=============================================================================
