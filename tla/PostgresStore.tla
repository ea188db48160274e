----------------------------- MODULE PostgresStore -----------------------------
(***************************************************************************)
(* The write path of the Keeper's production store                         *)
(* (internal/store/postgres.go on the schema of internal/store/migrations).*)
(*                                                                         *)
(* A writer is one RPC handler running one call of ResourceStore.Apply,    *)
(* ResourceStore.ApplyStatus or EventStore.Append.  Each call is a         *)
(* PostgreSQL transaction at READ COMMITTED: other transactions see what   *)
(* it wrote only once it commits.  The steps of a call are                 *)
(*                                                                         *)
(*   idle -> [lock -> locked ->] queued -> allocated -> written -> done    *)
(*                                                                         *)
(*   lock       Append waits for the advisory lock of its run              *)
(*   locked     Append holds it and is about to run its INSERT             *)
(*   queued     the statement has its snapshot and waits for the row of    *)
(*              hived_resource_version_counter                             *)
(*   allocated  it updated that row, whose lock it keeps until it ends     *)
(*   written    its row is written, not yet committed                      *)
(*   done       it ended; the caller has not taken the answer yet          *)
(*                                                                         *)
(* No method deletes anything (deleted_at is never set), so a row once     *)
(* there stays.                                                            *)
(*                                                                         *)
(* A definition whose comment begins with "Wrong:" is a bug this code could *)
(* have: no specification uses it, and with it in place of the definition  *)
(* it is a form of, TLC finds a property violated.                         *)
(***************************************************************************)
EXTENDS Integers, FiniteSets

CONSTANTS
  Writers,          \* concurrent calls
  MutableKeys,      \* (kind, colony, name) of the kinds Apply may update
  ImmutableKeys,    \* the same for ImmutableKeys kinds (AgentVersion)
  Specs,            \* spec documents, compared as JSON values
  Metas,            \* (labels, annotations) pairs
  Statuses,         \* status documents
  InitialStatus,    \* the status a handler sends with Apply
  Runs,             \* (colony, run) pairs that have an event log
  MaxVersion,       \* bound: no call starts once this version is committed
  Nil               \* no row, no version, no call

Keys == MutableKeys \cup ImmutableKeys

ASSUME KeysAssumption == MutableKeys \cap ImmutableKeys = {}
ASSUME StatusAssumption == InitialStatus \in Statuses
ASSUME BoundAssumption == MaxVersion \in Nat

VARIABLES
  rows,         \* resources: the committed row of each key, or Nil
  events,       \* events: the committed rows
  issued,       \* hived_resource_version_counter: its newest, possibly uncommitted value
  committed,    \* hived_resource_version_counter: the value other transactions read
  tx            \* the transaction of each writer

vars == <<rows, events, issued, committed, tx>>

--------------------------------------------------------------------------------
(* Data.                                                                   *)

Row   == [spec : Specs, meta : Metas, status : Statuses, gen : Nat, rv : Nat]
Event == [run : Runs, seq : Nat, rv : Nat]

ASSUME NilAssumption == Nil \notin Row

Calls == [op : {"apply"}, key : Keys, spec : Specs, meta : Metas, ifRV : Nat \cup {Nil}]
           \cup [op : {"status"}, key : Keys, status : Statuses]
           \cup [op : {"append"}, run : Runs]

Stages   == {"idle", "lock", "locked", "queued", "allocated", "written", "done"}
Outcomes == {"none", "ok", "conflict", "immutable", "notFound", "internal", "aborted"}

(* seen: the row in the statement's snapshot; top: MAX(seq) in it;         *)
(* ver: the version allocated; pend: the row written, not yet committed.   *)
Transactions == [stage : Stages, call : Calls \cup {Nil}, seen : Row \cup {Nil},
                 top : Nat, ver : Nat, pend : Row \cup {Nil}, outcome : Outcomes]

Started(stage, call, seen) ==
  [stage |-> stage, call |-> call, seen |-> seen, top |-> 0, ver |-> 0,
   pend |-> Nil, outcome |-> "none"]

Idle == Started("idle", Nil, Nil)

(* A call that ended: it holds no lock and only its answer is left.        *)
Ended(call, outcome) == [Started("done", call, Nil) EXCEPT !.outcome = outcome]

SeqsOf(run) == {e.seq : e \in {x \in events : x.run = run}}

(* Wrong: the subselect forgets the run.                                   *)
TopSeqOfAnyRun(run) ==
  LET seqs == {e.seq : e \in events} \cup {0} IN CHOOSE n \in seqs : \A m \in seqs : m <= n

(* COALESCE(MAX(seq), 0)                                                   *)
TopSeq(run) == CHOOSE n \in SeqsOf(run) \cup {0} : \A m \in SeqsOf(run) : m <= n

--------------------------------------------------------------------------------
(* Locks.  Each is held from the step that takes it to the end of the      *)
(* transaction, so who holds it can be read off the stages.                *)

HoldsRun(w, run) ==
  /\ tx[w].stage \in {"locked", "queued", "allocated", "written"}
  /\ tx[w].call.op = "append"
  /\ tx[w].call.run = run

HoldsCounter(w) == tx[w].stage \in {"allocated", "written"}

HoldsRow(w, k) ==
  /\ tx[w].stage = "written"
  /\ tx[w].call.op \in {"apply", "status"}
  /\ tx[w].call.key = k

(* Wrong: Append takes no advisory lock.                                   *)
RunFreeUnlocked(w) == TRUE

(* Wrong: a counter that is not transactional, as the sequence was.        *)
CounterFreeAsSequence(w) == TRUE

RunFree(w)     == \A v \in Writers \ {w} : ~HoldsRun(v, tx[w].call.run)
CounterFree(w) == \A v \in Writers \ {w} : ~HoldsCounter(v)
RowFree(w)     == \A v \in Writers \ {w} : ~HoldsRow(v, tx[w].call.key)

--------------------------------------------------------------------------------
Init ==
  /\ rows = [k \in Keys |-> Nil]
  /\ events = {}
  /\ issued = 0
  /\ committed = 0
  /\ tx = [w \in Writers |-> Idle]

Open(w) == tx[w].stage = "idle" /\ committed < MaxVersion

(* Apply of a mutable kind: one INSERT ... ON CONFLICT statement.  A       *)
(* conditional call names a version the caller read somewhere.             *)
BeginApply(w) ==
  /\ Open(w)
  /\ \E k \in MutableKeys, s \in Specs, m \in Metas, v \in 1..committed \cup {Nil} :
       tx' = [tx EXCEPT ![w] = Started("queued",
                [op |-> "apply", key |-> k, spec |-> s, meta |-> m, ifRV |-> v], Nil)]
  /\ UNCHANGED <<rows, events, issued, committed>>

(* Apply of an immutable kind: an unlocked Get that answers the call when  *)
(* the row exists, and the INSERT statement when it does not.              *)
BeginApplyImmutable(w) ==
  /\ Open(w)
  /\ \E k \in ImmutableKeys, s \in Specs, m \in Metas :
       LET call == [op |-> "apply", key |-> k, spec |-> s, meta |-> m, ifRV |-> Nil] IN
       \/ /\ rows[k] = Nil
          /\ tx' = [tx EXCEPT ![w] = Started("queued", call, Nil)]
       \/ /\ rows[k] # Nil
          /\ rows[k].spec = s
          /\ tx' = [tx EXCEPT ![w] = Ended(call, "ok")]
       \/ /\ rows[k] # Nil
          /\ rows[k].spec # s
          /\ tx' = [tx EXCEPT ![w] = Ended(call, "immutable")]
  /\ UNCHANGED <<rows, events, issued, committed>>

(* ApplyStatus: one UPDATE statement, which looks for the row in its       *)
(* snapshot before it evaluates hived_next_resource_version().             *)
BeginApplyStatus(w) ==
  /\ Open(w)
  /\ \E k \in Keys, st \in Statuses :
       LET call == [op |-> "status", key |-> k, status |-> st] IN
       \/ /\ rows[k] # Nil
          /\ tx' = [tx EXCEPT ![w] = Started("queued", call, rows[k])]
       \/ /\ rows[k] = Nil
          /\ tx' = [tx EXCEPT ![w] = Ended(call, "notFound")]
  /\ UNCHANGED <<rows, events, issued, committed>>

(* Append: BEGIN, and the request for the run's advisory lock.             *)
BeginAppend(w) ==
  /\ Open(w)
  /\ \E r \in Runs :
       tx' = [tx EXCEPT ![w] = Started("lock", [op |-> "append", run |-> r], Nil)]
  /\ UNCHANGED <<rows, events, issued, committed>>

(* pg_advisory_xact_lock(hashtext(colony), hashtext(run)).                 *)
LockRun(w) ==
  /\ tx[w].stage = "lock"
  /\ RunFree(w)
  /\ tx' = [tx EXCEPT ![w].stage = "locked"]
  /\ UNCHANGED <<rows, events, issued, committed>>

(* The INSERT of Append takes its snapshot, in which the subselect of      *)
(* MAX(seq) is evaluated.                                                  *)
StartInsert(w) ==
  /\ tx[w].stage = "locked"
  /\ tx' = [tx EXCEPT ![w].stage = "queued", ![w].top = TopSeq(tx[w].call.run)]
  /\ UNCHANGED <<rows, events, issued, committed>>

(* hived_next_resource_version(), evaluated first by every statement.      *)
Allocate(w) ==
  /\ tx[w].stage = "queued"
  /\ CounterFree(w)
  /\ issued' = issued + 1
  /\ tx' = [tx EXCEPT ![w].stage = "allocated", ![w].ver = issued + 1]
  /\ UNCHANGED <<rows, events, committed>>

--------------------------------------------------------------------------------
(* The row each statement writes.                                          *)

(* Wrong: the status column is left NULL.                                  *)
NewRowNoStatus(c, v) ==
  [spec |-> c.spec, meta |-> c.meta, status |-> Nil, gen |-> 1, rv |-> v]

NewRow(c, v) ==
  [spec |-> c.spec, meta |-> c.meta, status |-> InitialStatus, gen |-> 1, rv |-> v]

(* Wrong: the condition accepts any version not newer than the row's.      *)
MatchesOlder(c, row) == c.ifRV \in {Nil} \cup 1 .. row.rv

Matches(c, row) == c.ifRV = Nil \/ c.ifRV = row.rv

Differs(c, row) == c.spec # row.spec \/ c.meta # row.meta

(* Wrong: a version per row instead of one for the whole store.            *)
UpdatedRowOwnVersion(c, row, v) ==
  [row EXCEPT !.spec = c.spec, !.meta = c.meta, !.rv = row.rv + 1,
              !.gen = IF c.spec # row.spec THEN row.gen + 1 ELSE row.gen]

(* Wrong: a change of labels counts as a generation.                       *)
UpdatedRowAlwaysGen(c, row, v) ==
  [row EXCEPT !.spec = c.spec, !.meta = c.meta, !.rv = v, !.gen = row.gen + 1]

(* Wrong: a change of labels alone keeps the version.                      *)
UpdatedRowSpecOnly(c, row, v) ==
  [row EXCEPT !.spec = c.spec, !.meta = c.meta,
              !.rv  = IF c.spec # row.spec THEN v ELSE row.rv,
              !.gen = IF c.spec # row.spec THEN row.gen + 1 ELSE row.gen]

UpdatedRow(c, row, v) ==
  [row EXCEPT !.spec = c.spec, !.meta = c.meta, !.rv = v,
              !.gen = IF c.spec # row.spec THEN row.gen + 1 ELSE row.gen]

(* Wrong: the row is read first and written back with its new status.      *)
StatusRowOfSnapshot(w, v) ==
  [tx[w].seen EXCEPT !.status = tx[w].call.status, !.rv = v]

(* Wrong: a status update counts as a generation.                          *)
StatusRowAsSpec(w, v) ==
  [rows[tx[w].call.key] EXCEPT !.status = tx[w].call.status, !.rv = v, !.gen = @ + 1]

(* UPDATE re-evaluated on the latest version of the row, not on the one in *)
(* the statement's snapshot.                                               *)
StatusRow(w, v) ==
  [rows[tx[w].call.key] EXCEPT !.status = tx[w].call.status, !.rv = v]

Wrote(w, row, outcome) ==
  tx' = [tx EXCEPT ![w].stage = "written", ![w].pend = row, ![w].outcome = outcome]

(* Wrong: the failed transaction is left open, with its locks.             *)
FailsUnrolled(w) == UNCHANGED <<issued, tx>>

(* The statement fails and its transaction is rolled back.                 *)
Fails(w) ==
  /\ issued' = committed
  /\ tx' = [tx EXCEPT ![w] = Ended(tx[w].call, "internal")]

(* INSERT ... ON CONFLICT (kind, colony, name) DO UPDATE ... WHERE.  A     *)
(* conflicting row is locked and read in its latest version.  A changed    *)
(* row takes a second version; a failed condition updates no row, and the  *)
(* version already taken is committed all the same.                        *)
WriteApply(w) ==
  LET c   == tx[w].call
      row == rows[c.key]
  IN  /\ tx[w].stage = "allocated"
      /\ c.op = "apply" /\ c.key \in MutableKeys
      /\ RowFree(w)
      /\ \/ /\ row = Nil
            /\ Wrote(w, NewRow(c, tx[w].ver), "ok")
            /\ UNCHANGED issued
         \/ /\ row # Nil /\ ~Matches(c, row)
            /\ Wrote(w, Nil, "conflict")
            /\ UNCHANGED issued
         \/ /\ row # Nil /\ Matches(c, row) /\ ~Differs(c, row)
            /\ Wrote(w, row, "ok")
            /\ UNCHANGED issued
         \/ /\ row # Nil /\ Matches(c, row) /\ Differs(c, row)
            /\ Wrote(w, UpdatedRow(c, row, issued + 1), "ok")
            /\ issued' = issued + 1
      /\ UNCHANGED <<rows, events, committed>>

(* Wrong: the INSERT of applyImmutable as the upsert of applyMutable.      *)
WriteImmutableUpsert(w) ==
  LET c == tx[w].call
  IN  /\ tx[w].stage = "allocated"
      /\ c.op = "apply" /\ c.key \in ImmutableKeys
      /\ RowFree(w)
      /\ Wrote(w, NewRow(c, tx[w].ver), "ok")
      /\ UNCHANGED <<rows, events, issued, committed>>

(* The plain INSERT of applyImmutable: UNIQUE (kind, colony, name) fails   *)
(* it when the row appeared after the Get.                                 *)
WriteImmutable(w) ==
  LET c == tx[w].call
  IN  /\ tx[w].stage = "allocated"
      /\ c.op = "apply" /\ c.key \in ImmutableKeys
      /\ RowFree(w)
      /\ \/ /\ rows[c.key] = Nil
            /\ Wrote(w, NewRow(c, tx[w].ver), "ok")
            /\ UNCHANGED issued
         \/ /\ rows[c.key] # Nil
            /\ Fails(w)
      /\ UNCHANGED <<rows, events, committed>>

(* UPDATE ... SET status.  When the row was rewritten after the snapshot,  *)
(* READ COMMITTED evaluates the assignments again on the new version,      *)
(* hived_next_resource_version() included; an identical re-apply rewrites  *)
(* the row without changing it, so an unchanged row may take either path.  *)
WriteStatus(w) ==
  /\ tx[w].stage = "allocated"
  /\ tx[w].call.op = "status"
  /\ RowFree(w)
  /\ \E again \in {0, 1} :
       /\ tx[w].seen # rows[tx[w].call.key] => again = 1
       /\ issued' = issued + again
       /\ Wrote(w, StatusRow(w, issued + again), "ok")
  /\ UNCHANGED <<rows, events, committed>>

(* The event's INSERT, which UNIQUE (colony, run, seq) may refuse.         *)
WriteEvent(w) ==
  LET c == tx[w].call
  IN  /\ tx[w].stage = "allocated"
      /\ c.op = "append"
      /\ \/ /\ tx[w].top + 1 \notin SeqsOf(c.run)
            /\ Wrote(w, Nil, "ok")
            /\ UNCHANGED issued
         \/ /\ tx[w].top + 1 \in SeqsOf(c.run)
            /\ Fails(w)
      /\ UNCHANGED <<rows, events, committed>>

NewEvent(w) == [run |-> tx[w].call.run, seq |-> tx[w].top + 1, rv |-> tx[w].ver]

(* COMMIT, explicit in Append and implicit after the other statements: the *)
(* written row and the counter become visible together, every lock is      *)
(* released.                                                               *)
Commit(w) ==
  /\ tx[w].stage = "written"
  /\ committed' = issued
  /\ rows' = IF tx[w].call.op \in {"apply", "status"} /\ tx[w].pend # Nil
             THEN [rows EXCEPT ![tx[w].call.key] = tx[w].pend]
             ELSE rows
  /\ events' = IF tx[w].call.op = "append" THEN events \cup {NewEvent(w)} ELSE events
  /\ tx' = [tx EXCEPT ![w] = Ended(tx[w].call, tx[w].outcome)]
  /\ UNCHANGED issued

(* The caller's context is cancelled, its connection is lost or the Keeper *)
(* stops before COMMIT: everything is rolled back, the counter included.   *)
Abort(w) ==
  /\ tx[w].stage \in {"lock", "locked", "queued", "allocated", "written"}
  /\ issued' = IF HoldsCounter(w) THEN committed ELSE issued
  /\ tx' = [tx EXCEPT ![w] = Ended(tx[w].call, "aborted")]
  /\ UNCHANGED <<rows, events, committed>>

Return(w) ==
  /\ tx[w].stage = "done"
  /\ tx' = [tx EXCEPT ![w] = Idle]
  /\ UNCHANGED <<rows, events, issued, committed>>

--------------------------------------------------------------------------------
Begin(w) == BeginApply(w) \/ BeginApplyImmutable(w) \/ BeginApplyStatus(w) \/ BeginAppend(w)

Write(w) == WriteApply(w) \/ WriteImmutable(w) \/ WriteStatus(w) \/ WriteEvent(w)

Step(w) == StartInsert(w) \/ Write(w) \/ Commit(w) \/ Return(w)

Next == \E w \in Writers :
  Begin(w) \/ LockRun(w) \/ Allocate(w) \/ Step(w) \/ Abort(w)

Spec == Init /\ [][Next]_vars

(* PostgreSQL runs a statement that waits for nothing to its end, and      *)
(* grants a lock in the order it was asked for.  Nothing forces a caller   *)
(* to start a call or to give one up.                                      *)
Fairness == \A w \in Writers :
  /\ WF_vars(Step(w))
  /\ SF_vars(LockRun(w))
  /\ SF_vars(Allocate(w))

FairSpec == Spec /\ Fairness

--------------------------------------------------------------------------------
(* Types: what each variable holds.                                        *)
TypeOK ==
  /\ rows \in [Keys -> Row \cup {Nil}]
  /\ events \subseteq Event
  /\ issued \in Nat
  /\ committed \in Nat
  /\ tx \in [Writers -> Transactions]

VisibleVersions == {rows[k].rv : k \in {j \in Keys : rows[j] # Nil}} \cup {e.rv : e \in events}

(* Commit(w), seen from outside.                                           *)
Commits(w) == tx[w].stage = "written" /\ tx'[w].stage = "done" /\ tx'[w].outcome # "aborted"

WatermarkStep ==
  \A v \in VisibleVersions' \ VisibleVersions : committed < v /\ v <= committed'

(* The watermark a List reports (the committed counter) separates the past *)
(* from the future: whatever becomes visible later has a higher version,   *)
(* and is itself covered by the counter that becomes visible with it.      *)
(* This is what migration 00003 replaced the sequence for.                 *)
WatermarkSeparates == [][WatermarkStep]_vars

(* Resources of every kind and events share one version space: a version   *)
(* names at most one committed write.                                      *)
VersionNamesOneWrite ==
  /\ \A k, j \in Keys :
       rows[k] # Nil /\ rows[j] # Nil /\ rows[k].rv = rows[j].rv => k = j
  /\ \A d, e \in events : d.rv = e.rv => d = e
  /\ \A k \in Keys, e \in events : rows[k] # Nil => rows[k].rv # e.rv

ConditionalApplyStep ==
  \A w \in Writers :
    LET c == tx[w].call IN
    Commits(w) /\ c.op = "apply" /\ c.ifRV # Nil /\ rows[c.key] # Nil
      => (tx'[w].outcome = "ok" <=> rows[c.key].rv = c.ifRV)

(* Optimistic concurrency decides on the row the commit replaces, whatever *)
(* committed while the statement waited: a conditional Apply of an         *)
(* existing row succeeds exactly when that row still has ifResourceVersion.*)
ConditionalApplyIsAtomic == [][ConditionalApplyStep]_vars

KeptApartStep ==
  \A w \in Writers :
    LET c   == tx[w].call
        old == rows[c.key]
        new == rows'[c.key]
    IN  /\ Commits(w) /\ c.op = "status"
             => /\ new.status = c.status
                /\ new = [old EXCEPT !.status = new.status, !.rv = new.rv]
        /\ Commits(w) /\ c.op = "apply" /\ tx'[w].outcome = "ok" /\ old # Nil
             => /\ new.spec = c.spec /\ new.meta = c.meta
                /\ new.status = old.status

(* ApplyStatus and Apply may overlap on one row: each takes effect, and    *)
(* neither takes back what the other has committed.                        *)
StatusAndSpecKeptApart == [][KeptApartStep]_vars

GenerationStep ==
  \A k \in Keys : rows[k] # Nil =>
    rows'[k].gen - rows[k].gen = IF rows'[k].spec # rows[k].spec THEN 1 ELSE 0

(* The generation counts the committed changes of the spec, one by one, so *)
(* that two versions of a row with one generation have one spec.           *)
GenerationCountsSpecs == [][GenerationStep]_vars

VersionStep ==
  \A k \in Keys : rows[k] # Nil =>
    /\ rows'[k].rv >= rows[k].rv
    /\ rows'[k].rv = rows[k].rv => rows'[k] = rows[k]

(* A row that changed in any way a watcher can see has a new version; a    *)
(* row re-applied as it is keeps its version.                              *)
VersionTracksChange == [][VersionStep]_vars

ImmutableStep ==
  \A k \in ImmutableKeys : rows[k] # Nil =>
    rows'[k].spec = rows[k].spec /\ rows'[k].gen = rows[k].gen

(* Two first Applies of an AgentVersion may both miss it in their Get: the *)
(* spec stored first stays.                                                *)
ImmutableSpecStays == [][ImmutableStep]_vars

(* The log of a run has the seqs 1, 2, ... with no gap and no duplicate,   *)
(* and seq order is version order, so a cursor of either kind reads the    *)
(* log in one order.                                                       *)
EventLogInOrder ==
  /\ \A e \in events :
       e.seq = 1 \/ \E d \in events : d.run = e.run /\ d.seq = e.seq - 1
  /\ \A d, e \in events : d.run = e.run =>
       /\ d.seq = e.seq => d = e
       /\ d.seq < e.seq => d.rv < e.rv

(* Append computes its seq from a snapshot; no appender ever loses its     *)
(* event to UNIQUE (colony, run, seq).                                     *)
AppendNeverRejected ==
  \A w \in Writers :
    tx[w].stage = "done" /\ tx[w].call.op = "append" => tx[w].outcome # "internal"

(* Nobody waits for ever: the advisory lock, the counter's row and a       *)
(* resource's row are asked for in one order, and whoever has the counter  *)
(* ends.                                                                   *)
EveryCallEnds == \A w \in Writers : tx[w].stage # "idle" ~> tx[w].stage = "idle"

(* "An identical re-apply is a no-op success": an Apply of an AgentVersion *)
(* that carries the stored spec does not fail.                             *)
IdenticalReapplySucceeds ==
  \A w \in Writers :
    LET c == tx[w].call IN
    tx[w].stage = "done" /\ c.op = "apply" /\ c.key \in ImmutableKeys /\ rows[c.key] # Nil
      => (rows[c.key].spec = c.spec => tx[w].outcome \in {"ok", "aborted"})

(* Every call takes effect at its COMMIT, as if it had run alone.          *)
Contract == INSTANCE ResourceContract WITH
  objects <- rows,
  logs    <- [r \in Runs |-> [n \in 1 .. TopSeq(r) |->
                (CHOOSE e \in events : e.run = r /\ e.seq = n).rv]],
  clock   <- committed

ImplementsContract == Contract!Spec

================================================================================
