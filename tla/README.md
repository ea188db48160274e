# hiveD: a verification project

hiveD's Keeper is a small control plane: `Colony`, `Agent`, `AgentVersion`,
`Run` and `Tool` objects and an append-only log of run events, behind
list/watch semantics borrowed from Kubernetes. Its hard part is the store.
Concurrent calls, a version counter shared by everything, polling watchers and
clients that resume after a lost connection have to agree on one promise: *a
client that lists and then watches misses nothing*. This project models that
store, the Keeper and the API around it, its migrations and the `hived` CLI,
checks them with TLC, and proves what matters most about them with TLAPS: the
store's write path, both kinds of stream, the connection pool, what `hived
apply` and the other commands report, the messages of every service, the
in-process store, migrations, and pages.

## The system

| Component | State | Operations | Hard because | Correct when |
|---|---|---|---|---|
| `ResourceStore`, `EventStore` (`internal/store/store.go`) | a contract, no state | Apply, ApplyStatus, Get, List, Watch; Append, ListEvents, WatchEvents | two implementations | every call takes effect at one instant |
| `PostgresStore`, writes (`postgres.go`, `migrations/`) | tables `resources`, `events`, the counter row; locks and snapshots of open transactions | Apply (mutable, immutable), ApplyStatus, Append | READ COMMITTED interleavings, stale snapshots, lock waits, aborts | version order is commit order; no lost update; logs without gaps |
| `PostgresStore`, List and Watch | per stream: cursor, poll in progress, channel of 16 | counter read, page read, poll, send, bookmark | several snapshots per request, bounded channel, broken streams | no gap after List, convergence |
| `PostgresStore`, event log reads | per stream: cursor, channel | ListEvents (by seq), WatchEvents (by version) | two kinds of cursor | a follower has a prefix of the log, and gets all of it |
| Migrations (`migrate.go`, `migrations/`) | schema version, counter | up, down | live cursors across an upgrade | versions never repeat |
| `MemoryStore` (`memory.go`) | maps and a change log under a mutex | the same contract | handlers are tested on it, so it has to behave like the other | the same contract as `PostgresStore` |
| Page tokens (`pagetoken.go`) | none | clamp, encode, decode | int32 edge, separators | pages partition the list |
| RPC handlers (`internal/api`) | none of their own | validate, translate, call, map errors, drain a stream | error paths, streams | documented codes; Run starts PENDING |
| Interceptors, identity, mux | metrics | authenticate, recover | a panic in one call | one call never stops the process |
| Keeper process (`cmd/keeper`) | connection pool, servers, open streams | serve, shut down | streams outlive requests and hold connections | unary calls get a connection; shutdown ends |
| `hived` CLI (`cmd/hived`) | none | apply, get, watch, events, run | several documents, timeouts, lost answers | what it reports is what happened |
| `gen/` | none | messages, clients, six services | six copies of one pattern, each with types of its own | a caller is answered with the type its procedure declares |

Calls go CLI -> (connect RPC) -> interceptor -> handler -> store -> PostgreSQL.
The only shared state is in PostgreSQL, behind the connection pool, and every
Watch is a goroutine that polls it and feeds a channel its handler drains.
The hazards this causes are listed, with the source line where each bites and
the properties that would catch it, under `hazards` in `PROJECT.json`.

## Modules

    ResourceContract                 what a store promises
      ^ refined by                   ^ refined by
    PostgresStore                    MemoryStore <- MemoryWatch
      <- PostgresWatch         List, Watch, their client
      <- PostgresEventWatch    ListEvents, WatchEvents, their client

    Handlers <- Keeper <- ApplyCommand
                           one connection pool, `hived apply`
    Handlers, Wire, Paging <- Api <- HivedCommands
                           every service and every other command

    Migrations             the schema under Keepers that start

`A <- B`: B extends A. Proofs stand beside their module: `PostgresStoreProofs`,
`PostgresWatchProofs`, `PostgresEventWatchProofs`, `MemoryWatchProofs`,
`ApplyCommandProofs`, `PagingProofs`, `MigrationsProofs`, and
`HivedCommandsProofs`, which extends `PagingProofs`.

`MC*` modules hold the model values and symmetry sets of TLC's instances.

### ResourceContract

The abstract store: `objects` (one record per key), `logs` (one sequence of
versions per run) and `clock` (the highest version readers can see). One action
per kind of change: `Create`, `ChangeSpec`, `ChangeMeta`, `ApplyStatus`,
`AppendEvent`; `Skip` lets versions go unused. It has no transactions, no locks
and no failures, so an implementation can only show effects of whole calls.

### PostgresStore

A writer is one RPC handler inside one store call. Its call is a PostgreSQL
transaction, cut at the points where another transaction can get between:

| Stage | Code |
|---|---|
| `lock`, `locked` | `Append`: `BEGIN` and `pg_advisory_xact_lock` (postgres.go:313-327) |
| `queued` | the statement has its snapshot (`MAX(seq)` in `Append`, the `WHERE` of `ApplyStatus`) and calls `hived_next_resource_version()` |
| `allocated` | it holds the counter's row lock until the transaction ends (migration 00003) |
| `written` | the row is written, locked, and not visible |
| `done` | committed, failed or aborted; the answer is on its way |

Rows are visible to others only in `rows`, `events` and `committed`. Things that
are easy to lose in such a model and are kept:

* an upsert takes a version before it knows whether it will insert; it takes a
  second one when it changes the row, and wastes the first one when the
  condition fails or nothing changed (postgres.go:107-131);
* `ApplyStatus` finds its row in an old snapshot, but READ COMMITTED evaluates
  the assignments, the version included, again on the newest row version;
* `applyImmutable` is a `Get` and, separately, a plain `INSERT` (77-98);
* any call can be abandoned at any stage (`Abort`): its version is returned
  with the counter's old value, its locks are gone.

Data is abstract: documents, labels and statuses are model values compared for
equality, as `jsonb` and `IS DISTINCT FROM` compare them. `created_at`,
`updated_at`, uids and payloads are left out, and nothing in the code ever sets
`deleted_at`, so there is no delete.

### PostgresWatch

Adds clients. A client pages through `List` (each page is two statements: the
counter, then the rows), keeps the watermark of its first or of its last page
(`KeptPage`), and watches since then. The server's goroutine polls (`LIMIT
BatchLimit`), sends one object at a time into a channel of `ChannelCap`, moves
its cursor with each, and sends bookmarks between polls. `Reconnect` throws away
the poll, the channel and the goroutine; the client resumes from the last
version it received. A key is a number, ordered as `(colony, name)` is.

### PostgresEventWatch

The same for a run's event log: `ListEvents` since a seq until an answer is
short of the limit, then `WatchEvents` since a version.


### MemoryStore and MemoryWatch

The store the handlers' tests run on. Its mutex makes every method one step, so
`MemoryStore` has one action per method that changes something; calls that end
in an early return change nothing and have no step. What a key's handler sends
as status is the constant `SentStatus`: a status for Runs,
none for the other kinds; `memory_streams` is about the other kinds. `MemoryWatch` adds `List`, `ListEvents` and the goroutine behind a stream
(`list`, `live`, `cancelled`, `closed`): it copies what is due while it holds
the mutex (`Collect`), sends afterwards (`Send`), and can be told to stop at any
point (`Cancel`, `Exit`). Watchers and followers share these actions because
`Watch` and `WatchEvents` share the code's shape. A new stream of a client is
modelled after the goroutine of its old one has ended; two goroutines of one
client share nothing, so their overlap adds no behaviour.

### Handlers, Keeper and ApplyCommand

`Handlers` holds what `internal/api` decides without state: which objects each
kind's Apply accepts, the keys Apply and Get build, `mapStoreErr`. `Keeper` is
the process: unary calls (`arrived`, `waiting` for a connection, `running`,
`answered`), one goroutine per stream (`idle`, `sending` with `pend` rows and
the connection, `ended`), `free` connections, and the way down (`serving`,
`draining` in `Shutdown`, `closing` in the deferred `pool.Close()`, `exited`).
The store's statements take effect in one step here; `PostgresStore` is about
what happens inside them. A panic is recovered in the handler only: a panic in
the goroutine of a stream would take the process down, but nothing it calls
panics. `ApplyCommand` adds the CLI: it reads all documents, applies one after
the other, and stops at the first failure. Its timeout, Ctrl-C and a broken
connection are one action, `GiveUp`, since all three end the request and cancel
it at the server, where the handler may be at any point. It may come whenever a
call is pending and is owed only when the Keeper's process is gone
(`Disconnected`): with `--timeout 0` there is no deadline.

### Wire, Paging, Api and HivedCommands

`Wire` is what the generated code lets through: each message as the set of
records the wire can carry, each service as the calls its client can make and
the answers it can read. `Paging` is `pagetoken.go` and the SELECT of a page, as
operators. `Api` has the six services: mux, interceptor, the conversions of each
kind, and every method (`idle`, `arrived`, `dispatched`, `counted` between the
two statements of a List, `streaming`, `answered`). Store statements take effect
at one instant, as in `Keeper`. The six services repeat one pattern with types
of their own; the model has the pattern once (`ApplyObject`, `GetObject`,
`ListObjects`, `WatchObjects`) and one definition per method of a kind, with
what differs: its conversions, its key, its messages. `HivedCommands` is every
command but apply, each from its line to its exit status, and a client that
follows page tokens. Around it another client makes requests, and a Keeper of a
newer version writes rows with fields this one does not know.

A text is a sequence of characters where order matters (page tokens) and a
string elsewhere; `Texts` maps one to the other, one to one. The log is a set:
an event's seq says where in its run it stands (`BySeq`). What a spec holds
besides the fields the code reads is one field, `rest`.

### Migrations

`db` is the schema: goose's version, the tables there are, the sequence or the
counter. Each migration's Up and Down is an operator that makes one schema of
another, or fails as its CREATE or DROP would. A process (a Keeper that
auto-migrates, or the operator's command) looks, runs one migration in a
transaction, commits, and looks again; it can fail, lose a race or be killed at
any of these points. Serving Keepers allocate versions and commit or roll back,
with the counter's lock held in between. `used` remembers the versions committed.

Operators whose comment begins with "Wrong:" are plausible bugs. No
specification uses them; with one of them in place of the definition it is a
form of, TLC finds the property violated that `mutants` in `PROJECT.json` pairs
it with. They show that the properties do look at the code.

## Runs

| Run | Shows |
|---|---|
| `store_writes` (StoreWrites) | `TypeOK`, `VersionNamesOneWrite`, `EventLogInOrder`, `AppendNeverRejected`, `ImplementsContract`, `WatermarkSeparates`, `ConditionalApplyIsAtomic`, `StatusAndSpecKeptApart`, `GenerationCountsSpecs`, `VersionTracksChange`, `ImmutableSpecStays`. Two concurrent calls on a mutable and an immutable resource and the logs of two runs, with aborts: versions order commits, conditional updates are atomic, spec and status never overwrite each other, each log stays 1, 2, 3, ... in version order, and every step is one operation of ResourceContract or a stutter. |
| `store_liveness` (StoreLiveness) | `EveryCallEnds`. Three concurrent calls of every kind: the advisory lock, the counter's row and a resource's row never leave a call waiting for ever. |
| `store_immutable_reapply` (StoreImmutableReapply, violated) | `IdenticalReapplySucceeds`. Two first Applies of one AgentVersion with the same spec: the second one's INSERT hits UNIQUE and the caller gets CodeInternal instead of the no-op success. |
| `watch_handoff` (WatchHandoff) | `WatchTypeOK`, `NoGap`, `ViewNeverRegresses`, `Converges`. A client that pages through List, keeps the first page's watermark and watches, against two writers and a lost connection: it can resume from its checkpoint at any time without missing an object, and under fairness of the poll, the stream and the client it ends up with what is stored. |
| `watch_last_page` (WatchLastPage, violated) | `NoGap`. The same client following the documented steps to the letter (page until the token is empty, then keep resourceVersion): an object of an early page that changes while later pages are read is missed. |
| `watch_idle` (WatchIdle, violated) | `IdleWatcherCheckpoints`. A bookmark repeats the version of the last object sent; a client whose objects do not change never advances its checkpoint. |
| `event_follow` (EventFollow) | `FollowTypeOK`, `ReceivedIsPrefix`, `EveryEventArrives`. A client that lists a run's log by seq and goes on watching by version, through a lost connection, holds a prefix of the log at any time, and under fairness every event appended to the run reaches it. |
| `memory_streams` (MemoryStreams) | `StreamTypeOK`, `LogTellsVersions`, `CheckpointCovers`, `FollowsInOrder`, `MirrorsContract`, `EveryoneCatchesUp`. The in-process store implements the contract of the production store; a watcher and a follower that list, stream, give up and resume miss nothing although messages carry objects newer than the change they report. |
| `keeper_apply` (KeeperApply) | `KeeperTypeOK`, `ConnectionsAddUp`, `ReportIsTrue`, `AgentVersionsAgree`, `AppliedIsFound`, `CommandsEndUntimed`, `ConnectionsComeFree`, `ShutdownEnds`. Two `hived apply` commands and a stream share one connection while the Keeper fails statements, panics, is told to stop or is killed: no connection leaks, what a command reports is what landed, and as long as the streams' clients read, every command ends without a timeout, the Keeper keeps serving and does stop. |
| `colony_key` (ColonyKey, violated) | `ColonyIsHiveScoped`. A Colony whose manifest sets metadata.colony is stored under that colony, where Get does not look. |
| `hived_commands` (HivedCommands) | `ApiTypeOK`, `PagesComplete`, `ReportsWhatHappened`, `StreamSkipsNothing`. Every `hived` command but apply, and a client that follows page tokens, over every service's handlers, while another client writes and a newer Keeper leaves rows this version cannot read: messages have their types, pages add up, output and exit status are what happened, and a stream skips nothing. |
| `migrations` (Migrations) | `VersionsNeverRepeat`, `EveryKeeperServes`. Two Keepers that migrate at start, an operator's up and down, and the Keepers' writes, on a new database or one from before the counter, with kills and failures: no version is used twice through up and down, and every Keeper that can read its configuration ends up serving, on the latest schema if it migrates. |

### Bounds, and why they are enough

* `Environments` are not set, `false` and a word `ParseBool` refuses; the
  databases found are an empty one and two of the sequence's time, with nothing
  written and with versions 1 and 2 used: the two cases of `is_called`. Two
  Keepers and an operator with two commands meet every pair of processes in one
  migration, and one mishap hits it anywhere. Any number of each is proved.
* `HivedCommands` starts with one of its command lines, which between them use
  every command, kind and output; three requests of the other client are a
  create, a change and a change of the change, or three objects. With
  `DefaultPageSize` and `MaxPageSize` 2, tours ask for pages of -1, 0, 1 and 3:
  every branch of the clamp, and every boundary; `BatchLimit` 1 makes every poll
  come up short. Colonies `c` and `cd`
  are where comparing texts and comparing tokens could part. The other client
  stops when the user is done.
* Writers: two calls in flight are every pairwise race (writer/writer on a row,
  on the counter, on a unique key); `store_liveness` has three, so that one
  holds a lock, one waits for it and one overtakes. The proofs hold for any
  number.
* Keys: one mutable and one immutable key, or two keys when paging. Rows
  interact only through the counter and through the page boundary.
* Documents: two specs, two label sets and two statuses are what `IS DISTINCT
  FROM` tells apart.
* `MaxVersion` bounds the calls *started*: none begins once that version is
  committed. Calls in flight finish, so versions go past it. It leaves room for
  a create, a change, and a change of the change.
* `PageSize` 1 over two keys puts every key on a page boundary. `ChannelCap` 1
  makes the channel fill. `BatchLimit` 2 comes up short in `event_follow`, where a
  run has three events, and leaves a poll of `watch_handoff` two rows to put in
  order; there, with two keys, it never comes up short: that `NoGap` and
  `ViewNeverRegresses` hold for any limit is proved.
* `PoolSize` 1, `ChannelCap` 1, `BatchRows` 2: one stream whose client stops
  reading already holds every connection, which is the worst the pool meets;
  two commands are enough for every race of two Applies.
* `MaxDrops` 1: after a drop the server's state is that of a new stream, so one
  drop at every possible moment meets every resume point.

Symmetry is used only over writers, and only in runs without liveness.
Deadlock checking is off where calls stop at `MaxVersion`: a store nobody
calls is idle, not stuck. That no call is stuck is `EveryCallEnds`. It is off
for `ApplyCommand` as well, where commands end and the process exits; that
they do not stop earlier is `CommandsEndUntimed` and `ShutdownEnds`; for `HivedCommands`,
where the command ends; and for `Migrations`, where every process may be down
with a configuration it cannot read, or serving with no version left to write.

### Fairness

`Fairness` of `PostgresStore`: a statement that waits for nothing runs to its
end (weak fairness of `Step`); PostgreSQL grants a row or an advisory lock in
the order of the requests, so a waiter that keeps seeing the lock come free
gets it (strong fairness of `LockRun` and `Allocate`). Starting and abandoning
calls is not fair. `WatchFairness` and `FollowFairness`: tickers tick, the
handler drains its channel and the client receives (weak fairness). Nothing
makes writers write, and the number of lost connections is finite.
`KeeperFairness`: handlers and goroutines run, the pool hands a connection to
those who wait in turn (strong fairness of `Acquire`), Shutdown's ten seconds
pass. A command goes on with its next step, but need never give up a pending call
(`Owed`): `--timeout 0` sets no deadline, and one with a deadline only gives up
more. It fails when the connection is gone with the Keeper's process. Clients may
stop reading: what needs them to read says so (`ClientsRead`). Polls need not find rows. `Fairness` of `Migrations`: whatever
started the Keeper starts it again when it has exited (strong fairness of
`Start`; the code just exits and leaves this to its supervisor, so it is an
assumption), a process goes on with its next statement (strong fairness of `Step`,
for another's lock may come and go), and a write's transaction ends. The
operator's commands are not fair. `HivedCommands` states no fairness: its
properties are about what has happened, and that `hived apply` ends is
`CommandsEndUntimed`.

## Proofs

Each theorem holds for every value of the constants; TLC checks the same
formula on a small instance.

* `TypeCorrect` (`TypeOK`): Type correctness of the write path for any set of writers, keys, documents and runs.
* `Invariance`: The inductive invariant: the locks exclude each other, the counter separates what is committed from what is in flight, and what a transaction has written is still what its statement would compute from the rows committed now.
* `VersionOrderIsCommitOrder` (`WatermarkSeparates`): With the transactional counter, version order is commit order for any number of concurrent writers: what becomes visible later is above every watermark read before.
* `OneVersionSpace` (`VersionNamesOneWrite`): A version names at most one committed write, over all kinds and all event logs.
* `OptimisticConcurrency` (`ConditionalApplyIsAtomic`): A conditional Apply decides on the row its commit replaces.
* `NoFieldLost` (`StatusAndSpecKeptApart`): Overlapping Apply and ApplyStatus calls never take back what the other committed.
* `GenerationsCount` (`GenerationCountsSpecs`): The generation grows by one exactly when the spec changes.
* `VersionsIdentifyContent` (`VersionTracksChange`): A row's version never goes back and the same version is the same content.
* `ImmutableSpecsStay` (`ImmutableSpecStays`): The spec of an AgentVersion never changes once stored.
* `EventLogsAreOrdered` (`EventLogInOrder`): A run's log has no gap and no duplicate, and seq order is version order.
* `NoAppendIsLost` (`AppendNeverRejected`): The advisory lock makes the seq of the snapshot the next one when the event is written.
* `ConnectionsConserved` (`ConnectionsAddUp`): No connection of the pool leaks and none is handed out twice, for any number of clients, streams and connections, whatever fails and however the Keeper ends.
* `KeeperTypesHold` (`KeeperTypeOK`): Types of the Keeper and of the commands; the bound on free connections follows from their sum, and what is stored passed validation.
* `ReportsAreTrue` (`ReportIsTrue`): What `hived apply` reports is what landed, for every manifest, any number of other commands, and every lost answer, timeout, failure and end of the Keeper.
* `AppliedIsAlwaysFound` (`AppliedIsFound`): What an Apply stored, Get finds under the kind, colony and name it was applied with, for every manifest that puts no Colony into a colony, any number of commands and whatever they apply over it.
* `StoreKeepsItsContract` (`ImplementsContract`): The write path implements ResourceContract: every call takes effect at its COMMIT, at one instant and with a version of its own, for any number of concurrent calls, whatever they wait for and whenever they are abandoned.
* `AgentVersionsNeverDiffer` (`AgentVersionsAgree`): Two commands whose Applies of one AgentVersion took effect agree on its spec, whatever runs between the Get and the INSERT, for any number of commands.
* `WatchTypesHold` (`WatchTypeOK`): Types of clients, streams, polls and channels, for any number of watchers and writers.
* `NothingIsMissed` (`NoGap`): A client that keeps its first page's watermark can resume from its checkpoint at any time without missing an object, for any number of writers, keys, pages and lost connections.
* `ViewsOnlyAdvance` (`ViewNeverRegresses`): What a client holds of an object, and the version it would resume from, never go back, whichever page's watermark it keeps.
* `FollowTypesHold` (`FollowTypeOK`): Types of followers, their streams, polls and channels.
* `FollowersHavePrefixes` (`ReceivedIsPrefix`): A client that goes from ListEvents by seq to WatchEvents by version holds a prefix of its run's log, each event once, for any number of appenders and lost connections.
* `MemoryTypes` (`StreamTypeOK`): Types of the in-process store, its streams, their messages and their clients.
* `ChangeLogIsComplete` (`LogTellsVersions`): The change log, which is all the in-process Watch looks at, is in version order and ends, for every resource, with the version the resource is in.
* `WatchersMissNothing` (`CheckpointCovers`): A watcher of the in-process store holds every object up to the version it would resume from, for any number of watchers, pages and streams given up, although messages are sent without the mutex; for kinds whose handlers send no status with Apply.
* `WatchersMissNoVersion`: The same for every kind, but for the status an Apply restates: spec, metadata, generation and version are those stored.
* `FollowersReadInOrder` (`FollowsInOrder`): A follower of the in-process store holds a prefix of its run's log, across ListEvents by seq, WatchEvents by version and streams given up.
* `MemoryKeepsTheContract` (`MirrorsContract`): The store the handlers are tested on implements ResourceContract, the contract PostgresStore implements, if no handler sends a status with Apply.
* `VersionsAscend` (`VersionsNeverRepeat`): No version is used twice through upgrades and downgrades, for any number of Keepers that migrate at once, commands, kills and failures.
* `ClampInRange`: Every int32 a client sends as page size becomes a LIMIT between 1 and the maximum.
* `TokenRoundTrip`: A token decodes to the colony and the name it was made of, the empty ones included, and is never taken for no token.
* `BeforeIsStrict`: (colony, name) is a strict order: a tour of pages never comes back to a place.
* `TokenGoesOnBehind`: The token of a page's last place lets through what is behind that place and nothing else.
* `PageIsNext`: A page is what is next behind its token, each place once and in order, and its own token leaves nothing out: for any finite table, token and size of page.
* `MessagesAreTyped` (`ApiTypeOK`): Requests and answers are of the types their procedures declare, for the user and any requests of another client, whatever rows there are, those included that this version cannot read.
* `CommandsReport` (`ReportsWhatHappened`): What a command prints and how it exits are what happened to its call, for any command line, any rows and any requests of another client.
* `WatchSkipsNothing` (`StreamSkipsNothing`): A line of `hived watch` stands for all there is up to its version, whatever is written, and read in vain, between its polls.
* `ToursAreComplete` (`PagesComplete`): Following page tokens gives every object once, in order, and everything that has not changed since the first page, whatever is created or changed between two pages.

### The write path

`PostgresStoreProofs` proves every property that the store's run `store_writes`
checks, the refinement included; `EveryCallEnds` is left, a liveness property.

None of these is inductive alone. The invariant is `Inductive`:

* `WellFormed`: each stage has the kind of call that can be in it, and a status
  update in flight has a row (rows are never deleted);
* `Exclusive`: the counter and each run's advisory lock have one holder;
* `Versions`: `committed` is above every visible version and below every
  version in flight; with no holder of the counter, nothing is in flight. This
  is what "UPDATE ... RETURNING holds the row lock until commit" buys;
* `Pending`: what a transaction has written is still what its statement would
  compute from the rows committed *now*. Everyone who writes a row holds the
  counter, so the rows cannot have changed since. Lost updates and stale
  conditions are excluded by this conjunct;
* `Log`: the seqs of a run are `1..TopSeq`, and an appender past its snapshot
  still has the right `MAX(seq)`, because it holds the run's lock.

`Init => Inductive` is `InitInductive`; each action has a lemma that it
preserves `Inductive`; `Invariance` puts them together, and the properties
follow from it, each with a step lemma about `Commit`, the only action that
changes what others see (`OnlyCommitShows`). The assumptions are those declared
in `PostgresStore`: mutable and immutable keys are disjoint, the initial status
is a status, and `Nil` is not a row.

`StoreKeepsItsContract` is the refinement: the rows are the contract's objects,
the committed counter its clock, and a run's events in seq order its log. Every
step but `Commit` is a stutter (`OnlyCommitShows`), and a `Commit` is one
operation (`RowChangeIsContract`, `RunLogsGrow`) or `Skip`. The contract wants
what becomes visible to carry exactly the new watermark, which `Inductive` does
not say: `OwnVersion` adds that a transaction with one version has the newest.
That each place of a log names one event is `EventLogInOrder`.

### The Keeper and the command

The theorems of `ApplyCommandProofs` share the invariant `Typed`: the
variables have their types, a call past validation carries an accepted object,
a poll that holds a connection has rows to send, a command that sends or waits
is at one of its documents.

`ConnectionsAddUp` is inductive with it. `EveryStepMovesOne` says that a step
takes one connection out of the pool and gives it to one call or poll, or the
other way round, or moves none, or is the end of the process; the sum of free
connections and the two cardinalities follows (`MovesKeepTheSum`).

`ReportIsTrue` is not inductive: it says nothing of a call still at work after
its command has given up. The invariant is `AllConsistent`, for each client: a
call that may still write carries the document the command is at, and exactly
the documents before it have landed; once the call has ended, the current one
may have landed too, and has if the answer is `ok`. `CallMove` names the four
things the Keeper can do to a call, and `KeeperStepsAreMoves` shows that it does
nothing else. The assumptions are declared in `Keeper` and `ApplyCommand`: the
pool, the channels and the polls are not empty, there are finitely many
clients and streams, a manifest is a sequence of documents, `Nil` is neither an
exit status nor a report.

`AgentVersionsNeverDiffer` adds to `Typed` that a document of an AgentVersion
that took effect is in the table with its spec (`AllStored`), and that nothing
but an INSERT that found the key free ever puts a spec there.

`AppliedIsAlwaysFound` adds that what a command has landed has a row under its
key (`LandedHaveRows`; rows are never deleted) and that every document in hand
is one of the manifests' (`DocsAreGiven`). Apply and Get build that key in
different places, and agree unless a manifest puts a Colony into a colony:
Apply stores it there and `GetColony` looks elsewhere. The theorem assumes
that no manifest does; where one does the statement is false, which is the
finding `colony_key`.

### The in-process store

`MemoryWatchProofs` proves every safety property of `memory_streams`. The
invariant is `Everything`. Of the store it says that versions in the change log
ascend and the last entry of a key has its row's version, and the same of
events. Of a watcher it follows the newest version of each object of its scope:
it is in the view if it is not above the checkpoint (`Held`), in the channel if
it is not above the cursor (`Sent`), among what was copied if it is not above
the last change copied (`Copied`); above that, the next copy will have it.
Messages are sent after the mutex is let go, with the object as it was copied,
so what is due or in the channel may be older than the store and newer than its
own version; `Truthful` is what can be relied on: no message claims a version
above the object's, and one that claims the newest carries the object as it is
stored. Of a
follower, what it has, its channel and what was copied are consecutive pieces
of its run's log (`FollowerInvariant`).

The loops that collect changes or events are `Collected`; its lemmas (a
sequence of what qualifies, in the order of the log, growing at its end when the
log does) are proved from cardinalities, without an induction over the log.

Two theorems assume that no handler sends a status with Apply (`SentStatus[k] =
Nil`), which holds of every kind but Run (run.go:14-15). With a status the
statements are false of this store: an Apply that only restates one is stored
and not logged (memory.go:105, 124), so that neither a watcher nor the contract,
where an Apply never touches an existing status, can follow.
`WatchersMissNoVersion` needs no assumption and says what is left: everything
but that status.

### Streams

`PostgresWatchProofs` and `PostgresEventWatchProofs` extend the write path's
proofs: the store's `Inductive` is preserved because every step of the larger
specification is a store step or leaves the store alone.

`NoGap` speaks of a client that resumes now. The invariant follows a version on
its way: an object whose version is not above the client's checkpoint is in its
view (`AllCovered`, page by page while it lists); between checkpoint and cursor
it is in the channel; above the cursor and up to the last object of the poll it
is in the batch; above that it has not been polled (`AllOrderly`). A commit
disturbs none of it, because its version is above every counter ever read: this
is the write path's invariant, and where the proof would fail with a sequence
in place of the counter. The theorem assumes `KeptPage = "first"`, for with the
last page's watermark the statement is false (run `watch_last_page`), and what
`PostgresWatch` declares of tokens and keys. `ViewsOnlyAdvance` needs no such
assumption.

`ReceivedIsPrefix` needs `EventLogInOrder`, and `OnePlace`: the version cursor
of the goroutine and the number of events sent so far are one place in the run's
log, so that "newer than the cursor" and "behind what was sent" are the same
events. `HasPrefix`, `GoesOn` and `BatchNext` say that what the client holds,
the channel, and the poll's batch are consecutive pieces of the log; `Quiet`
that a client still listing has no stream.

### Migrations and pages

`VersionsAscend`: what may be handed out next is above what was used
(`Covered`), across a counter, a sequence called or not, and no table at all; a
write in flight has the counter's next value (`WritesNext`), and the lock it
holds keeps the counter's migration out; a migration in flight is the only one
and still is what its statements would make now (`RunsAlone`), which is where
goose needs no lock of its own; upgrades never undercut (`Aimed`). `KeptApart`
is the assumption on the operator, part of the model: a downgrade runs while no
Keeper does.

`PagingProofs` is about operators: the clamp, the token, the order, that a
token lets through what is behind its place, and what a page holds
(`PageIsNext`). `InOrder` puts at place n the element with n - 1 before it;
that this lists a finite set once needs no induction: in a strict total order no
two elements have the same number before them (`RankInGrows`), so counting is
one to one, and onto because both sets are of one size (`ListedByRank`).

### The API and the other commands

`HivedCommandsProofs` proves the four invariants of `hived_commands`. Messages
with the types of their procedures are far from inductive; the invariant is
`ApiOK`:

* `StoreOK`: rows are of their kind, or carry what only a newer Keeper writes
  (`RowTyped`); each has a version of its own that was given out; the events of
  a run are numbered from 1 on;
* `RequestOK`, `PhaseOK`: a call is one that a generated client makes, and what
  it carries fits how far it has come;
* `MessageOK`: a message answers the request. A page has each object that was
  there unchanged since the counter was read and that is between its token and
  its successor's (`PageOK`, `OnPage`). Rows written later have a version above
  the counter's, so nothing a writer does takes this away (`MatchingBack`);
* `StreamOK`: what a poll read is behind the cursor, and every row of the scope
  between the cursor and an object of the batch is in the batch (`BatchOK`).

`StoreMoves` is what all steps have in common: a row that is not what it was has
a version that is new. Each method of the API has a lemma that it keeps `ApiOK`,
once for all kinds: `HandlerSteps` reduces the services to `KindStep`, and
`FitsList`, `ReadsBack` and `Converted` go through the five kinds' messages and
conversions. `UserOK` adds that what the user's call asks is what the command
line says.

`CommandsReport` adds what a report says (`ReportOK`). `WatchSkipsNothing` needs
`WatchOK`: the lines so far, with the message that is under way, stand for
every object of the scope up to the stream's cursor (`Followed`); an object that
cannot be converted ends the stream with the cursor still below it.
`ToursAreComplete` needs `TourOK`: the pages so far are the list up to the token
(`Toured`), in order, and the first page's watermark is the oldest
(`MarkOK`); the next page begins behind the token by `PageIsNext`.

The assumptions are declared in `Wire`, `Api` and `HivedCommands`: a message
that is not set is not one that is, `Texts` is one to one, another client sends
what a generated client can send, what is stored already is typed, and a newer
Keeper's row is one this version cannot read. All conversions are in the proof;
that two other clients interfere no worse than one is not, for `Callers` is two.

### Model-checked only

`EveryCallEnds` of `PostgresStore`; `Converges`,
`IdleWatcherCheckpoints`, `EveryEventArrives` and `EveryKeeperServes`;
`EveryoneCatchesUp` of `MemoryWatch`; the liveness
properties of `ApplyCommand`: liveness under fairness, and ENABLED, are out of the
prover's reach. Every invariant and action property of the passing runs is
proved.

## Where the code and its documents disagree

Found while modelling; each is a run that ends in a counterexample.

* **`store_immutable_reapply`** (internal/store/postgres.go:90). applyImmutable reads the row with an unlocked Get and then runs a plain INSERT: when another caller creates the same AgentVersion with the same spec in between, UNIQUE (kind, colony, name) fails the INSERT and mapStoreErr turns it into CodeInternal. src/internal/store/store.go:74 says "an identical re-apply is a no-op success", and src/internal/store/memory.go:68-71, one critical section, does that.

* **`watch_last_page`** (internal/store/postgres.go:167). Every page of a List reads the counter again, so the last page's resourceVersion is newer than the rows of the pages before it. src/website/docs/resources.md:359-361 says "This is the contract that lets a client build a complete, gap-free view. 1. List the kind you care about. Page through until nextPageToken is empty. Keep listMeta.resourceVersion." A client that keeps the last one misses a change of an object on an earlier page; with the first page's (run watch_handoff) there is no gap.

* **`watch_idle`** (internal/store/postgres.go:292). A bookmark carries the Watch's own cursor, the version of the last object it sent, and not the store's counter. src/website/docs/resources.md:366-368 says bookmarks "carry no object, only a newer resourceVersion, so a watcher can advance its saved cursor without a real change"; src/proto/hived/v1alpha1/meta.proto:71-72 says a bookmark "only advances resource_version so an idle watcher can checkpoint without a real event".

* **`colony_key`** (internal/api/colony.go:24). colonyToResource keeps the colony of the metadata the client sent (resourceFromMeta, src/internal/api/convert.go:90), so Apply stores such a Colony under it; Get always asks for colony "" (src/internal/api/colony.go:76) and answers not_found for the Colony just applied, and a second Colony of the same name can be stored next to it. src/internal/api/colony.go:13-14 says "Colony is hive-scoped: it is its own tenant boundary, so it is stored with an empty store.Resource.Colony field (the resource IS the colony)."

Seen on the way, without a run:

* Two changes of one object between two polls arrive as one event (a poll reads
  rows, not a log), although resources.md:364 says every change arrives; `Watch`
  labels the first event of a stream for an object ADDED, also when the client
  has it from its List.
* A row committed between the two statements of a List is on the page and above
  the watermark: it arrives once more on the stream, where meta.proto:60-61 and
  resources.md:364 say exactly once. Nothing is missed.
* `MemoryStore.Apply` takes the PENDING status that a Run's handler sends with
  every Apply (`run.go:41-47`, `memory.go:105`): a status that ApplyStatus
  advanced is back to PENDING after a re-apply, at the same version if the spec
  is the same. `PostgresStore` never does this (`StatusAndSpecKeptApart`), and
  `run.go:13-15` says that the Scheduler is the only writer after the first
  Apply. `MirrorsContract` is stated for handlers that send no status and would
  be violated by this one.
* A conditional Apply of a key that is not there creates it in `PostgresStore`
  (the condition is on the row ON CONFLICT finds, `postgres.go:131`) and is
  `ErrConflict` in `MemoryStore` (`memory.go:75-79`). store.go:76-77 speaks of an
  existing row only. `MirrorsContract` compares what is stored, not what is
  answered, and the contract allows both.
* `hived get <kind>` prints the first page only; cli.md says it lists every
  object.
* `/readyz` pings the database and does not look at its schema: a Keeper with
  `HIVED_AUTO_MIGRATE=false` on an empty one is ready and fails every call.
* `migrate down` under Keepers that write, or a Keeper from before migration
  00003 during a rolling upgrade, may hand out a version twice. No document
  says either is supported; `Quiesced` keeps the first one out.
* `Watch` passes over a row it cannot scan (`continue`, postgres.go:267-268). No
  row the schema admits is one.

## Not modelled

Reflection and descriptors in `gen/`, and the messages and services of Drones
and brokers, which no Go code outside `gen/` uses; annotations, uids and
timestamps, which nothing compares; metrics, `/healthz` and logging, which no
call reads; `created_at` and `updated_at`; configuration other than
`HIVED_AUTO_MIGRATE`; the website, `deploy/` and build files. Large payloads,
TLS and what `kubectl`-like clients do with the API beyond listing, watching and
paging are the clients' matter.

## Plan

What is left, in this order:

1. `Callers` of any number in `Api`'s proofs: nothing in `ApiOK` counts them,
   only `HivedCommands` names two.
2. Several clients of one stream's Keeper with more than one statement per Get
   and List, in `Keeper`; today those calls are in `Api` only.
3. A Keeper from before migration 00003 next to one after it, once a document
   says whether a rolling upgrade is supported.

Liveness stays with TLC: fairness is out of the prover's reach.

