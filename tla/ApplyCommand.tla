---------------------------- MODULE ApplyCommand ----------------------------
(***************************************************************************)
(* `hived apply -f` (cmd/hived/cmd/apply.go) against a Keeper: it reads    *)
(* every document of the manifest, applies them one by one, stops at the   *)
(* first failure and reports what has landed.                              *)
(*                                                                         *)
(* A document carries what the command looks at: whether the envelope is   *)
(* readable (YAML, apiVersion and kind), whether the command knows the     *)
(* kind and every field, and the object it sends.                          *)
(***************************************************************************)
EXTENDS Keeper

CONSTANT Manifests    \* per client, the manifests it may be given

Document == [readable: BOOLEAN, known: BOOLEAN, object: Object]

Report == [applied: Nat, skipped: Nat]

ASSUME ManifestAssumption ==
  \A x \in Clients : \A m \in Manifests[x] : m \in Seq(Document)
ASSUME NilAssumption == Nil \notin {0, 1} \cup Report

VARIABLE cmd    \* per client, the command

vars == <<keeperVars, cmd>>

Init ==
  /\ KeeperInit
  /\ \E given \in [Clients -> UNION {Manifests[x] : x \in Clients}] :
       /\ \A x \in Clients : given[x] \in Manifests[x]
       /\ cmd = [x \in Clients |->
            [stage |-> "reading", docs |-> given[x], at |-> 0, exit |-> Nil,
             report |-> Nil]]

Current(x) == cmd[x].docs[cmd[x].at]

\* Wrong: the failed document is counted among those that landed.
ReportAfterOffByOne(c) ==
  IF c.at = 0 THEN Nil
  ELSE [applied |-> c.at, skipped |-> Len(c.docs) - c.at]

\* What the command says on stderr: how many documents were applied before the
\* failure and how many were not attempted, or nothing when the first one fails.
ReportAfter(c) ==
  IF c.at \in {0, 1} THEN Nil
  ELSE [applied |-> c.at - 1, skipped |-> Len(c.docs) - c.at]

Fail(x) ==
  cmd' = [cmd EXCEPT ![x] = [@ EXCEPT !.stage = "done", !.exit = 1,
                                      !.report = ReportAfter(cmd[x])]]

\* readManifests reads every document before the first one is applied.
Readable(m) == m # << >> /\ \A i \in DOMAIN m : m[i].readable

Read(x) ==
  /\ cmd[x].stage = "reading"
  /\ \/ /\ Readable(cmd[x].docs)
        /\ cmd' = [cmd EXCEPT ![x].stage = "sending", ![x].at = 1]
     \/ /\ ~Readable(cmd[x].docs)
        /\ Fail(x)
  /\ UNCHANGED keeperVars

\* protojson rejects an unknown field, applyOne an unknown kind.
RejectDocument(x) ==
  /\ cmd[x].stage = "sending"
  /\ ~Current(x).known
  /\ Fail(x)
  /\ UNCHANGED keeperVars

Send(x) ==
  /\ cmd[x].stage = "sending"
  /\ Current(x).known
  /\ Arrive(x, Current(x).object)
  /\ cmd' = [cmd EXCEPT ![x].stage = "waiting"]

\* The Keeper cannot be reached.
NotReached(x) ==
  /\ cmd[x].stage = "sending"
  /\ Current(x).known
  /\ Fail(x)
  /\ UNCHANGED keeperVars

Receive(x) ==
  LET c == cmd[x] IN
  /\ c.stage = "waiting"
  /\ call[x].stage = "answered"
  /\ \/ /\ call[x].code = "ok"
        /\ cmd' = [cmd EXCEPT ![x] =
             IF c.at = Len(c.docs)
             THEN [c EXCEPT !.stage = "done", !.exit = 0]
             ELSE [c EXCEPT !.stage = "sending", !.at = c.at + 1]]
     \/ /\ call[x].code # "ok"
        /\ Fail(x)
  /\ UNCHANGED keeperVars

\* The request ends without an answer the command can use: --timeout is over,
\* Ctrl-C, the connection breaks, or printing the answer fails.
\* The Keeper cancels the request's context, whatever its handler is doing.
GiveUp(x) ==
  /\ cmd[x].stage = "waiting"
  /\ Fail(x)
  /\ call' = [call EXCEPT ![x].client = "gone"]
  /\ UNCHANGED <<phase, free, stored, stream, landed>>

CommandStep(x) ==
  Read(x) \/ RejectDocument(x) \/ Send(x) \/ NotReached(x) \/ Receive(x)
  \/ GiveUp(x)

Next ==
  \/ KeeperNext /\ UNCHANGED cmd
  \/ \E x \in Clients : CommandStep(x)

\* The connection ended with the Keeper's process.
Disconnected(x) == call[x].stage = "lost"

\* What a command does sooner or later. Giving up is its choice while the call
\* is pending: with --timeout 0 a command has no deadline.
Owed(x) ==
  \/ Read(x) \/ RejectDocument(x) \/ Send(x) \/ NotReached(x) \/ Receive(x)
  \/ Disconnected(x) /\ GiveUp(x)

Fairness == KeeperFairness /\ \A x \in Clients : WF_vars(Owed(x))

Spec == Init /\ [][Next]_vars /\ Fairness

-----------------------------------------------------------------------------
(* Properties.                                                             *)

Objects(m) == [i \in DOMAIN m |-> m[i].object]

CmdRecord ==
  [stage: {"reading", "sending", "waiting", "done"}, docs: Seq(Document),
   at: Nat, exit: {0, 1, Nil}, report: Report \cup {Nil}]

\* Types of the variables. What is stored passed the handlers' validation: it
\* has a name, and a colony unless it is a Colony.
KeeperTypeOK ==
  /\ phase \in {"serving", "draining", "closing", "exited"}
  /\ free \in 0 .. PoolSize
  /\ \A k \in DOMAIN stored :
       k.kind \in Kinds /\ k.name # "" /\ (k.kind # "Colony" => k.colony # "")
  /\ call \in [Clients -> CallRecord]
  /\ stream \in [Watchers -> StreamRecord]
  /\ landed \in [Clients -> Seq(Object)]
  /\ cmd \in [Clients -> CmdRecord]

RunningCalls == {x \in Clients : call[x].stage = "running"}
OpenPolls == {w \in Watchers : stream[w].stage = "sending"}

\* Every connection is free or held by a running statement or by a poll whose
\* rows are open: no failure, no lost client and no shutdown leaks one, and
\* none is handed out twice. pool.Close() in cmd/keeper/main.go relies on it.
ConnectionsAddUp ==
  free + Cardinality(RunningCalls) + Cardinality(OpenPolls) = PoolSize

\* What `hived apply` says is what happened (apply.go:30-44, cli.md:64-65).
\* Documents land in the manifest's order, each at most once. Exit status 0:
\* all of them. A report: as many as it counts have, and none of those it
\* calls not attempted; the one that failed may have, for its answer can be
\* lost. A failure without a report: at most the first one. An unreadable
\* manifest: none.
ReportIsTrue ==
  \A x \in Clients :
    LET c == cmd[x]
        n == Len(landed[x])
    IN
    /\ n <= Len(c.docs) /\ landed[x] = SubSeq(Objects(c.docs), 1, n)
    /\ c.exit = 0 => n = Len(c.docs)
    /\ c.exit = 1 /\ c.report # Nil =>
         c.report.applied <= n /\ n <= Len(c.docs) - c.report.skipped
    /\ c.exit = 1 /\ c.report = Nil => n <= 1
    /\ (\E i \in DOMAIN c.docs : ~c.docs[i].readable) => n = 0

\* Two Applies of one AgentVersion that both took effect had the same spec, in
\* whatever order their reads and inserts ran (postgres.go:76-100).
AgentVersionsAgree ==
  \A x, y \in Clients : \A i \in DOMAIN landed[x], j \in DOMAIN landed[y] :
    LET o == landed[x][i]
        p == landed[y][j]
    IN o.kind = "AgentVersion" /\ StoreKey(o) = StoreKey(p) => o.spec = p.spec

\* What Apply stored, Get finds under the kind, colony and name the object was
\* applied with, when no manifest puts a Colony into a colony: ColonyIsHiveScoped
\* is about those that do.
AppliedIsFound ==
  \A x \in Clients : \A i \in DOMAIN landed[x] :
    LET o == landed[x][i]
    IN GetKey(o.kind, o.colony, o.name) \in DOMAIN stored

\* colony.go:12-14: "Colony is hive-scoped: it is its own tenant boundary, so
\* it is stored with an empty store.Resource.Colony field".
ColonyIsHiveScoped ==
  \A k \in DOMAIN stored : k.kind = "Colony" => k.colony = ""

\* From some point on no client of a stream stops reading for good without
\* leaving.
ClientsRead == <>[](\A w \in Watchers : stream[w].client # "stalled")

\* While clients of streams read, a command needs no --timeout to end
\* (client.go:75-80, cli.md:26): whatever fails, and whoever else waits for a
\* connection, the Keeper answers every call or ends and drops it.
CommandsEndUntimed == ClientsRead => \A x \in Clients : <>(cmd[x].stage = "done")

\* While clients read, connections keep coming free: a poll's hold on one ends.
ConnectionsComeFree == ClientsRead => []<>(free > 0)

\* While clients read, a Keeper told to stop does stop, whatever streams are
\* open: Shutdown gives up on them, and pool.Close() gets every connection.
ShutdownEnds ==
  ClientsRead => (phase \in {"draining", "closing"} ~> phase = "exited")
=============================================================================
