---------------------------- MODULE HivedCommands ----------------------------
(***************************************************************************)
(* The `hived` commands other than apply (cmd/hived/cmd) against the API,  *)
(* and a client of the API that follows page tokens, while another client  *)
(* makes requests of its own and a Keeper of a newer version writes rows.  *)
(*                                                                         *)
(*   start -> waiting -> done                                              *)
(*                                                                         *)
(* A job is a command line, or a tour of all pages ("page"): which fields  *)
(* of it matter depends on its command.                                    *)
(***************************************************************************)
EXTENDS Api

CONSTANTS
  User, Other,     \* the two callers
  Jobs,            \* what the user may do
  Requests(_),     \* per job, what the other client may ask
  NewerRows(_),    \* per job, the keys and specs a newer Keeper may write
  Stored(_),       \* per job, what is stored already, in the order it was
  MaxVersion,      \* bound: nothing more is written from this version on
  MaxRequests,     \* bound: requests of the other client
  MaxLines         \* bound: lines of a stream the user reads

ASSUME CallersAssumption == Callers = {User, Other} /\ User # Other

VARIABLES
  job,       \* the job
  stage,     \* how far it is
  printed,   \* what is on stdout: messages, or lines of a stream
  exit,      \* exit status: 0, 1, 2 for a crash, Nil while it runs
  cut,       \* Ctrl-C, the timeout or a broken connection ended it
  pages,     \* of a tour: the objects so far, the first page's watermark, the
             \* page token it goes on with
  requests   \* of the other client so far

userVars == <<job, stage, printed, exit, cut, pages>>
vars == <<apiVars, userVars, requests>>

\* The rows of objects applied one after the other.
RowsOf(objects) ==
  [k \in {StoreKey(objects[i]) : i \in DOMAIN objects} |->
     LET i == CHOOSE i \in DOMAIN objects : StoreKey(objects[i]) = k IN
     [spec |-> objects[i].spec, status |-> objects[i].status,
      labels |-> objects[i].labels, gen |-> 1, rv |-> i]]

Init ==
  /\ job \in Jobs
  /\ ApiInit(RowsOf(Stored(job)), Len(Stored(job)))
  /\ stage = "start"
  /\ printed = <<>>
  /\ exit = Nil
  /\ cut = FALSE
  /\ pages = [items |-> <<>>, mark |-> Nil, token |-> <<>>]
  /\ requests = 0

Exit(status) == stage' = "done" /\ exit' = status

-----------------------------------------------------------------------------
(* What a command refuses before it asks anything.                         *)

\* Wrong: checked where an object is printed, which an empty list never is.
ValidateOutputLate(output) == TRUE

ValidateOutput(output) == output \in {"table", "json", "yaml"}

ResolveKind(alias) ==
  CASE alias \in {"colony", "colonies", "co"}            -> "Colony"
    [] alias \in {"agent", "agents", "ag"}               -> "Agent"
    [] alias \in {"agentversion", "agentversions", "av"} -> "AgentVersion"
    [] alias \in {"run", "runs"}                         -> "Run"
    [] alias \in {"tool", "tools"}                       -> "Tool"
    [] OTHER                                             -> Nil

Asks == {"get", "list", "watch", "events", "run", "page"}

\* Per command, what its line must have.
Complete(j) ==
  CASE j.command \in {"get", "list", "watch"} -> ResolveKind(j.alias) # Nil
    [] j.command = "events"                   -> j.colony # Unset
    [] j.command = "run" -> j.colony # Unset /\ j.name # Unset /\ j.input # "not JSON"
    [] OTHER                                  -> TRUE

\* `hived logs` and `hived approve` have nothing to ask yet.
NotImplemented(j) == j.command \in {"logs", "approve"}

-----------------------------------------------------------------------------
(* What it asks.                                                           *)

ServiceOf(kind) ==
  CASE kind = "Colony"       -> "ColonyService"
    [] kind = "Agent"        -> "AgentService"
    [] kind = "AgentVersion" -> "AgentVersionService"
    [] kind = "Run"          -> "RunService"
    [] kind = "Tool"         -> "ToolService"

Asked(service, method, request) ==
  [service |-> service, method |-> method, request |-> request]

\* `hived get <kind> <name>`
GetOne(j) ==
  LET kind == ResolveKind(j.alias) IN
  Asked(ServiceOf(kind), "Get",
        IF kind = "Colony" THEN [name |-> j.name]
        ELSE [colony |-> j.colony, name |-> j.name])

CommandOptions(j) ==
  [colony |-> j.colony, label_selector |-> {}, page_size |-> 0, page_token |-> <<>>]

\* `hived get <kind>`: the first page.
ListAll(j) ==
  Asked(ServiceOf(ResolveKind(j.alias)), "List", [options |-> CommandOptions(j)])

\* `hived watch <kind>`
WatchKind(j) ==
  Asked(ServiceOf(ResolveKind(j.alias)), "Watch",
        [options |-> CommandOptions(j), since_resource_version |-> j.since])

\* `hived events <run>`
Events(j) ==
  Asked("EventService", "List",
        [colony |-> j.colony, run |-> j.name, since_seq |-> j.since, limit |-> 0])

\* `hived run <agent>`
CreateRun(j) ==
  Asked("RunService", "Apply",
        [object |->
           [metadata |-> [name |-> j.name, colony |-> j.colony, generation |-> 0,
                          resource_version |-> 0, labels |-> {}],
            spec |-> [agent_ref |-> j.agent, rest |-> j.input], status |-> Nil],
         if_resource_version |-> Nil])

\* The next page of a tour.
NextPage(j) ==
  Asked(ServiceOf(ResolveKind(j.alias)), "List",
        [options |-> [colony |-> j.colony, label_selector |-> j.selector,
                      page_size |-> j.page_size, page_token |-> pages.token]])

CallOf(j) ==
  CASE j.command = "get"    -> GetOne(j)
    [] j.command = "list"   -> ListAll(j)
    [] j.command = "watch"  -> WatchKind(j)
    [] j.command = "events" -> Events(j)
    [] j.command = "run"    -> CreateRun(j)
    [] j.command = "page"   -> NextPage(j)

-----------------------------------------------------------------------------
(* What callers may ask, and what they may find.                           *)

ASSUME JobsAssumption ==
  \A j \in Jobs :
    /\ j \in [command: Asks \cup {"logs", "approve", "version"}, alias: STRING,
              name: Names, colony: Names, output: STRING, token: STRING, since: Int,
              input: Rests \cup {"not JSON"}, agent: STRING,
              selector: SUBSET STRING, page_size: Int]
    /\ j.command = "page" => ResolveKind(j.alias) # Nil

ASSUME RequestsAssumption ==
  \A j \in Jobs : \A c \in Requests(j) : c.service \in Mounted =>
    /\ [service |-> c.service, method |-> c.method, request |-> c.request,
        message |-> Nil] \in Clients
    /\ c.method = "Apply" /\ c.request.object # Nil =>
         /\ Get(c.request.object.metadata, "colony", Unset) \in Names
         /\ Get(c.request.object.metadata, "name", Unset) \in Names

ASSUME StoredAssumption ==
  \A j \in Jobs :
    /\ Stored(j) \in Seq({Stored(j)[i] : i \in DOMAIN Stored(j)})
    /\ \A i \in DOMAIN Stored(j) :
         LET o == Stored(j)[i] IN
         /\ StoreKey(o) \in Key /\ o.labels \in SUBSET STRING
         /\ o.spec \in SpecOf(o.kind) /\ o.status \in Optional(StatusOf(o.kind))

ASSUME NewerRowsAssumption ==
  \A j \in Jobs : \A r \in NewerRows(j) : r.key \in Key /\ r.spec.rest = "newer"

-----------------------------------------------------------------------------
(* Steps of a command.                                                     *)

\* The command line is refused, or the command has nothing to do yet.
RefuseLine ==
  /\ stage = "start"
  /\ ~ValidateOutput(job.output) \/ ~Complete(job) \/ NotImplemented(job)
  /\ Exit(1)
  /\ UNCHANGED <<apiVars, job, printed, cut, pages, requests>>

Version ==
  /\ stage = "start"
  /\ job.command = "version"
  /\ ValidateOutput(job.output)
  /\ printed' = <<"hived">>
  /\ Exit(0)
  /\ UNCHANGED <<apiVars, job, cut, pages, requests>>

\* The authInterceptor puts --token on every request, unary or streaming.
Send ==
  /\ stage = "start"
  /\ job.command \in Asks
  /\ ValidateOutput(job.output)
  /\ Complete(job)
  /\ Ask(User, CallOf(job), job.token)
  /\ stage' = "waiting"
  /\ UNCHANGED <<storeVars, job, printed, exit, cut, pages, requests>>

\* The submessages of an item that a table row of its kind reads a field of.
Reads(kind) ==
  CASE kind \in {"Colony", "AgentVersion", "Tool"} -> {"metadata", "spec"}
    [] kind = "Agent"                              -> {"metadata", "status"}
    [] kind = "Run"                                -> {"metadata", "spec", "status"}

\* Reading a field of a submessage that is not set is a nil dereference.
TableCrashes(kind, items) ==
  \E i \in DOMAIN items, part \in Reads(kind) : items[i][part] = Nil

\* printObject, printObjects and printTable: an output they do not know is
\* refused only here unless it was before.
Render(items) ==
  IF job.output \in {"table", "json", "yaml"}
  THEN printed' = items /\ Exit(0)
  ELSE printed' = <<>> /\ Exit(1)

ReceiveOne ==
  /\ job.command \in {"get", "run"}
  /\ Render(<<call[User].message>>)

ReceiveList ==
  LET items == call[User].message.items IN
  /\ job.command = "list"
  /\ IF job.output = "table" /\ TableCrashes(ResolveKind(job.alias), items)
     THEN UNCHANGED printed /\ Exit(2)
     ELSE Render(items)

\* Each event is printed on its own, so that none may be no event at all.
ReceiveEvents ==
  LET items == call[User].message.items IN
  /\ job.command = "events"
  /\ IF items = <<>> THEN UNCHANGED printed /\ Exit(0) ELSE Render(items)

Answered(right) == stage = "waiting" /\ call[User].stage = "answered" /\ right

\* A unary command has its answer.
Receive ==
  /\ Answered(call[User].code = "ok")
  /\ ReceiveOne \/ ReceiveList \/ ReceiveEvents
  /\ UNCHANGED <<apiVars, job, cut, pages, requests>>

\* Any code but ok, as a command's answer or as the end of a stream.
ReceiveError ==
  /\ Answered(call[User].code # "ok")
  /\ call[User].message = Nil
  /\ Exit(1)
  /\ UNCHANGED <<apiVars, job, printed, cut, pages, requests>>

\* A line of `hived watch`: type, version and name, or no name.
Line(m) ==
  [type |-> m.type, resource_version |-> m.resource_version,
   colony |-> IF m.object = Nil THEN Unset ELSE m.object.metadata.colony,
   name   |-> IF m.object = Nil THEN Unset ELSE m.object.metadata.name]

ReceiveMessage ==
  LET m == call[User].message IN
  /\ stage = "waiting"
  /\ job.command = "watch"
  /\ m # Nil
  /\ Len(printed) < MaxLines
  /\ IF Get(m.object, "metadata", m) = Nil
     THEN Exit(2) /\ UNCHANGED printed
     ELSE printed' = Append(printed, Line(m)) /\ UNCHANGED <<stage, exit>>
  /\ call' = [call EXCEPT ![User].message = Nil]
  /\ UNCHANGED <<storeVars, job, cut, pages, requests>>

\* The next page of a tour is asked for until a page has no token.
ReceivePage ==
  LET page == call[User].message IN
  /\ Answered(call[User].code = "ok")
  /\ job.command = "page"
  /\ pages' = [items |-> pages.items \o page.items,
               mark  |-> IF pages.mark = Nil THEN page.list_meta.resource_version
                         ELSE pages.mark,
               token |-> page.list_meta.next_page_token]
  /\ IF page.list_meta.next_page_token = <<>> THEN Exit(0)
     ELSE stage' = "start" /\ UNCHANGED exit
  /\ call' = [call EXCEPT ![User] = NoCall]
  /\ UNCHANGED <<storeVars, job, printed, cut, requests>>

\* Ctrl-C, --timeout, a Keeper that is not reached or a lost connection. What
\* was asked may still be done.
Interrupt ==
  /\ stage = "waiting"
  /\ cut' = TRUE
  /\ Exit(1)
  /\ UNCHANGED <<apiVars, job, printed, pages, requests>>

UserNext ==
  \/ RefuseLine \/ Version \/ Send \/ Receive \/ ReceiveError \/ ReceiveMessage
  \/ ReceivePage \/ Interrupt

-----------------------------------------------------------------------------
(* The other client of the API, and a newer Keeper on the same database,   *)
(* for as long as the user is not done.                                    *)

OtherAsks ==
  /\ exit = Nil
  /\ version < MaxVersion
  /\ requests < MaxRequests
  /\ \E c \in Requests(job) : Ask(Other, c, Unset)
  /\ requests' = requests + 1
  /\ UNCHANGED <<storeVars, userVars>>

OtherReads ==
  /\ call[Other].stage = "answered" \/ call[Other].message # Nil
  /\ call' = [call EXCEPT ![Other] =
       IF call[Other].stage = "answered" THEN NoCall ELSE [@ EXCEPT !.message = Nil]]
  /\ UNCHANGED <<storeVars, userVars, requests>>

\* External. The row is one this version cannot read.
NewerKeeperWrites ==
  /\ exit = Nil
  /\ version < MaxVersion
  /\ \E r \in NewerRows(job) :
       /\ r.key \notin DOMAIN rows
       /\ rows' = Inserted(r.key, [spec |-> r.spec, status |-> Nil, labels |-> {},
                                   gen |-> 1, rv |-> version + 1])
  /\ version' = version + 1
  /\ UNCHANGED <<log, call, userVars, requests>>

Next ==
  \/ ApiNext /\ UNCHANGED <<userVars, requests>>
  \/ UserNext
  \/ OtherAsks
  \/ OtherReads
  \/ NewerKeeperWrites

Spec == Init /\ [][Next]_vars

-----------------------------------------------------------------------------
(* Properties.                                                             *)

\* Messages have the types their procedures declare (service.connect.go): what
\* a caller asked, what it was answered and every message of a stream, each
\* with its object's own spec and status; and an answer to a unary call is
\* there exactly when its code says so. Every request a handler sees has a
\* principal (interceptors.go:61,89).
ApiTypeOK ==
  \A x \in Callers :
    LET c == call[x] IN
    /\ c.service \in Mounted =>
         [service |-> c.service, method |-> c.method, request |-> c.request,
          message |-> c.message] \in Clients
    /\ c.code \in Codes \cup {Nil, "unknown", "unimplemented"}
    /\ c.stage = "answered" => (c.code = "ok" <=> c.message # Nil)
    /\ c.stage \in {"dispatched", "counted", "streaming"} => c.principal = "dev"
    /\ c.cursor \in Int /\ c.mark \in Nat

\* The places of items, in their order.
Places(items) ==
  [i \in DOMAIN items |-> [colony |-> Texts[items[i].metadata.colony],
                          name   |-> Texts[items[i].metadata.name]]]

\* A tour of the pages of a kind (meta.proto: next_page_token; postgres.go:179-183)
\* gets every object once, in the order of (colony, name), and misses none that
\* it asks for and that has not changed since the first page was read, whatever
\* was created or changed between two pages.
PagesComplete ==
  job.command = "page" =>
    LET seen == Places(pages.items)
        kind == ResolveKind(job.alias)
        o == [CommandOptions(job) EXCEPT
                !.label_selector = job.selector, !.colony = IF kind = "Colony" THEN Unset ELSE @]
    IN
    /\ \A i \in 1 .. Len(seen) - 1 : Before(seen[i], seen[i + 1])
    /\ exit = 0 =>
         \A p \in Matching(kind, o) :
           rows[p.key].rv <= pages.mark =>
             \E i \in DOMAIN seen : seen[i].colony = p.colony /\ seen[i].name = p.name

\* Of the colony and the name the command asked for.
InScope(m) ==
  LET kind == ResolveKind(job.alias) IN
  /\ kind # "Colony" /\ job.colony # Unset => m.metadata.colony = job.colony
  /\ job.command = "get" => m.metadata.name = job.name

\* What a command prints and how it exits is what happened. Exit status 0: the
\* output is one it knows and it printed the answer, all of it, of the object
\* or of the kind and colony it was asked for; an answer is reported as a
\* failure only to a user who left. It sends the user's token, on streams too
\* (client.go:17-23), and it never crashes on a message (get.go, watch.go read
\* submessages without getters).
ReportsWhatHappened ==
  LET c == call[User] IN
  /\ exit # 2
  /\ exit = 0 /\ job.command # "page" =>
       /\ job.output \in {"table", "json", "yaml"}
       /\ job.command = "version" \/ c.code = "ok"
       /\ job.command \in {"list", "events"} => printed = c.message.items
       /\ job.command \in {"get", "run"} => printed = <<c.message>>
       /\ job.command \in {"get", "list"} => \A i \in DOMAIN printed : InScope(printed[i])
  /\ exit = 1 /\ ~cut => c.code # "ok"
  /\ job.command \in {"logs", "approve"} => exit # 0
  /\ c.stage # "idle" => c.bearer = job.token

\* How far the stream on stdout has come.
LastPrinted ==
  IF printed = <<>> THEN job.since ELSE printed[Len(printed)].resource_version

\* A line about the object with this key.
Shows(l, k) == l.type # "BOOKMARK" /\ l.colony = k.colony /\ l.name = k.name

\* The stream of `hived watch` skips nothing: when a line with a version is on
\* stdout, so is every object the user asked for, in its present version, that
\* is not newer than it; an object that cannot be read ends the stream and is
\* never passed over (convert.go:155-158). An object's first line says ADDED,
\* its later ones MODIFIED, and versions never go back.
StreamSkipsNothing ==
  job.command = "watch" =>
    LET kind == ResolveKind(job.alias) IN
    /\ \A i, j \in DOMAIN printed : i < j =>
         printed[i].resource_version <= printed[j].resource_version
    /\ \A k \in DOMAIN rows :
         LET lines == {i \in DOMAIN printed : Shows(printed[i], k)} IN
         k.kind = kind /\ InColony(k, IF kind = "Colony" THEN Unset ELSE job.colony) =>
           /\ job.since < rows[k].rv /\ rows[k].rv <= LastPrinted =>
                \E i \in lines : printed[i].resource_version = rows[k].rv
           /\ \A i \in lines :
                printed[i].type = "ADDED" <=> \A j \in lines : i <= j
=============================================================================
