--------------------------------- MODULE Api ---------------------------------
(***************************************************************************)
(* The Keeper's API (internal/api): the mux, the interceptor and the six   *)
(* services' handlers, each with the conversions between messages and      *)
(* stored resources.  The store is what it promises: every statement takes *)
(* effect at one instant.  What goes on inside is PostgresStore's matter,  *)
(* connections and shutdown are Keeper's.                                  *)
(*                                                                         *)
(*   idle -> arrived -> dispatched [-> counted] -> answered                *)
(*                      dispatched  -> streaming -> answered               *)
(*                                                                         *)
(* A row may have been written by a Keeper of a newer version, with a      *)
(* field this version does not know: rest = "newer".  A Struct may hold a  *)
(* number JSON has no form for: rest = "nan".                              *)
(*                                                                         *)
(* Definitions marked "Wrong:" are bugs, as in PostgresStore.              *)
(***************************************************************************)
EXTENDS Handlers, Wire, Paging

CONSTANTS
  Callers,
  Texts,         \* the characters of each colony and name there is
  BatchLimit     \* LIMIT of a poll (500)

Names == DOMAIN Texts

ASSUME TextsAssumption ==
  /\ Unset \in Names /\ Names \subseteq STRING
  /\ \A s, t \in DOMAIN Texts : Texts[s] = Texts[t] => s = t
  /\ \A s \in DOMAIN Texts : Texts[s] \in Text /\ (Texts[s] = <<>> <=> s = Unset)

ASSUME BatchAssumption == BatchLimit \in Nat \ {0}

\* A message that is not set is not one that is.
ASSUME NilAssumption ==
  /\ Nil \notin Codes \cup {"unknown", "unimplemented"}
  /\ Nil \notin STRING \cup Int \cup ObjectMeta \cup Event \cup ListEventsResponse
           \cup ListOptions
  /\ \A kind \in Kinds :
       Nil \notin SpecOf(kind) \cup StatusOf(kind) \cup ObjectOf(kind)
                 \cup ListResponseOf(kind) \cup WatchEventOf(kind)

Key == [kind: Kinds, colony: Names, name: Names]

VARIABLES
  rows,      \* resources: the row of each key there is
  version,   \* hived_resource_version_counter
  log,       \* events
  call       \* per caller, its request

storeVars == <<rows, version, log>>
apiVars == <<rows, version, log, call>>

NoCall ==
  [stage |-> "idle", service |-> Unset, method |-> Unset, request |-> Nil,
   bearer |-> Unset, principal |-> Unset, mark |-> 0, cursor |-> 0, batch |-> {},
   seen |-> {}, code |-> Nil, message |-> Nil]

ApiInit(stored, n) ==
  /\ rows = stored
  /\ version = n
  /\ log = {}
  /\ call = [x \in Callers |-> NoCall]

\* Used by the clients: a request arrives.
Ask(x, c, bearer) ==
  /\ call[x].stage = "idle"
  /\ call' = [call EXCEPT ![x] = [NoCall EXCEPT
       !.stage = "arrived", !.service = c.service, !.method = c.method,
       !.request = c.request, !.bearer = bearer]]

Answer(x, code, message) ==
  call' = [call EXCEPT ![x].stage = "answered", ![x].code = code,
                       ![x].message = message, ![x].batch = {}]

Refuse(x, code) == Answer(x, code, Nil) /\ UNCHANGED storeVars

-----------------------------------------------------------------------------
(* Conversions (convert.go).                                               *)

\* protojson.Marshal fails on a number that is not one.
Marshals(rest) == rest # "nan"

\* Wrong: unknown fields are let through.
UnmarshalsAll(r) == TRUE

\* protojson.Unmarshal rejects a field it does not know.
Unmarshals(r) == r.spec.rest # "newer"

\* resourceFromMeta, and what the kind's own checks look at.  Whatever else
\* the client put into its metadata and status is dropped.
Resource(kind, m, target, zero, status) ==
  [kind   |-> kind,
   colony |-> Get(m.metadata, "colony", Unset),
   name   |-> Get(m.metadata, "name", Unset),
   labels |-> Get(m.metadata, "labels", {}),
   target |-> target,
   spec   |-> IF m.spec = Nil THEN zero ELSE m.spec,
   status |-> status]

ToObjectMeta(k, r) ==
  [name |-> k.name, colony |-> k.colony, generation |-> r.gen,
   resource_version |-> r.rv, labels |-> r.labels]

\* The message of a row; a status never written reads as the zero one.
Message(k, r, zero) ==
  [metadata |-> ToObjectMeta(k, r), spec |-> r.spec,
   status |-> IF r.status = Nil THEN zero ELSE r.status]

ToListOptions(o) ==
  IF o = Nil
  THEN [colony |-> Unset, label_selector |-> {}, page_size |-> 0, page_token |-> <<>>]
  ELSE o

\* Colonies are hive-scoped: their handler drops the colony asked for.
HiveWide(o) == [ToListOptions(o) EXCEPT !.colony = Unset]

ColonyToResource(m) ==
  Resource("Colony", m, FALSE, [display_name |-> Unset, rest |-> Unset], Nil)
ResourceToColony(k, r) == Message(k, r, [rest |-> Unset])

AgentToResource(m) == Resource("Agent", m, FALSE, [rest |-> Unset], Nil)

ResourceToAgent(k, r) == Message(k, r, [current |-> Unset, rest |-> Unset])

AgentVersionToResource(m) ==
  Resource("AgentVersion", m, Get(m.spec, "agent", Unset) # Unset,
           [agent |-> Unset, version |-> Unset, rest |-> Unset], Nil)
ResourceToAgentVersion(k, r) == Message(k, r, [rest |-> Unset])

\* A Run starts PENDING, whatever status the client sent.
RunToResource(m) ==
  Resource("Run", m, Get(m.spec, "agent_ref", Unset) # Unset,
           [agent_ref |-> Unset, rest |-> Unset], [phase |-> "PENDING", rest |-> Unset])
ResourceToRun(k, r) == Message(k, r, [phase |-> "UNSPECIFIED", rest |-> Unset])

\* Each type of Tool has a field of its own that says what it is.
ToolToResource(m) ==
  LET type == Get(m.spec, "type", "UNSPECIFIED") IN
  Resource("Tool", m,
           \/ type = "MCP" /\ m.spec.endpoint # Unset
           \/ type = "BUILTIN" /\ m.spec.builtin # Unset
           \/ type = "AGENT" /\ m.spec.agent_ref # Unset,
           [type |-> "UNSPECIFIED", endpoint |-> Unset, builtin |-> Unset,
            agent_ref |-> Unset, risk_class |-> Unset, rest |-> Unset], Nil)
ResourceToTool(k, r) == Message(k, r, [rest |-> Unset])

\* Each handler converts with its own kind's pair.
ToResource(kind, m) ==
  CASE kind = "Colony"       -> ColonyToResource(m)
    [] kind = "Agent"        -> AgentToResource(m)
    [] kind = "AgentVersion" -> AgentVersionToResource(m)
    [] kind = "Run"          -> RunToResource(m)
    [] kind = "Tool"         -> ToolToResource(m)

FromResource(k, r) ==
  CASE k.kind = "Colony"       -> ResourceToColony(k, r)
    [] k.kind = "Agent"        -> ResourceToAgent(k, r)
    [] k.kind = "AgentVersion" -> ResourceToAgentVersion(k, r)
    [] k.kind = "Run"          -> ResourceToRun(k, r)
    [] k.kind = "Tool"         -> ResourceToTool(k, r)

-----------------------------------------------------------------------------
(* What the handlers have in common.                                       *)

\* INSERT: the rows with one more.
Inserted(k, r) == [j \in DOMAIN rows \cup {k} |-> IF j = k THEN r ELSE rows[j]]

Handles(x, service, method) ==
  /\ call[x].stage \in {"dispatched", "counted", "streaming"}
  /\ call[x].service = service
  /\ call[x].method = method

\* A row as the answer.
Respond(x, k, r) ==
  IF Unmarshals(r) THEN Answer(x, "ok", FromResource(k, r)) ELSE Answer(x, "internal", Nil)

\* UPDATE: the row of an Apply that changes something.
Changed(r, o, v) ==
  [r EXCEPT !.spec = o.spec, !.labels = o.labels, !.rv = v,
            !.gen = IF r.spec = o.spec THEN @ ELSE @ + 1]

\* An Apply that creates uses one version, one that changes something two (the
\* INSERT's and the UPDATE's), one that changes nothing or is refused one;
\* of an immutable kind only one that creates does.
Save(x, o, precondition) ==
  LET k == StoreKey(o)
      fresh == [spec |-> o.spec, status |-> o.status, labels |-> o.labels,
                gen |-> 1, rv |-> version + 1]
  IN
  /\ UNCHANGED log
  /\ \/ /\ k \notin DOMAIN rows
        /\ rows' = Inserted(k, fresh)
        /\ version' = version + 1
        /\ Respond(x, k, fresh)
     \/ /\ k \in DOMAIN rows
        /\ k.kind \in ImmutableKinds
        /\ IF rows[k].spec = o.spec THEN Respond(x, k, rows[k])
           ELSE Answer(x, Code("ErrImmutable"), Nil)
        /\ UNCHANGED <<rows, version>>
     \/ /\ k \in DOMAIN rows
        /\ k.kind \notin ImmutableKinds
        /\ precondition \notin {Nil, rows[k].rv}
        /\ version' = version + 1
        /\ Answer(x, Code("ErrConflict"), Nil)
        /\ UNCHANGED rows
     \/ /\ k \in DOMAIN rows
        /\ k.kind \notin ImmutableKinds
        /\ precondition \in {Nil, rows[k].rv}
        /\ IF rows[k].spec = o.spec /\ rows[k].labels = o.labels
           THEN /\ version' = version + 1
                /\ UNCHANGED rows
           ELSE /\ version' = version + 2
                /\ rows' = [rows EXCEPT ![k] = Changed(rows[k], o, version + 2)]
        /\ Respond(x, k, rows'[k])

\* A statement fails, or what it runs on: a typed error of none of ours.
StatementFails(x) == Refuse(x, Code("failed"))

ApplyObject(x, kind) ==
  LET m == call[x].request.object
      o == ToResource(kind, m)
  IN
  \/ m = Nil /\ Refuse(x, "invalid_argument")
  \/ m # Nil /\ ~Accepted(o) /\ Refuse(x, "invalid_argument")
  \/ m # Nil /\ Accepted(o) /\ ~Marshals(o.spec.rest) /\ Refuse(x, "unknown")
  \/ /\ m # Nil /\ Accepted(o) /\ Marshals(o.spec.rest)
     /\ \/ Save(x, o, call[x].request.if_resource_version)
        \/ StatementFails(x)

GetObject(x, kind, colony) ==
  LET k == GetKey(kind, colony, call[x].request.name) IN
  \/ k \notin DOMAIN rows /\ Refuse(x, Code("ErrNotFound"))
  \/ k \in DOMAIN rows /\ Respond(x, k, rows[k]) /\ UNCHANGED storeVars
  \/ StatementFails(x)

InColony(k, colony) == colony = Unset \/ k.colony = colony

\* The rows a List asks for, as places in its order.
Matching(kind, o) ==
  {[colony |-> Texts[k.colony], name |-> Texts[k.name], key |-> k] :
     k \in {k \in DOMAIN rows :
              /\ k.kind = kind /\ InColony(k, o.colony)
              /\ o.label_selector \subseteq rows[k].labels}}

ListObjects(x, kind, o) ==
  LET page == PageOf(Matching(kind, o), o.page_token, ClampPageSize(o.page_size))
      Row(i) == rows[page.items[i].key]
  IN
  /\ UNCHANGED storeVars
  /\ \/ /\ call[x].stage = "dispatched"
        /\ call' = [call EXCEPT ![x].stage = "counted", ![x].mark = version]
     \/ /\ call[x].stage = "counted"
        /\ IF o.page_token # <<>> /\ ~WellFormed(o.page_token)
           THEN Answer(x, Code("ErrInvalidPageToken"), Nil)
           ELSE IF \E i \in DOMAIN page.items : ~Unmarshals(Row(i))
           THEN Answer(x, "internal", Nil)
           ELSE Answer(x, "ok",
             [items |-> [i \in DOMAIN page.items |-> FromResource(page.items[i].key, Row(i))],
              list_meta |-> [next_page_token |-> page.next,
                             resource_version |-> call[x].mark]])
     \/ Answer(x, Code("failed"), Nil)

-----------------------------------------------------------------------------
(* Streams: the store's goroutine and watchLoop, one message at a time.    *)

Open(x, since) ==
  /\ call[x].stage = "dispatched"
  /\ call' = [call EXCEPT ![x].stage = "streaming", ![x].cursor = since]

\* The first BatchLimit of a set of things with a version.
FirstOf(S) == {a \in S : Cardinality({b \in S : b.rv < a.rv}) < BatchLimit}

\* Nothing of the last poll is left to send, and the client has read what was.
Drained(x) ==
  call[x].stage = "streaming" /\ call[x].batch = {} /\ call[x].message = Nil

Poll(x, S) ==
  /\ Drained(x)
  /\ call' = [call EXCEPT ![x].batch = FirstOf(S)]

\* classifyWatchEvent. Nothing sets deleted_at.
Classify(x, k) == IF k \in call[x].seen THEN "MODIFIED" ELSE "ADDED"

\* Wrong: an object that cannot be converted is skipped.
UnreadableSkipped(x, o) ==
  call' = [call EXCEPT ![x].batch = @ \ {o}, ![x].cursor = o.rv]

\* watchLoop: an object that cannot be converted ends the stream.
Unreadable(x, o) == Answer(x, "internal", Nil)

SendEarliest(x) ==
  \E o \in call[x].batch :
    /\ call[x].message = Nil
    /\ \A p \in call[x].batch : o.rv <= p.rv
    /\ \/ /\ ~Unmarshals(o.row)
          /\ Unreadable(x, o)
       \/ /\ Unmarshals(o.row)
          /\ call' = [call EXCEPT
               ![x].message = [type |-> Classify(x, o.key), resource_version |-> o.rv,
                               object |-> FromResource(o.key, o.row)],
               ![x].batch = @ \ {o}, ![x].cursor = o.rv, ![x].seen = @ \cup {o.key}]

SendBookmark(x) ==
  /\ Drained(x)
  /\ call' = [call EXCEPT ![x].message =
       [type |-> "BOOKMARK", resource_version |-> call[x].cursor, object |-> Nil]]

Newer(x, kind, colony) ==
  {[key |-> k, row |-> rows[k], rv |-> rows[k].rv] :
     k \in {k \in DOMAIN rows :
              k.kind = kind /\ InColony(k, colony) /\ rows[k].rv > call[x].cursor}}

WatchObjects(x, kind, o) ==
  /\ UNCHANGED storeVars
  /\ \/ Open(x, call[x].request.since_resource_version)
     \/ Poll(x, Newer(x, kind, o.colony))
     \/ SendEarliest(x)
     \/ SendBookmark(x)

-----------------------------------------------------------------------------
(* The handlers.                                                           *)

ApplyColony(x) == ApplyObject(x, "Colony")
GetColony(x) == GetObject(x, "Colony", Unset)
ListColonies(x) == ListObjects(x, "Colony", HiveWide(call[x].request.options))
WatchColonies(x) ==
  WatchObjects(x, "Colony", HiveWide(call[x].request.options))

Options(x) == ToListOptions(call[x].request.options)

ApplyAgent(x) == ApplyObject(x, "Agent")
GetAgent(x) == GetObject(x, "Agent", call[x].request.colony)
ListAgents(x) == ListObjects(x, "Agent", Options(x))
WatchAgents(x) == WatchObjects(x, "Agent", Options(x))

ApplyAgentVersion(x) == ApplyObject(x, "AgentVersion")
GetAgentVersion(x) == GetObject(x, "AgentVersion", call[x].request.colony)
ListAgentVersions(x) == ListObjects(x, "AgentVersion", Options(x))
WatchAgentVersions(x) == WatchObjects(x, "AgentVersion", Options(x))

ApplyRun(x) == ApplyObject(x, "Run")
GetRun(x) == GetObject(x, "Run", call[x].request.colony)
ListRuns(x) == ListObjects(x, "Run", Options(x))
WatchRuns(x) == WatchObjects(x, "Run", Options(x))
Logs(x) == Refuse(x, "unimplemented")

ApplyTool(x) == ApplyObject(x, "Tool")
GetTool(x) == GetObject(x, "Tool", call[x].request.colony)

ListTools(x) == ListObjects(x, "Tool", Options(x))

WatchTools(x) == WatchObjects(x, "Tool", Options(x))

\* The events of a run.
LogOf(colony, run) == {e \in log : e.colony = colony /\ e.run = run}

\* Events of one run in seq order.
BySeq(S) == [n \in 1 .. Cardinality(S) |->
  CHOOSE e \in S : Cardinality({d \in S : d.seq < e.seq}) = n - 1]

StoreEvent(e) ==
  [colony |-> e.colony, run |-> e.run, seq |-> Cardinality(LogOf(e.colony, e.run)) + 1,
   type |-> e.type, payload |-> IF e.payload = Nil THEN Unset ELSE e.payload,
   resource_version |-> version + 1]

AppendEvent(x) ==
  LET e == call[x].request.object
      Complete == e # Nil /\ Unset \notin {e.colony, e.run, e.type}
  IN
  \/ ~Complete /\ Refuse(x, "invalid_argument")
  \/ Complete /\ ~Marshals(e.payload) /\ Refuse(x, "unknown")
  \/ /\ Complete /\ Marshals(e.payload)
     /\ \/ /\ log' = log \cup {StoreEvent(e)}
           /\ version' = version + 1
           /\ Answer(x, "ok", StoreEvent(e))
           /\ UNCHANGED rows
        \/ StatementFails(x)

ListEvents(x) ==
  LET q == call[x].request
      after == BySeq({e \in LogOf(q.colony, q.run) : e.seq > q.since_seq})
      n == ClampPageSize(q.limit)
  IN
  /\ UNCHANGED storeVars
  /\ \/ Answer(x, "ok", [items |-> SubSeq(after, 1, IF Len(after) > n THEN n ELSE Len(after))])
     \/ Answer(x, Code("failed"), Nil)

WatchEvents(x) ==
  LET q == call[x].request
      mine == LogOf(q.colony, q.run)
  IN
  /\ UNCHANGED storeVars
  /\ \/ Open(x, q.since_resource_version)
     \/ Poll(x, {[rv |-> e.resource_version, event |-> e] :
                   e \in {e \in mine : e.resource_version > call[x].cursor}})
     \/ \E o \in call[x].batch :
          /\ call[x].message = Nil
          /\ \A p \in call[x].batch : o.rv <= p.rv
          /\ call' = [call EXCEPT ![x].message = o.event, ![x].batch = @ \ {o},
                                  ![x].cursor = o.rv]

-----------------------------------------------------------------------------
(* The mux: each service's generated handler, behind the interceptor.      *)

ColonyServiceHandler(x) ==
  \/ Handles(x, "ColonyService", "Apply") /\ ApplyColony(x)
  \/ Handles(x, "ColonyService", "Get") /\ GetColony(x)
  \/ Handles(x, "ColonyService", "List") /\ ListColonies(x)
  \/ Handles(x, "ColonyService", "Watch") /\ WatchColonies(x)

AgentServiceHandler(x) ==
  \/ Handles(x, "AgentService", "Apply") /\ ApplyAgent(x)
  \/ Handles(x, "AgentService", "Get") /\ GetAgent(x)
  \/ Handles(x, "AgentService", "List") /\ ListAgents(x)
  \/ Handles(x, "AgentService", "Watch") /\ WatchAgents(x)

AgentVersionServiceHandler(x) ==
  \/ Handles(x, "AgentVersionService", "Apply") /\ ApplyAgentVersion(x)
  \/ Handles(x, "AgentVersionService", "Get") /\ GetAgentVersion(x)
  \/ Handles(x, "AgentVersionService", "List") /\ ListAgentVersions(x)
  \/ Handles(x, "AgentVersionService", "Watch") /\ WatchAgentVersions(x)

RunServiceHandler(x) ==
  \/ Handles(x, "RunService", "Apply") /\ ApplyRun(x)
  \/ Handles(x, "RunService", "Get") /\ GetRun(x)
  \/ Handles(x, "RunService", "List") /\ ListRuns(x)
  \/ Handles(x, "RunService", "Watch") /\ WatchRuns(x)
  \/ Handles(x, "RunService", "Logs") /\ Logs(x)

ToolServiceHandler(x) ==
  \/ Handles(x, "ToolService", "Apply") /\ ApplyTool(x)
  \/ Handles(x, "ToolService", "Get") /\ GetTool(x)
  \/ Handles(x, "ToolService", "List") /\ ListTools(x)
  \/ Handles(x, "ToolService", "Watch") /\ WatchTools(x)

EventServiceHandler(x) ==
  \/ Handles(x, "EventService", "Append") /\ AppendEvent(x)
  \/ Handles(x, "EventService", "List") /\ ListEvents(x)
  \/ Handles(x, "EventService", "Watch") /\ WatchEvents(x)

Mounted ==
  {"ColonyService", "AgentService", "AgentVersionService", "RunService",
   "ToolService", "EventService"}

\* StubVerifier accepts any token, or none.
Verify(bearer) == "dev"

\* authenticate, for unary calls and for streams.
Authenticate(x) ==
  /\ call[x].stage = "arrived"
  /\ call[x].service \in Mounted
  /\ call' = [call EXCEPT ![x].stage = "dispatched",
                          ![x].principal = Verify(call[x].bearer)]
  /\ UNCHANGED storeVars

\* A path nothing is mounted on: HTTP 404, which a client reads so.
NotFound(x) ==
  /\ call[x].stage = "arrived"
  /\ call[x].service \notin Mounted
  /\ Refuse(x, "unimplemented")

NewHandler(x) ==
  \/ Authenticate(x)
  \/ NotFound(x)
  \/ ColonyServiceHandler(x)
  \/ AgentServiceHandler(x)
  \/ AgentVersionServiceHandler(x)
  \/ RunServiceHandler(x)
  \/ ToolServiceHandler(x)
  \/ EventServiceHandler(x)

ApiNext == \E x \in Callers : NewHandler(x)
=============================================================================
