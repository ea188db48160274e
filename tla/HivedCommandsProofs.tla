------------------------- MODULE HivedCommandsProofs -------------------------
EXTENDS HivedCommands, PagingProofs, FiniteSetTheorems

(***************************************************************************)
(* Proofs about the commands of hived and the API that answers them:       *)
(*                                                                         *)
(*   MessagesAreTyped    requests and answers are what procedures declare  *)
(*   CommandsReport      a command reports what happened to its call       *)
(*   WatchSkipsNothing   a line of `hived watch` leaves nothing out        *)
(*   ToursAreComplete    the pages of a list, put together, are the list   *)
(*                                                                         *)
(* None of these is inductive.  ApiOK is: rows and the log are of their    *)
(* kinds, versions are given out once (StoreOK), and each call is one that *)
(* a generated client makes, at a stage that fits what it carries          *)
(* (RequestOK, PhaseOK), with a message that answers it (MessageOK) and,   *)
(* in a stream, what the last poll read (StreamOK).  UserOK adds that what *)
(* the user asked for is what the job says.  On the two of them stand      *)
(* ReportOK, WatchOK (what was printed, and the message under way, follow  *)
(* the stream's cursor) and TourOK (the pages read so far are the list up  *)
(* to the token).                                                          *)
(***************************************************************************)

-----------------------------------------------------------------------------
(* What the generated clients can ask and read, kind by kind.              *)

\* A call with such a request and such a message.
Fits(service, method, request, message) ==
  [service |-> service, method |-> method, request |-> request,
   message |-> message] \in Clients

\* Every call a generated client can make.
LEMMA FitsList ==
  ASSUME NEW s, NEW m, NEW q, NEW a
  PROVE  Fits(s, m, q, a) <=>
    \/ s = "ColonyService" /\ m = "Apply" /\ q \in ApplyColonyRequest /\ a \in Optional(Colony)
    \/ s = "ColonyService" /\ m = "Get" /\ q \in GetColonyRequest /\ a \in Optional(Colony)
    \/ s = "ColonyService" /\ m = "List" /\ q \in ListColoniesRequest /\ a \in Optional(ListColoniesResponse)
    \/ s = "ColonyService" /\ m = "Watch" /\ q \in WatchColoniesRequest /\ a \in Optional(ColonyWatchEvent)
    \/ s = "AgentService" /\ m = "Apply" /\ q \in ApplyAgentRequest /\ a \in Optional(Agent)
    \/ s = "AgentService" /\ m = "Get" /\ q \in GetAgentRequest /\ a \in Optional(Agent)
    \/ s = "AgentService" /\ m = "List" /\ q \in ListAgentsRequest /\ a \in Optional(ListAgentsResponse)
    \/ s = "AgentService" /\ m = "Watch" /\ q \in WatchAgentsRequest /\ a \in Optional(AgentWatchEvent)
    \/ s = "AgentVersionService" /\ m = "Apply" /\ q \in ApplyAgentVersionRequest /\ a \in Optional(AgentVersion)
    \/ s = "AgentVersionService" /\ m = "Get" /\ q \in GetAgentVersionRequest /\ a \in Optional(AgentVersion)
    \/ s = "AgentVersionService" /\ m = "List" /\ q \in ListAgentVersionsRequest /\ a \in Optional(ListAgentVersionsResponse)
    \/ s = "AgentVersionService" /\ m = "Watch" /\ q \in WatchAgentVersionsRequest /\ a \in Optional(AgentVersionWatchEvent)
    \/ s = "RunService" /\ m = "Apply" /\ q \in ApplyRunRequest /\ a \in Optional(Run)
    \/ s = "RunService" /\ m = "Get" /\ q \in GetRunRequest /\ a \in Optional(Run)
    \/ s = "RunService" /\ m = "List" /\ q \in ListRunsRequest /\ a \in Optional(ListRunsResponse)
    \/ s = "RunService" /\ m = "Watch" /\ q \in WatchRunsRequest /\ a \in Optional(RunWatchEvent)
    \/ s = "RunService" /\ m = "Logs" /\ q \in RunLogsRequest /\ a \in Optional(RunLogChunk)
    \/ s = "ToolService" /\ m = "Apply" /\ q \in ApplyToolRequest /\ a \in Optional(Tool)
    \/ s = "ToolService" /\ m = "Get" /\ q \in GetToolRequest /\ a \in Optional(Tool)
    \/ s = "ToolService" /\ m = "List" /\ q \in ListToolsRequest /\ a \in Optional(ListToolsResponse)
    \/ s = "ToolService" /\ m = "Watch" /\ q \in WatchToolsRequest /\ a \in Optional(ToolWatchEvent)
    \/ s = "EventService" /\ m = "Append" /\ q \in AppendEventRequest /\ a \in Optional(Event)
    \/ s = "EventService" /\ m = "List" /\ q \in ListEventsRequest /\ a \in Optional(ListEventsResponse)
    \/ s = "EventService" /\ m = "Watch" /\ q \in WatchEventsRequest /\ a \in Optional(Event)
<1> DEFINE c == [service |-> s, method |-> m, request |-> q, message |-> a]
<1>1. c \in ColonyServiceClient <=>
       \/ s = "ColonyService" /\ m = "Apply" /\ q \in ApplyColonyRequest /\ a \in Optional(Colony)
       \/ s = "ColonyService" /\ m = "Get" /\ q \in GetColonyRequest /\ a \in Optional(Colony)
       \/ s = "ColonyService" /\ m = "List" /\ q \in ListColoniesRequest /\ a \in Optional(ListColoniesResponse)
       \/ s = "ColonyService" /\ m = "Watch" /\ q \in WatchColoniesRequest /\ a \in Optional(ColonyWatchEvent)
  BY DEF ColonyServiceClient, Procedure
<1>2. c \in AgentServiceClient <=>
       \/ s = "AgentService" /\ m = "Apply" /\ q \in ApplyAgentRequest /\ a \in Optional(Agent)
       \/ s = "AgentService" /\ m = "Get" /\ q \in GetAgentRequest /\ a \in Optional(Agent)
       \/ s = "AgentService" /\ m = "List" /\ q \in ListAgentsRequest /\ a \in Optional(ListAgentsResponse)
       \/ s = "AgentService" /\ m = "Watch" /\ q \in WatchAgentsRequest /\ a \in Optional(AgentWatchEvent)
  BY DEF AgentServiceClient, Procedure
<1>3. c \in AgentVersionServiceClient <=>
       \/ s = "AgentVersionService" /\ m = "Apply" /\ q \in ApplyAgentVersionRequest /\ a \in Optional(AgentVersion)
       \/ s = "AgentVersionService" /\ m = "Get" /\ q \in GetAgentVersionRequest /\ a \in Optional(AgentVersion)
       \/ s = "AgentVersionService" /\ m = "List" /\ q \in ListAgentVersionsRequest /\ a \in Optional(ListAgentVersionsResponse)
       \/ s = "AgentVersionService" /\ m = "Watch" /\ q \in WatchAgentVersionsRequest /\ a \in Optional(AgentVersionWatchEvent)
  BY DEF AgentVersionServiceClient, Procedure
<1>4. c \in RunServiceClient <=>
       \/ s = "RunService" /\ m = "Apply" /\ q \in ApplyRunRequest /\ a \in Optional(Run)
       \/ s = "RunService" /\ m = "Get" /\ q \in GetRunRequest /\ a \in Optional(Run)
       \/ s = "RunService" /\ m = "List" /\ q \in ListRunsRequest /\ a \in Optional(ListRunsResponse)
       \/ s = "RunService" /\ m = "Watch" /\ q \in WatchRunsRequest /\ a \in Optional(RunWatchEvent)
       \/ s = "RunService" /\ m = "Logs" /\ q \in RunLogsRequest /\ a \in Optional(RunLogChunk)
  BY DEF RunServiceClient, Procedure
<1>5. c \in ToolServiceClient <=>
       \/ s = "ToolService" /\ m = "Apply" /\ q \in ApplyToolRequest /\ a \in Optional(Tool)
       \/ s = "ToolService" /\ m = "Get" /\ q \in GetToolRequest /\ a \in Optional(Tool)
       \/ s = "ToolService" /\ m = "List" /\ q \in ListToolsRequest /\ a \in Optional(ListToolsResponse)
       \/ s = "ToolService" /\ m = "Watch" /\ q \in WatchToolsRequest /\ a \in Optional(ToolWatchEvent)
  BY DEF ToolServiceClient, Procedure
<1>6. c \in EventServiceClient <=>
       \/ s = "EventService" /\ m = "Append" /\ q \in AppendEventRequest /\ a \in Optional(Event)
       \/ s = "EventService" /\ m = "List" /\ q \in ListEventsRequest /\ a \in Optional(ListEventsResponse)
       \/ s = "EventService" /\ m = "Watch" /\ q \in WatchEventsRequest /\ a \in Optional(Event)
  BY DEF EventServiceClient, Procedure
<1>7. Fits(s, m, q, a) <=> \/ c \in ColonyServiceClient
                          \/ c \in AgentServiceClient
                          \/ c \in AgentVersionServiceClient
                          \/ c \in RunServiceClient
                          \/ c \in ToolServiceClient
                          \/ c \in EventServiceClient
  BY DEF Fits, Clients
<1> QED
  BY <1>1, <1>2, <1>3, <1>4, <1>5, <1>6, <1>7, Zenon

\* What a Get of a kind is asked with.
GetRequestOf(kind) == IF kind = "Colony" THEN [name: STRING] ELSE [colony: STRING, name: STRING]

\* The five kinds' services are one pattern.
LEMMA FitsKind ==
  ASSUME NEW kind \in Kinds, NEW m, NEW q, NEW a
  PROVE  /\ Fits(ServiceOf(kind), "Apply", q, a) <=>
              /\ q \in [object: Optional(ObjectOf(kind)), if_resource_version: Precondition]
              /\ a \in Optional(ObjectOf(kind))
         /\ Fits(ServiceOf(kind), "Get", q, a) <=>
              q \in GetRequestOf(kind) /\ a \in Optional(ObjectOf(kind))
         /\ Fits(ServiceOf(kind), "List", q, a) <=>
              q \in [options: Optional(ListOptions)] /\ a \in Optional(ListResponseOf(kind))
         /\ Fits(ServiceOf(kind), "Watch", q, a) <=>
              /\ q \in [options: Optional(ListOptions), since_resource_version: Int]
              /\ a \in Optional(WatchEventOf(kind))
         /\ Fits(ServiceOf(kind), m, q, a) =>
              \/ m \in {"Apply", "Get", "List", "Watch"}
              \/ kind = "Run" /\ m = "Logs"
<1>1. CASE kind = "Colony"
  <2>1. /\ ServiceOf(kind) = "ColonyService" /\ ObjectOf(kind) = Colony
        /\ ListResponseOf(kind) = ListColoniesResponse /\ WatchEventOf(kind) = ColonyWatchEvent
    BY <1>1 DEF ServiceOf, ObjectOf, ListResponseOf, WatchEventOf
  <2> QED
    BY <1>1, <2>1, FitsList
       DEF GetRequestOf, ApplyColonyRequest, GetColonyRequest, ListColoniesRequest, WatchColoniesRequest
<1>2. CASE kind = "Agent"
  <2>1. /\ ServiceOf(kind) = "AgentService" /\ ObjectOf(kind) = Agent
        /\ ListResponseOf(kind) = ListAgentsResponse /\ WatchEventOf(kind) = AgentWatchEvent
    BY <1>2 DEF ServiceOf, ObjectOf, ListResponseOf, WatchEventOf
  <2> QED
    BY <1>2, <2>1, FitsList
       DEF GetRequestOf, ApplyAgentRequest, GetAgentRequest, ListAgentsRequest, WatchAgentsRequest
<1>3. CASE kind = "AgentVersion"
  <2>1. /\ ServiceOf(kind) = "AgentVersionService" /\ ObjectOf(kind) = AgentVersion
        /\ ListResponseOf(kind) = ListAgentVersionsResponse /\ WatchEventOf(kind) = AgentVersionWatchEvent
    BY <1>3 DEF ServiceOf, ObjectOf, ListResponseOf, WatchEventOf
  <2> QED
    BY <1>3, <2>1, FitsList
       DEF GetRequestOf, ApplyAgentVersionRequest, GetAgentVersionRequest, ListAgentVersionsRequest, WatchAgentVersionsRequest
<1>4. CASE kind = "Run"
  <2>1. /\ ServiceOf(kind) = "RunService" /\ ObjectOf(kind) = Run
        /\ ListResponseOf(kind) = ListRunsResponse /\ WatchEventOf(kind) = RunWatchEvent
    BY <1>4 DEF ServiceOf, ObjectOf, ListResponseOf, WatchEventOf
  <2> QED
    BY <1>4, <2>1, FitsList
       DEF GetRequestOf, ApplyRunRequest, GetRunRequest, ListRunsRequest, WatchRunsRequest
<1>5. CASE kind = "Tool"
  <2>1. /\ ServiceOf(kind) = "ToolService" /\ ObjectOf(kind) = Tool
        /\ ListResponseOf(kind) = ListToolsResponse /\ WatchEventOf(kind) = ToolWatchEvent
    BY <1>5 DEF ServiceOf, ObjectOf, ListResponseOf, WatchEventOf
  <2> QED
    BY <1>5, <2>1, FitsList
       DEF GetRequestOf, ApplyToolRequest, GetToolRequest, ListToolsRequest, WatchToolsRequest
<1> QED
  BY <1>1, <1>2, <1>3, <1>4, <1>5 DEF Kinds

\* The calls of the EventService.
LEMMA FitsEvents ==
  ASSUME NEW m, NEW q, NEW a
  PROVE  /\ Fits("EventService", "Append", q, a) <=>
              q \in [object: Optional(Event)] /\ a \in Optional(Event)
         /\ Fits("EventService", "List", q, a) <=>
              /\ q \in [colony: STRING, run: STRING, since_seq: Int, limit: Int]
              /\ a \in Optional([items: Seq(Event)])
         /\ Fits("EventService", "Watch", q, a) <=>
              /\ q \in [colony: STRING, run: STRING, since_resource_version: Int]
              /\ a \in Optional(Event)
         /\ Fits("EventService", m, q, a) => m \in {"Append", "List", "Watch"}
BY FitsList DEF AppendEventRequest, ListEventsRequest, ListEventsResponse, WatchEventsRequest

\* What is not set is Nil, and what is not is not.
LEMMA NilIsNothing ==
  ASSUME NEW kind \in Kinds
  PROVE  /\ Nil \notin SpecOf(kind) /\ Nil \notin StatusOf(kind) /\ Nil \notin ObjectOf(kind)
         /\ Nil \notin ListResponseOf(kind) /\ Nil \notin WatchEventOf(kind)
         /\ Nil \notin ObjectMeta /\ Nil \notin Event /\ Nil \notin ListEventsResponse
         /\ Nil \notin STRING /\ Nil \notin Int /\ Nil \notin Nat
BY NilAssumption

\* What the messages of a kind are made of.
LEMMA MessagesOfKind ==
  ASSUME NEW kind \in Kinds
  PROVE  /\ ObjectOf(kind) = [metadata: Optional(ObjectMeta), spec: Optional(SpecOf(kind)),
                              status: Optional(StatusOf(kind))]
         /\ ListResponseOf(kind) = [items: Seq(ObjectOf(kind)), list_meta: ListMeta]
         /\ WatchEventOf(kind) = [type: WatchEventType, resource_version: Int,
                                  object: Optional(ObjectOf(kind))]
<1>1. CASE kind = "Colony"
  <2>1. /\ SpecOf(kind) = ColonySpec /\ StatusOf(kind) = ColonyStatus /\ ObjectOf(kind) = Colony
        /\ ListResponseOf(kind) = ListColoniesResponse /\ WatchEventOf(kind) = ColonyWatchEvent
    BY <1>1 DEF SpecOf, StatusOf, ObjectOf, ListResponseOf, WatchEventOf
  <2> QED
    BY <2>1 DEF Colony, ListColoniesResponse, ColonyWatchEvent
<1>2. CASE kind = "Agent"
  <2>1. /\ SpecOf(kind) = AgentSpec /\ StatusOf(kind) = AgentStatus /\ ObjectOf(kind) = Agent
        /\ ListResponseOf(kind) = ListAgentsResponse /\ WatchEventOf(kind) = AgentWatchEvent
    BY <1>2 DEF SpecOf, StatusOf, ObjectOf, ListResponseOf, WatchEventOf
  <2> QED
    BY <2>1 DEF Agent, ListAgentsResponse, AgentWatchEvent
<1>3. CASE kind = "AgentVersion"
  <2>1. /\ SpecOf(kind) = AgentVersionSpec /\ StatusOf(kind) = AgentVersionStatus /\ ObjectOf(kind) = AgentVersion
        /\ ListResponseOf(kind) = ListAgentVersionsResponse /\ WatchEventOf(kind) = AgentVersionWatchEvent
    BY <1>3 DEF SpecOf, StatusOf, ObjectOf, ListResponseOf, WatchEventOf
  <2> QED
    BY <2>1 DEF AgentVersion, ListAgentVersionsResponse, AgentVersionWatchEvent
<1>4. CASE kind = "Run"
  <2>1. /\ SpecOf(kind) = RunSpec /\ StatusOf(kind) = RunStatus /\ ObjectOf(kind) = Run
        /\ ListResponseOf(kind) = ListRunsResponse /\ WatchEventOf(kind) = RunWatchEvent
    BY <1>4 DEF SpecOf, StatusOf, ObjectOf, ListResponseOf, WatchEventOf
  <2> QED
    BY <2>1 DEF Run, ListRunsResponse, RunWatchEvent
<1>5. CASE kind = "Tool"
  <2>1. /\ SpecOf(kind) = ToolSpec /\ StatusOf(kind) = ToolStatus /\ ObjectOf(kind) = Tool
        /\ ListResponseOf(kind) = ListToolsResponse /\ WatchEventOf(kind) = ToolWatchEvent
    BY <1>5 DEF SpecOf, StatusOf, ObjectOf, ListResponseOf, WatchEventOf
  <2> QED
    BY <2>1 DEF Tool, ListToolsResponse, ToolWatchEvent
<1> QED
  BY <1>1, <1>2, <1>3, <1>4, <1>5 DEF Kinds

-----------------------------------------------------------------------------
(* Conversions.                                                            *)

\* A row of a kind.
RowTyped(kind, r) ==
  /\ r = [spec |-> r.spec, status |-> r.status, labels |-> r.labels, gen |-> r.gen,
          rv |-> r.rv]
  /\ Unmarshals(r) => r.spec \in SpecOf(kind)
  /\ r.status \in Optional(StatusOf(kind))
  /\ r.labels \in SUBSET STRING /\ r.gen \in Nat /\ r.rv \in Nat

\* A row that can be read makes a message of its kind, with every part set.
LEMMA ReadsBack ==
  ASSUME NEW k \in Key, NEW r, RowTyped(k.kind, r), Unmarshals(r)
  PROVE  /\ FromResource(k, r) \in ObjectOf(k.kind)
         /\ FromResource(k, r).metadata = ToObjectMeta(k, r)
         /\ FromResource(k, r).metadata \in ObjectMeta
         /\ FromResource(k, r).spec = r.spec /\ r.spec \in SpecOf(k.kind)
         /\ FromResource(k, r).status \in StatusOf(k.kind)
<1> USE RestsAssumption
<1>s. Unset \in STRING
  BY TextsAssumption
<1>1. /\ k.kind \in Kinds /\ k.colony \in Names /\ k.name \in Names
      /\ k.colony \in STRING /\ k.name \in STRING
  BY TextsAssumption DEF Key
<1>2. ToObjectMeta(k, r) \in ObjectMeta
  BY <1>1 DEF ToObjectMeta, ObjectMeta, RowTyped
<1>3. \A zero \in StatusOf(k.kind) :
             /\ Message(k, r, zero) \in ObjectOf(k.kind)
             /\ Message(k, r, zero).metadata = ToObjectMeta(k, r)
             /\ Message(k, r, zero).spec = r.spec
             /\ Message(k, r, zero).status \in StatusOf(k.kind)
  <2>1. ObjectOf(k.kind) = [metadata: Optional(ObjectMeta), spec: Optional(SpecOf(k.kind)),
                            status: Optional(StatusOf(k.kind))]
    BY <1>1, MessagesOfKind
  <2>2. r.spec \in SpecOf(k.kind) /\ r.status \in Optional(StatusOf(k.kind))
    BY DEF RowTyped
  <2> QED
    BY <1>2, <2>1, <2>2 DEF Message, Optional
<1>9. r.spec \in SpecOf(k.kind)
  BY DEF RowTyped
<1>4. CASE k.kind = "Colony"
  <2> DEFINE zero == [rest |-> Unset]
  <2>1. zero \in StatusOf(k.kind)
    <3>1. StatusOf(k.kind) = ColonyStatus
      BY <1>4 DEF StatusOf
    <3> QED
      BY <1>s, <3>1 DEF ColonyStatus
  <2>2. FromResource(k, r) = Message(k, r, zero)
    BY <1>4 DEF FromResource, ResourceToColony
  <2> HIDE DEF zero
  <2> QED
    BY <1>2, <1>3, <1>9, <2>1, <2>2
<1>5. CASE k.kind = "Agent"
  <2> DEFINE zero == [current |-> Unset, rest |-> Unset]
  <2>1. zero \in StatusOf(k.kind)
    <3>1. StatusOf(k.kind) = AgentStatus
      BY <1>5 DEF StatusOf
    <3> QED
      BY <1>s, <3>1 DEF AgentStatus
  <2>2. FromResource(k, r) = Message(k, r, zero)
    BY <1>5 DEF FromResource, ResourceToAgent
  <2> HIDE DEF zero
  <2> QED
    BY <1>2, <1>3, <1>9, <2>1, <2>2
<1>6. CASE k.kind = "AgentVersion"
  <2> DEFINE zero == [rest |-> Unset]
  <2>1. zero \in StatusOf(k.kind)
    <3>1. StatusOf(k.kind) = AgentVersionStatus
      BY <1>6 DEF StatusOf
    <3> QED
      BY <1>s, <3>1 DEF AgentVersionStatus
  <2>2. FromResource(k, r) = Message(k, r, zero)
    BY <1>6 DEF FromResource, ResourceToAgentVersion
  <2> HIDE DEF zero
  <2> QED
    BY <1>2, <1>3, <1>9, <2>1, <2>2
<1>7. CASE k.kind = "Run"
  <2> DEFINE zero == [phase |-> "UNSPECIFIED", rest |-> Unset]
  <2>1. zero \in StatusOf(k.kind)
    <3>1. StatusOf(k.kind) = RunStatus
      BY <1>7 DEF StatusOf
    <3> QED
      BY <1>s, <3>1 DEF RunStatus, RunPhase
  <2>2. FromResource(k, r) = Message(k, r, zero)
    BY <1>7 DEF FromResource, ResourceToRun
  <2> HIDE DEF zero
  <2> QED
    BY <1>2, <1>3, <1>9, <2>1, <2>2
<1>8. CASE k.kind = "Tool"
  <2> DEFINE zero == [rest |-> Unset]
  <2>1. zero \in StatusOf(k.kind)
    <3>1. StatusOf(k.kind) = ToolStatus
      BY <1>8 DEF StatusOf
    <3> QED
      BY <1>s, <3>1 DEF ToolStatus
  <2>2. FromResource(k, r) = Message(k, r, zero)
    BY <1>8 DEF FromResource, ResourceToTool
  <2> HIDE DEF zero
  <2> QED
    BY <1>2, <1>3, <1>9, <2>1, <2>2
<1> QED
  BY <1>1, <1>4, <1>5, <1>6, <1>7, <1>8 DEF Kinds

\* What Apply makes of a message is of its kind, under the message's names.
LEMMA Converted ==
  ASSUME NEW kind \in Kinds, NEW m \in ObjectOf(kind)
  PROVE  LET o == ToResource(kind, m) IN
         /\ o.kind = kind
         /\ o.colony = Get(m.metadata, "colony", Unset) /\ o.name = Get(m.metadata, "name", Unset)
         /\ o.spec \in SpecOf(kind) /\ o.status \in Optional(StatusOf(kind))
         /\ o.labels \in SUBSET STRING
<1> USE RestsAssumption
<1>s. Unset \in STRING
  BY TextsAssumption
<1>1. m \in [metadata: Optional(ObjectMeta), spec: Optional(SpecOf(kind)),
             status: Optional(StatusOf(kind))]
  BY MessagesOfKind
<1>2. Get(m.metadata, "labels", {}) \in SUBSET STRING
  BY <1>1 DEF Get, ObjectMeta, Optional
<1> DEFINE Good(o) ==
             /\ o.kind = kind
             /\ o.colony = Get(m.metadata, "colony", Unset)
             /\ o.name = Get(m.metadata, "name", Unset)
             /\ o.spec \in SpecOf(kind) /\ o.status \in Optional(StatusOf(kind))
             /\ o.labels \in SUBSET STRING
<1>3. \A target : \A zero \in SpecOf(kind), status \in Optional(StatusOf(kind)) :
             Good(Resource(kind, m, target, zero, status))
  BY <1>1, <1>2 DEF Resource, Optional
<1> SUFFICES Good(ToResource(kind, m))
  BY Zenon
<1> HIDE DEF Good
<1>4. Nil \in Optional(StatusOf(kind))
  BY DEF Optional
<1>5. CASE kind = "Colony"
  <2> DEFINE zero == [display_name |-> Unset, rest |-> Unset]
  <2>1. zero \in SpecOf(kind)
    <3>1. SpecOf(kind) = ColonySpec
      BY <1>5 DEF SpecOf
    <3> QED
      BY <1>s, <3>1 DEF ColonySpec
  <2>2. \E target : ToResource(kind, m) = Resource(kind, m, target, zero, Nil)
    BY <1>5 DEF ToResource, ColonyToResource
  <2> HIDE DEF zero
  <2> QED
    <3>1. PICK target : ToResource(kind, m) = Resource(kind, m, target, zero, Nil)
      BY <2>2
    <3>2. Good(Resource(kind, m, target, zero, Nil))
      BY <1>3, <1>4, <2>1
    <3> QED
      BY <3>1, <3>2, Zenon
<1>6. CASE kind = "Agent"
  <2> DEFINE zero == [rest |-> Unset]
  <2>1. zero \in SpecOf(kind)
    <3>1. SpecOf(kind) = AgentSpec
      BY <1>6 DEF SpecOf
    <3> QED
      BY <1>s, <3>1 DEF AgentSpec
  <2>2. \E target : ToResource(kind, m) = Resource(kind, m, target, zero, Nil)
    BY <1>6 DEF ToResource, AgentToResource
  <2> HIDE DEF zero
  <2> QED
    <3>1. PICK target : ToResource(kind, m) = Resource(kind, m, target, zero, Nil)
      BY <2>2
    <3>2. Good(Resource(kind, m, target, zero, Nil))
      BY <1>3, <1>4, <2>1
    <3> QED
      BY <3>1, <3>2, Zenon
<1>7. CASE kind = "AgentVersion"
  <2> DEFINE zero == [agent |-> Unset, version |-> Unset, rest |-> Unset]
  <2>1. zero \in SpecOf(kind)
    <3>1. SpecOf(kind) = AgentVersionSpec
      BY <1>7 DEF SpecOf
    <3> QED
      BY <1>s, <3>1 DEF AgentVersionSpec
  <2>2. \E target : ToResource(kind, m) = Resource(kind, m, target, zero, Nil)
    BY <1>7 DEF ToResource, AgentVersionToResource
  <2> HIDE DEF zero
  <2> QED
    <3>1. PICK target : ToResource(kind, m) = Resource(kind, m, target, zero, Nil)
      BY <2>2
    <3>2. Good(Resource(kind, m, target, zero, Nil))
      BY <1>3, <1>4, <2>1
    <3> QED
      BY <3>1, <3>2, Zenon
<1>8. CASE kind = "Run"
  <2> DEFINE zero == [agent_ref |-> Unset, rest |-> Unset]
             status == [phase |-> "PENDING", rest |-> Unset]
  <2>1. /\ zero \in SpecOf(kind)
        /\ status \in Optional(StatusOf(kind))
    <3>1. SpecOf(kind) = RunSpec /\ StatusOf(kind) = RunStatus
      BY <1>8 DEF SpecOf, StatusOf
    <3> QED
      BY <1>s, <3>1 DEF RunSpec, RunStatus, RunPhase, Optional
  <2>2. \E target : ToResource(kind, m) = Resource(kind, m, target, zero, status)
    BY <1>8 DEF ToResource, RunToResource
  <2> HIDE DEF zero, status
  <2> QED
    <3>1. PICK target : ToResource(kind, m) = Resource(kind, m, target, zero, status)
      BY <2>2
    <3>2. Good(Resource(kind, m, target, zero, status))
      BY <1>3, <2>1
    <3> QED
      BY <3>1, <3>2, Zenon
<1>9. CASE kind = "Tool"
  <2> DEFINE zero == [type |-> "UNSPECIFIED", endpoint |-> Unset, builtin |-> Unset, agent_ref |-> Unset, risk_class |-> Unset, rest |-> Unset]
  <2>1. zero \in SpecOf(kind)
    <3>1. SpecOf(kind) = ToolSpec
      BY <1>9 DEF SpecOf
    <3> QED
      BY <1>s, <3>1 DEF ToolSpec, ToolType
  <2>2. \E target : ToResource(kind, m) = Resource(kind, m, target, zero, Nil)
    BY <1>9 DEF ToResource, ToolToResource
  <2> HIDE DEF zero
  <2> QED
    <3>1. PICK target : ToResource(kind, m) = Resource(kind, m, target, zero, Nil)
      BY <2>2
    <3>2. Good(Resource(kind, m, target, zero, Nil))
      BY <1>3, <1>4, <2>1
    <3> QED
      BY <3>1, <3>2, Zenon
<1> QED
  BY <1>5, <1>6, <1>7, <1>8, <1>9 DEF Kinds



-----------------------------------------------------------------------------
(* Steps of the API, kind by kind made one.                                *)

\* What a List or a Watch of a kind goes by.
OptionsOf(kind, o) == IF kind = "Colony" THEN HiveWide(o) ELSE ToListOptions(o)

\* The colony a Get looks in.
ColonyOf(kind, q) == IF kind = "Colony" THEN Unset ELSE q.colony

\* One of a kind's handlers takes a step.
KindStep(x, kind) ==
  \/ Handles(x, ServiceOf(kind), "Apply") /\ ApplyObject(x, kind)
  \/ Handles(x, ServiceOf(kind), "Get") /\ GetObject(x, kind, ColonyOf(kind, call[x].request))
  \/ /\ Handles(x, ServiceOf(kind), "List")
     /\ ListObjects(x, kind, OptionsOf(kind, call[x].request.options))
  \/ /\ Handles(x, ServiceOf(kind), "Watch")
     /\ WatchObjects(x, kind, OptionsOf(kind, call[x].request.options))

\* Every step of a handler is one of these.
LEMMA HandlerSteps ==
  ASSUME NEW x, NewHandler(x)
  PROVE  \/ Authenticate(x)
         \/ NotFound(x)
         \/ \E kind \in Kinds : KindStep(x, kind)
         \/ Handles(x, "RunService", "Logs") /\ Refuse(x, "unimplemented")
         \/ Handles(x, "EventService", "Append") /\ AppendEvent(x)
         \/ Handles(x, "EventService", "List") /\ ListEvents(x)
         \/ Handles(x, "EventService", "Watch") /\ WatchEvents(x)
<1>1. ASSUME ColonyServiceHandler(x) PROVE KindStep(x, "Colony")
  <2>1. ServiceOf("Colony") = "ColonyService"
    BY DEF ServiceOf
  <2>2. \A q : OptionsOf("Colony", q) = HiveWide(q) /\ ColonyOf("Colony", q) = Unset
    BY DEF OptionsOf, ColonyOf
  <2> QED
    BY <1>1, <2>1, <2>2, Zenon
       DEF ColonyServiceHandler, KindStep, ApplyColony, GetColony, ListColonies, WatchColonies
<1>2. ASSUME AgentServiceHandler(x) PROVE KindStep(x, "Agent")
  <2>1. ServiceOf("Agent") = "AgentService"
    BY DEF ServiceOf
  <2>2. \A q : OptionsOf("Agent", q) = ToListOptions(q) /\ ColonyOf("Agent", q) = q.colony
    BY DEF OptionsOf, ColonyOf
  <2> QED
    BY <1>2, <2>1, <2>2, Zenon
       DEF AgentServiceHandler, KindStep, ApplyAgent, GetAgent, ListAgents, WatchAgents, Options
<1>3. ASSUME AgentVersionServiceHandler(x) PROVE KindStep(x, "AgentVersion")
  <2>1. ServiceOf("AgentVersion") = "AgentVersionService"
    BY DEF ServiceOf
  <2>2. \A q : OptionsOf("AgentVersion", q) = ToListOptions(q) /\ ColonyOf("AgentVersion", q) = q.colony
    BY DEF OptionsOf, ColonyOf
  <2> QED
    BY <1>3, <2>1, <2>2, Zenon
       DEF AgentVersionServiceHandler, KindStep, ApplyAgentVersion, GetAgentVersion, ListAgentVersions, WatchAgentVersions, Options
<1>4. ASSUME RunServiceHandler(x) PROVE KindStep(x, "Run") \/ (Handles(x, "RunService", "Logs") /\ Refuse(x, "unimplemented"))
  <2>1. ServiceOf("Run") = "RunService"
    BY DEF ServiceOf
  <2>2. \A q : OptionsOf("Run", q) = ToListOptions(q) /\ ColonyOf("Run", q) = q.colony
    BY DEF OptionsOf, ColonyOf
  <2> QED
    BY <1>4, <2>1, <2>2, Zenon
       DEF RunServiceHandler, KindStep, ApplyRun, GetRun, ListRuns, WatchRuns, Options, Logs
<1>5. ASSUME ToolServiceHandler(x) PROVE KindStep(x, "Tool")
  <2>1. ServiceOf("Tool") = "ToolService"
    BY DEF ServiceOf
  <2>2. \A q : OptionsOf("Tool", q) = ToListOptions(q) /\ ColonyOf("Tool", q) = q.colony
    BY DEF OptionsOf, ColonyOf
  <2> QED
    BY <1>5, <2>1, <2>2, Zenon
       DEF ToolServiceHandler, KindStep, ApplyTool, GetTool, ListTools, WatchTools, Options
<1> QED
  BY <1>1, <1>2, <1>3, <1>4, <1>5 DEF NewHandler, EventServiceHandler, Kinds

\* A kind's service is its own, and none of them is the EventService.
LEMMA ServicesDiffer ==
  /\ \A kind \in Kinds : ServiceOf(kind) \in Mounted \ {"EventService"}
  /\ \A s \in Mounted : s = "EventService" \/ \E kind \in Kinds : s = ServiceOf(kind)
  /\ \A a, b \in Kinds : ServiceOf(a) = ServiceOf(b) => a = b
  /\ \A kind \in Kinds : ServiceOf(kind) = "RunService" <=> kind = "Run"
  /\ Unset \notin Mounted
<1>1. /\ ServiceOf("Colony") = "ColonyService" /\ ServiceOf("Agent") = "AgentService"
      /\ ServiceOf("AgentVersion") = "AgentVersionService" /\ ServiceOf("Run") = "RunService"
      /\ ServiceOf("Tool") = "ToolService"
  BY DEF ServiceOf
<1>2. Unset \notin Mounted
  BY Zenon DEF Mounted, Unset
<1> QED
  BY <1>1, <1>2 DEF Kinds, Mounted

-----------------------------------------------------------------------------
(* What a step does to a call.                                             *)

\* The call c with its outcome so far put in.
With(c, phase, principal, mark, cursor, batch, seen, code, message) ==
  [stage |-> phase, service |-> c.service, method |-> c.method, request |-> c.request,
   bearer |-> c.bearer, principal |-> principal, mark |-> mark, cursor |-> cursor,
   batch |-> batch, seen |-> seen, code |-> code, message |-> message]

\* A call has a call's fields and no other.
IsCall(c) ==
  c = With(c, c.stage, c.principal, c.mark, c.cursor, c.batch, c.seen, c.code, c.message)

\* Every caller has a call.
CallsAre == call = [x \in Callers |-> call[x]] /\ \A x \in Callers : IsCall(call[x])

\* The call of x becomes c, the other stays.
Becomes(x, c) ==
  /\ call' = [y \in Callers |-> call'[y]]
  /\ call'[x] = c
  /\ \A y \in Callers : y # x => call'[y] = call[y]

\* The same call, with other objects seen.
SeenIs(c, seen) == [c EXCEPT !.seen = seen]

\* Only the objects seen change.
LEMMA SeenAlone ==
  ASSUME NEW c, NEW s, NEW p, NEW m, NEW u, NEW b, NEW k, NEW l, NEW e, NEW a
  PROVE  SeenIs(With(c, s, p, m, u, b, k, e, a), l) = With(c, s, p, m, u, b, l, e, a)
BY DEF With, SeenIs

\* What each assignment of a handler to a call makes of it.
LEMMA CallMoves ==
  ASSUME CallsAre, NEW x \in Callers
  PROVE  LET c == call[x] IN
         /\ \A code, m : Answer(x, code, m) =>
              Becomes(x, With(c, "answered", c.principal, c.mark, c.cursor, {}, c.seen, code, m))
         /\ Authenticate(x) =>
              Becomes(x, With(c, "dispatched", "dev", c.mark, c.cursor, c.batch, c.seen, c.code,
                              c.message))
         /\ \A n : call' = [call EXCEPT ![x].stage = "counted", ![x].mark = n] =>
              Becomes(x, With(c, "counted", c.principal, n, c.cursor, c.batch, c.seen, c.code,
                              c.message))
         /\ \A n : Open(x, n) =>
              Becomes(x, With(c, "streaming", c.principal, c.mark, n, c.batch, c.seen, c.code,
                              c.message))
         /\ \A S : Poll(x, S) =>
              Becomes(x, With(c, c.stage, c.principal, c.mark, c.cursor, FirstOf(S), c.seen,
                              c.code, c.message))
         /\ \A m, o, n, k :
              call' = [call EXCEPT ![x].message = m, ![x].batch = @ \ {o}, ![x].cursor = n,
                                   ![x].seen = @ \cup {k}] =>
              Becomes(x, With(c, c.stage, c.principal, c.mark, n, c.batch \ {o},
                              c.seen \cup {k}, c.code, m))
         /\ \A m, o, n :
              call' = [call EXCEPT ![x].message = m, ![x].batch = @ \ {o}, ![x].cursor = n] =>
              Becomes(x, With(c, c.stage, c.principal, c.mark, n, c.batch \ {o}, c.seen, c.code,
                              m))
         /\ \A m : call' = [call EXCEPT ![x].message = m] =>
              Becomes(x, With(c, c.stage, c.principal, c.mark, c.cursor, c.batch, c.seen, c.code,
                              m))
         /\ \A d : call' = [call EXCEPT ![x] = d] => Becomes(x, d)
<1> DEFINE c == call[x]
<1>0. /\ call = [y \in Callers |-> call[y]]
      /\ c = With(c, c.stage, c.principal, c.mark, c.cursor, c.batch, c.seen, c.code, c.message)
  BY DEF CallsAre, IsCall
<1>1. \A d : call' = [call EXCEPT ![x] = d] => Becomes(x, d)
  BY <1>0 DEF Becomes
<1>2. \A code, m : Answer(x, code, m) =>
        Becomes(x, With(c, "answered", c.principal, c.mark, c.cursor, {}, c.seen, code, m))
  BY <1>0, ZenonT(60) DEF With, Becomes, Answer
<1>3. Authenticate(x) =>
        Becomes(x, With(c, "dispatched", "dev", c.mark, c.cursor, c.batch, c.seen, c.code,
                        c.message))
  BY <1>0 DEF With, Becomes, Authenticate, Verify
<1>4. \A n : call' = [call EXCEPT ![x].stage = "counted", ![x].mark = n] =>
        Becomes(x, With(c, "counted", c.principal, n, c.cursor, c.batch, c.seen, c.code,
                        c.message))
  BY <1>0 DEF With, Becomes
<1>5. \A n : Open(x, n) =>
        Becomes(x, With(c, "streaming", c.principal, c.mark, n, c.batch, c.seen, c.code,
                        c.message))
  BY <1>0 DEF With, Becomes, Open
<1>6. \A S : Poll(x, S) =>
        Becomes(x, With(c, c.stage, c.principal, c.mark, c.cursor, FirstOf(S), c.seen,
                        c.code, c.message))
  BY <1>0 DEF With, Becomes, Poll
<1>7. \A m, o, n, k :
        call' = [call EXCEPT ![x].message = m, ![x].batch = @ \ {o}, ![x].cursor = n,
                             ![x].seen = @ \cup {k}] =>
        Becomes(x, With(c, c.stage, c.principal, c.mark, n, c.batch \ {o},
                        c.seen \cup {k}, c.code, m))
  <2> SUFFICES ASSUME NEW m, NEW o, NEW n, NEW k,
                      call' = [call EXCEPT ![x].message = m, ![x].batch = @ \ {o},
                                           ![x].cursor = n, ![x].seen = @ \cup {k}]
               PROVE  Becomes(x, With(c, c.stage, c.principal, c.mark, n, c.batch \ {o},
                                      c.seen \cup {k}, c.code, m))
    BY Zenon
  <2> DEFINE f == [call EXCEPT ![x].message = m, ![x].batch = @ \ {o}, ![x].cursor = n]
  <2>1. /\ f = [y \in Callers |-> f[y]]
        /\ f[x] = With(c, c.stage, c.principal, c.mark, n, c.batch \ {o}, c.seen, c.code, m)
        /\ \A y \in Callers : y # x => f[y] = call[y]
    BY <1>0 DEF With
  <2>2. call' = [f EXCEPT ![x].seen = c.seen \cup {k}]
    BY <1>0
  <2> HIDE DEF f, c
  <2>3. /\ call' = [y \in Callers |-> call'[y]]
        /\ call'[x] = [f[x] EXCEPT !.seen = c.seen \cup {k}]
        /\ \A y \in Callers : y # x => call'[y] = f[y]
    BY <2>1, <2>2
  <2>4. call'[x] = SeenIs(f[x], c.seen \cup {k})
    BY <2>3 DEF SeenIs
  <2>5. call'[x] = With(c, c.stage, c.principal, c.mark, n, c.batch \ {o}, c.seen \cup {k}, c.code, m)
    BY <2>1, <2>4, SeenAlone
  <2> QED
    BY <2>1, <2>3, <2>5 DEF Becomes
<1>8. \A m, o, n :
        call' = [call EXCEPT ![x].message = m, ![x].batch = @ \ {o}, ![x].cursor = n] =>
        Becomes(x, With(c, c.stage, c.principal, c.mark, n, c.batch \ {o}, c.seen, c.code,
                        m))
  BY <1>0, ZenonT(60) DEF With, Becomes
<1>9. \A m : call' = [call EXCEPT ![x].message = m] =>
        Becomes(x, With(c, c.stage, c.principal, c.mark, c.cursor, c.batch, c.seen, c.code,
                        m))
  BY <1>0 DEF With, Becomes
<1> QED
  BY <1>1, <1>2, <1>3, <1>4, <1>5, <1>6, <1>7, <1>8, <1>9

-----------------------------------------------------------------------------
(* The store.                                                              *)

\* Events are of their run, numbered without a gap or a double.
LogOK ==
  /\ IsFiniteSet(log) /\ log \subseteq Event
  /\ \A e \in log : e.seq \in 1 .. Cardinality(LogOf(e.colony, e.run))
  /\ \A d, e \in log : d.colony = e.colony /\ d.run = e.run /\ d.seq = e.seq => d = e

\* Rows are of their kind, each with a version of its own that was given out.
StoreOK ==
  /\ version \in Nat
  /\ IsFiniteSet(DOMAIN rows) /\ DOMAIN rows \subseteq Key
  /\ \A k \in DOMAIN rows : RowTyped(k.kind, rows[k]) /\ rows[k].rv <= version
  /\ \A j, k \in DOMAIN rows : rows[j].rv = rows[k].rv => j = k
  /\ LogOK

\* What a step may do to the rows: one that is not what it was has a version
\* that is new.
StoreMoves ==
  /\ version' \in Nat /\ version <= version'
  /\ \A k \in DOMAIN rows' :
       (k \in DOMAIN rows /\ rows'[k] = rows[k]) \/ version < rows'[k].rv

\* A row that gets a new version keeps the store in order.
LEMMA RowPut ==
  ASSUME StoreOK, NEW k \in Key, NEW r, RowTyped(k.kind, r), version < r.rv,
         version' \in Nat, r.rv <= version',
         DOMAIN rows' = DOMAIN rows \cup {k}, rows'[k] = r,
         \A j \in DOMAIN rows : j # k => rows'[j] = rows[j], UNCHANGED log
  PROVE  StoreOK' /\ StoreMoves
<1>1. version \in Nat /\ r.rv \in Nat /\ version <= version'
  BY DEF StoreOK, RowTyped
<1>2. IsFiniteSet(DOMAIN rows') /\ DOMAIN rows' \subseteq Key
  BY FS_AddElement DEF StoreOK
<1>3. \A j \in DOMAIN rows : rows[j].rv \in Nat /\ rows[j].rv <= version
  BY DEF StoreOK, RowTyped
<1>4. \A j \in DOMAIN rows' : RowTyped(j.kind, rows'[j]) /\ rows'[j].rv <= version'
  BY <1>1, <1>3 DEF StoreOK
<1>5. \A i, j \in DOMAIN rows' : rows'[i].rv = rows'[j].rv => i = j
  BY <1>1, <1>3 DEF StoreOK
<1>6. LogOK'
  BY DEF StoreOK, LogOK, LogOf
<1>7. StoreMoves
  BY <1>1 DEF StoreMoves
<1> QED
  BY <1>2, <1>4, <1>5, <1>6, <1>7 DEF StoreOK

\* So does a version that no row gets.
LEMMA VersionTaken ==
  ASSUME StoreOK, version' \in Nat, version <= version', UNCHANGED <<rows, log>>
  PROVE  StoreOK' /\ StoreMoves
<1>1. version \in Nat
  BY DEF StoreOK
<1>2. \A j \in DOMAIN rows : rows[j].rv \in Nat /\ rows[j].rv <= version'
  BY <1>1 DEF StoreOK, RowTyped
<1>3. LogOK'
  BY DEF StoreOK, LogOK, LogOf
<1> QED
  BY <1>1, <1>2, <1>3 DEF StoreOK, StoreMoves

\* An event gets the number behind those of its run.
LEMMA EventLogged ==
  ASSUME StoreOK, NEW e \in Event,
         e.seq = Cardinality(LogOf(e.colony, e.run)) + 1,
         log' = log \cup {e}, version' \in Nat, version <= version', UNCHANGED rows
  PROVE  StoreOK' /\ StoreMoves
<1>1. version \in Nat
  BY DEF StoreOK
<1>2. \A j \in DOMAIN rows : rows[j].rv \in Nat /\ rows[j].rv <= version'
  BY <1>1 DEF StoreOK, RowTyped
<1>3. IsFiniteSet(log) /\ log \subseteq Event /\ IsFiniteSet(log') /\ log' \subseteq Event
  BY FS_AddElement DEF StoreOK, LogOK
<1>4. \A c, r : /\ IsFiniteSet(LogOf(c, r)) /\ Cardinality(LogOf(c, r)) \in Nat
                /\ IsFiniteSet(LogOf(c, r)') /\ Cardinality(LogOf(c, r)') \in Nat
                /\ Cardinality(LogOf(c, r)) <= Cardinality(LogOf(c, r)')
  <2> SUFFICES ASSUME NEW c, NEW r
               PROVE  /\ IsFiniteSet(LogOf(c, r)) /\ Cardinality(LogOf(c, r)) \in Nat
                      /\ IsFiniteSet(LogOf(c, r)') /\ Cardinality(LogOf(c, r)') \in Nat
                      /\ Cardinality(LogOf(c, r)) <= Cardinality(LogOf(c, r)')
    OBVIOUS
  <2>1. /\ LogOf(c, r) \in SUBSET log /\ LogOf(c, r)' \in SUBSET log'
        /\ LogOf(c, r) \in SUBSET (LogOf(c, r)')
    BY DEF LogOf
  <2>2. IsFiniteSet(LogOf(c, r)) /\ IsFiniteSet(LogOf(c, r)')
    BY <1>3, <2>1, FS_Subset
  <2> QED
    BY <2>1, <2>2, FS_Subset, FS_CardinalityType
<1>5. ~(\E d \in log : d.colony = e.colony /\ d.run = e.run /\ d.seq = e.seq)
  <2> SUFFICES ASSUME NEW d \in log, d.colony = e.colony, d.run = e.run, d.seq = e.seq
               PROVE  FALSE
    OBVIOUS
  <2>1. d.seq \in 1 .. Cardinality(LogOf(e.colony, e.run))
    BY DEF StoreOK, LogOK
  <2> QED
    BY <1>4, <2>1
<1>6. Cardinality(LogOf(e.colony, e.run)') = Cardinality(LogOf(e.colony, e.run)) + 1
  <2>1. LogOf(e.colony, e.run)' = LogOf(e.colony, e.run) \cup {e}
    BY DEF LogOf
  <2>2. e \notin LogOf(e.colony, e.run)
    BY <1>5 DEF LogOf
  <2> QED
    BY <1>4, <2>1, <2>2, FS_AddElement
<1>7. \A d \in log' : d.seq \in 1 .. Cardinality(LogOf(d.colony, d.run)')
  <2>1. \A d \in log : d.seq \in 1 .. Cardinality(LogOf(d.colony, d.run)')
    <3> SUFFICES ASSUME NEW d \in log PROVE d.seq \in 1 .. Cardinality(LogOf(d.colony, d.run)')
      OBVIOUS
    <3>1. d.seq \in 1 .. Cardinality(LogOf(d.colony, d.run))
      BY DEF StoreOK, LogOK
    <3> QED
      BY <1>4, <3>1
  <2>2. e.seq \in 1 .. Cardinality(LogOf(e.colony, e.run)')
    BY <1>4, <1>6
  <2> QED
    BY <2>1, <2>2
<1>8. \A c, d \in log' : c.colony = d.colony /\ c.run = d.run /\ c.seq = d.seq => c = d
  BY <1>5 DEF StoreOK, LogOK
<1>9. LogOK'
  BY <1>3, <1>7, <1>8 DEF LogOK
<1> QED
  BY <1>1, <1>2, <1>9 DEF StoreOK, StoreMoves


-----------------------------------------------------------------------------
(* Answers.                                                                *)

\* An object with everything set that a message of its kind has.
Whole(kind) == [metadata: ObjectMeta, spec: SpecOf(kind), status: StatusOf(kind)]

\* Codes of calls that failed.
Failures == (Codes \cup {"unknown", "unimplemented"}) \ {"ok"}

\* The call is answered: with one of these messages or with an error.
Replies(x, M) ==
  \/ \E m \in M : Answer(x, "ok", m)
  \/ \E code \in Failures : Answer(x, code, Nil)

\* The errors of the store and of the handlers have such codes.
LEMMA CodesOfErrors ==
  /\ Code("ErrNotFound") \in Failures /\ Code("ErrConflict") \in Failures
  /\ Code("ErrImmutable") \in Failures /\ Code("ErrInvalidPageToken") \in Failures
  /\ Code("failed") \in Failures /\ "internal" \in Failures /\ "unknown" \in Failures
  /\ "invalid_argument" \in Failures /\ "unimplemented" \in Failures
BY DEF Code, Codes, Failures

\* A whole object is a message of its kind.
LEMMA WholeIsObject ==
  ASSUME NEW kind \in Kinds, NEW m \in Whole(kind)
  PROVE  m \in ObjectOf(kind) /\ m # Nil
<1>1. m \in ObjectOf(kind)
  BY MessagesOfKind DEF Whole, Optional
<1> QED
  BY <1>1, NilIsNothing

\* A row that unmarshals reads back as a whole object.
LEMMA ReadsWhole ==
  ASSUME NEW k \in Key, NEW r, RowTyped(k.kind, r), Unmarshals(r)
  PROVE  /\ FromResource(k, r) \in Whole(k.kind)
         /\ FromResource(k, r).metadata = ToObjectMeta(k, r)
<1> DEFINE m == FromResource(k, r)
<1>1. k.kind \in Kinds
  BY DEF Key
<1>2. /\ m \in ObjectOf(k.kind) /\ m.metadata = ToObjectMeta(k, r) /\ m.metadata \in ObjectMeta
      /\ m.spec = r.spec /\ r.spec \in SpecOf(k.kind) /\ m.status \in StatusOf(k.kind)
  BY ReadsBack
<1>3. m \in [metadata: Optional(ObjectMeta), spec: Optional(SpecOf(k.kind)),
             status: Optional(StatusOf(k.kind))]
  BY <1>1, <1>2, MessagesOfKind
<1> HIDE DEF m
<1>4. m \in Whole(k.kind)
  BY <1>2, <1>3 DEF Whole
<1> QED
  BY <1>2, <1>4 DEF m

\* Respond answers with the row, or with an error.
LEMMA RespondReplies ==
  ASSUME NEW x, NEW k \in Key, NEW r, RowTyped(k.kind, r), Respond(x, k, r)
  PROVE  Replies(x, {m \in Whole(k.kind) : m.metadata = ToObjectMeta(k, r)})
<1>1. CASE Unmarshals(r)
  <2>1. Answer(x, "ok", FromResource(k, r))
    BY <1>1 DEF Respond
  <2> QED
    BY <1>1, <2>1, ReadsWhole DEF Replies
<1>2. CASE ~Unmarshals(r)
  BY <1>2, CodesOfErrors DEF Respond, Replies
<1> QED
  BY <1>1, <1>2

\* A row, and the one of an Apply that changes something.
Row(spec, status, labels, gen, rv) ==
  [spec |-> spec, status |-> status, labels |-> labels, gen |-> gen, rv |-> rv]

\* A changed row has the object's spec and labels, the row's status.
LEMMA ChangedRow ==
  ASSUME NEW a, NEW b, NEW c, NEW d, NEW e, NEW o, NEW v
  PROVE  Changed(Row(a, b, c, d, e), o, v)
         = Row(o.spec, b, o.labels, IF a = o.spec THEN d ELSE d + 1, v)
<1> DEFINE r == Row(a, b, c, d, e)
           g == IF a = o.spec THEN d ELSE d + 1
<1>1. r.spec = a /\ r.gen = d
  BY DEF Row
<1>2. Changed(r, o, v) = [r EXCEPT !.spec = o.spec, !.labels = o.labels, !.rv = v,
                                   !.gen = IF r.spec = o.spec THEN r.gen ELSE r.gen + 1]
  BY DEF Changed
<1>3. Changed(r, o, v) = [r EXCEPT !.spec = o.spec, !.labels = o.labels, !.rv = v, !.gen = g]
  <2> HIDE DEF r
  <2> QED
    BY <1>1, <1>2
<1>4. [r EXCEPT !.spec = o.spec, !.labels = o.labels, !.rv = v, !.gen = g]
      = [[[[r EXCEPT !.spec = o.spec] EXCEPT !.labels = o.labels] EXCEPT !.rv = v]
           EXCEPT !.gen = g]
  <2> HIDE DEF r, g
  <2> QED
    OBVIOUS
<1> HIDE DEF g, r
<1> DEFINE r1 == [r EXCEPT !.spec = o.spec]
           r2 == [r1 EXCEPT !.labels = o.labels]
           r3 == [r2 EXCEPT !.rv = v]
           r4 == [r3 EXCEPT !.gen = g]
<1>5. Changed(r, o, v) = r4
  BY <1>3, <1>4
<1>6. r1 = Row(o.spec, b, c, d, e)
  BY DEF Row, r
<1> HIDE DEF r1
<1>7. r2 = Row(o.spec, b, o.labels, d, e)
  BY <1>6 DEF Row
<1> HIDE DEF r2
<1>8. r3 = Row(o.spec, b, o.labels, d, v)
  BY <1>7 DEF Row
<1> HIDE DEF r3
<1>9. r4 = Row(o.spec, b, o.labels, g, v)
  BY <1>8 DEF Row
<1> HIDE DEF r4
<1> QED
  BY <1>5, <1>9 DEF r, g

\* An Apply leaves the store in order and answers with the object or an error.
LEMMA SaveKeeps ==
  ASSUME StoreOK, NEW x, NEW kind \in Kinds, NEW o, NEW precondition,
         o.kind = kind, StoreKey(o) \in Key, o.spec \in SpecOf(kind),
         o.status \in Optional(StatusOf(kind)), o.labels \in SUBSET STRING,
         Save(x, o, precondition)
  PROVE  StoreOK' /\ StoreMoves /\ Replies(x, Whole(kind))
<1> DEFINE k == StoreKey(o)
           fresh == [spec |-> o.spec, status |-> o.status, labels |-> o.labels,
                     gen |-> 1, rv |-> version + 1]
<1>1. k \in Key /\ k.kind = kind
  BY DEF StoreKey
<1>2. version \in Nat /\ UNCHANGED log
  BY DEF StoreOK, Save
<1>3. \A r : RowTyped(kind, r) /\ Respond(x, k, r) => Replies(x, Whole(kind))
  <2> SUFFICES ASSUME NEW r, RowTyped(kind, r), Respond(x, k, r) PROVE Replies(x, Whole(kind))
    OBVIOUS
  <2>1. Replies(x, {m \in Whole(kind) : m.metadata = ToObjectMeta(k, r)})
    BY <1>1, RespondReplies
  <2> QED
    BY <2>1 DEF Replies
<1>4. CASE /\ k \notin DOMAIN rows
           /\ rows' = Inserted(k, fresh)
           /\ version' = version + 1
           /\ Respond(x, k, fresh)
  <2>1. RowTyped(kind, fresh) /\ fresh.rv = version + 1
    BY <1>2 DEF RowTyped
  <2> HIDE DEF fresh, k
  <2>2. /\ DOMAIN rows' = DOMAIN rows \cup {k} /\ rows'[k] = fresh
        /\ \A j \in DOMAIN rows : j # k => rows'[j] = rows[j]
    BY <1>4 DEF Inserted
  <2>3. StoreOK' /\ StoreMoves
    BY <1>1, <1>2, <1>4, <2>1, <2>2, RowPut
  <2> QED
    BY <1>3, <1>4, <2>1, <2>3
<1>5. CASE /\ k \in DOMAIN rows
           /\ IF rows[k].spec = o.spec THEN Respond(x, k, rows[k])
              ELSE Answer(x, Code("ErrImmutable"), Nil)
           /\ UNCHANGED <<rows, version>>
  <2> HIDE DEF k
  <2>1. RowTyped(kind, rows[k])
    BY <1>1, <1>5 DEF StoreOK
  <2>2. StoreOK' /\ StoreMoves
    BY <1>2, <1>5, VersionTaken
  <2> QED
    BY <1>3, <1>5, <2>1, <2>2, CodesOfErrors DEF Replies
<1>6. CASE /\ version' = version + 1
           /\ Answer(x, Code("ErrConflict"), Nil)
           /\ UNCHANGED rows
  <2>1. StoreOK' /\ StoreMoves
    BY <1>2, <1>6, VersionTaken
  <2> QED
    BY <1>6, <2>1, CodesOfErrors DEF Replies
<1>7. CASE /\ k \in DOMAIN rows
           /\ version' = version + 1
           /\ UNCHANGED rows
           /\ Respond(x, k, rows'[k])
  <2> HIDE DEF k
  <2>1. RowTyped(kind, rows'[k])
    BY <1>1, <1>7 DEF StoreOK
  <2>2. StoreOK' /\ StoreMoves
    BY <1>2, <1>7, VersionTaken
  <2> QED
    BY <1>3, <1>7, <2>1, <2>2
<1>8. CASE /\ k \in DOMAIN rows
           /\ version' = version + 2
           /\ rows' = [rows EXCEPT ![k] = Changed(rows[k], o, version + 2)]
           /\ Respond(x, k, rows'[k])
  <2> DEFINE gen == IF rows[k].spec = o.spec THEN rows[k].gen ELSE rows[k].gen + 1
             r == Row(o.spec, rows[k].status, o.labels, gen, version + 2)
  <2>1. RowTyped(kind, rows[k])
    BY <1>1, <1>8 DEF StoreOK
  <2>2. gen \in Nat
    BY <2>1 DEF RowTyped
  <2>4. Changed(rows[k], o, version + 2) = r
    <3>1. rows[k] = Row(rows[k].spec, rows[k].status, rows[k].labels, rows[k].gen, rows[k].rv)
      BY <2>1 DEF RowTyped, Row
    <3> QED
      BY <3>1, ChangedRow
  <2>5. RowTyped(kind, r) /\ r.rv = version + 2
    <3> HIDE DEF gen
    <3> QED
      BY <1>2, <2>1, <2>2 DEF RowTyped, Row
  <2> HIDE DEF k, r
  <2>6. /\ DOMAIN rows' = DOMAIN rows \cup {k} /\ rows'[k] = r
        /\ \A j \in DOMAIN rows : j # k => rows'[j] = rows[j]
    BY <1>8, <2>4
  <2>7. StoreOK' /\ StoreMoves
    <3>1. version < r.rv /\ version' \in Nat /\ r.rv <= version'
      BY <1>2, <1>8, <2>5
    <3> QED
      BY <1>1, <1>2, <2>5, <2>6, <3>1, RowPut
  <2> QED
    BY <1>3, <1>8, <2>5, <2>6, <2>7
<1> QED
  BY <1>4, <1>5, <1>6, <1>7, <1>8, Zenon DEF Save


\* An Apply handler leaves the store in order and replies with the object.
LEMMA ApplyKeeps ==
  ASSUME StoreOK, NEW x, NEW kind \in Kinds,
         call[x].request \in [object: Optional(ObjectOf(kind)), if_resource_version: Precondition],
         call[x].request.object # Nil =>
           /\ Get(call[x].request.object.metadata, "colony", Unset) \in Names
           /\ Get(call[x].request.object.metadata, "name", Unset) \in Names,
         ApplyObject(x, kind)
  PROVE  StoreOK' /\ StoreMoves /\ Replies(x, Whole(kind))
<1> DEFINE m == call[x].request.object
           o == ToResource(kind, m)
<1>1. \A code \in Failures : Refuse(x, code) => StoreOK' /\ StoreMoves /\ Replies(x, Whole(kind))
  <2> SUFFICES ASSUME NEW code \in Failures, Refuse(x, code)
               PROVE  StoreOK' /\ StoreMoves /\ Replies(x, Whole(kind))
    OBVIOUS
  <2>1. UNCHANGED <<rows, version, log>> /\ Answer(x, code, Nil)
    BY DEF Refuse, storeVars
  <2>2. version \in Nat
    BY DEF StoreOK
  <2>3. version' \in Nat /\ version <= version' /\ UNCHANGED <<rows, log>>
    BY <2>1, <2>2
  <2> QED
    BY <2>1, <2>3, VersionTaken DEF Replies
<1>2. CASE m # Nil /\ Save(x, o, call[x].request.if_resource_version)
  <2>1. m \in ObjectOf(kind)
    BY <1>2 DEF Optional
  <2>2. /\ o.kind = kind
        /\ o.colony = Get(m.metadata, "colony", Unset) /\ o.name = Get(m.metadata, "name", Unset)
        /\ o.spec \in SpecOf(kind) /\ o.status \in Optional(StatusOf(kind))
        /\ o.labels \in SUBSET STRING
    BY <2>1, Converted
  <2>3. o.colony \in Names /\ o.name \in Names
    BY <1>2, <2>2
  <2> HIDE DEF o, m
  <2>4. StoreKey(o) \in Key
    BY <2>2, <2>3 DEF StoreKey, Key
  <2> QED
    BY <1>2, <2>2, <2>4, SaveKeeps
<1> QED
  BY <1>1, <1>2, CodesOfErrors DEF ApplyObject, StatementFails

\* A Get replies with the object asked for and leaves the store alone.
LEMMA GetKeeps ==
  ASSUME StoreOK, NEW x, NEW kind \in Kinds, call[x].request \in GetRequestOf(kind),
         GetObject(x, kind, ColonyOf(kind, call[x].request))
  PROVE  /\ StoreOK' /\ StoreMoves
         /\ Replies(x, {m \in Whole(kind) :
                          /\ m.metadata.name = call[x].request.name
                          /\ m.metadata.colony = ColonyOf(kind, call[x].request)})
<1> DEFINE q == call[x].request
           k == GetKey(kind, ColonyOf(kind, q), q.name)
<1>1. k = [kind |-> kind, colony |-> ColonyOf(kind, q), name |-> q.name]
  BY Zenon DEF GetKey, ColonyOf, Unset
<1>2. UNCHANGED <<rows, version, log>>
  BY DEF GetObject, Refuse, StatementFails, storeVars
<1>3. StoreOK' /\ StoreMoves
  <2>1. version \in Nat
    BY DEF StoreOK
  <2>2. version' \in Nat /\ version <= version' /\ UNCHANGED <<rows, log>>
    BY <1>2, <2>1
  <2> QED
    BY <2>2, VersionTaken
<1>4. CASE k \in DOMAIN rows /\ Respond(x, k, rows[k])
  <2>1. k \in Key /\ k.kind = kind /\ k.colony = ColonyOf(kind, q) /\ k.name = q.name
    BY <1>1, <1>4 DEF StoreOK
  <2> HIDE DEF k
  <2>2. RowTyped(k.kind, rows[k])
    BY <1>4 DEF StoreOK
  <2>3. Replies(x, {m \in Whole(kind) : m.metadata = ToObjectMeta(k, rows[k])})
    BY <1>4, <2>1, <2>2, RespondReplies
  <2>4. \A m : m.metadata = ToObjectMeta(k, rows[k]) =>
           m.metadata.name = q.name /\ m.metadata.colony = ColonyOf(kind, q)
    BY <2>1 DEF ToObjectMeta
  <2> QED
    BY <1>3, <2>3, <2>4 DEF Replies
<1> QED
  BY <1>3, <1>4, CodesOfErrors DEF GetObject, StatementFails, Refuse, Replies


-----------------------------------------------------------------------------
(* Pages of objects.                                                       *)

\* The options of a request that a client makes are typed.
LEMMA OptionsTyped ==
  ASSUME NEW kind, NEW q \in Optional(ListOptions)
  PROVE  /\ OptionsOf(kind, q) \in ListOptions
         /\ q # Nil => /\ OptionsOf(kind, q).page_token = q.page_token
                       /\ OptionsOf(kind, q).label_selector = q.label_selector
                       /\ OptionsOf(kind, q).colony = IF kind = "Colony" THEN Unset ELSE q.colony
<1>0. Unset \in STRING /\ <<>> \in Seq(Nat)
  <2>1. Unset \in STRING
    BY TextsAssumption
  <2>2. <<>> \in Seq(Nat)
    OBVIOUS
  <2> QED
    BY <2>1, <2>2
<1>1. ToListOptions(q) \in ListOptions
  <2>1. CASE q = Nil
    BY <1>0, <2>1 DEF ToListOptions, ListOptions, Token
  <2>2. CASE q # Nil
    BY <2>2 DEF ToListOptions, Optional
  <2> QED
    BY <2>1, <2>2
<1>2. q # Nil => ToListOptions(q) = q
  BY DEF ToListOptions
<1>3. \A o \in ListOptions :
        /\ [o EXCEPT !.colony = Unset] \in ListOptions
        /\ [o EXCEPT !.colony = Unset].page_token = o.page_token
        /\ [o EXCEPT !.colony = Unset].label_selector = o.label_selector
        /\ [o EXCEPT !.colony = Unset].colony = Unset
  <2> SUFFICES ASSUME NEW o \in ListOptions
               PROVE  LET d == [o EXCEPT !.colony = Unset] IN
                      /\ d \in ListOptions /\ d.page_token = o.page_token
                      /\ d.label_selector = o.label_selector /\ d.colony = Unset
    BY Zenon
  <2> DEFINE d == [o EXCEPT !.colony = Unset]
  <2>1. o = [colony |-> o.colony, label_selector |-> o.label_selector,
             page_size |-> o.page_size, page_token |-> o.page_token]
    BY DEF ListOptions
  <2>2. d = [colony |-> Unset, label_selector |-> o.label_selector,
             page_size |-> o.page_size, page_token |-> o.page_token]
    BY <2>1
  <2>3. /\ o.label_selector \in SUBSET STRING /\ o.page_size \in Int /\ o.page_token \in Token
    BY DEF ListOptions
  <2> HIDE DEF d
  <2> QED
    BY <1>0, <2>2, <2>3 DEF ListOptions
<1>4. CASE kind = "Colony"
  BY <1>1, <1>2, <1>3, <1>4 DEF OptionsOf, HiveWide
<1>5. CASE kind # "Colony"
  BY <1>1, <1>2, <1>5 DEF OptionsOf
<1> QED
  BY <1>4, <1>5

\* Where an item of a page stands in the list.
ItemPlace(it) == [colony |-> Texts[it.metadata.colony], name |-> Texts[it.metadata.name]]

\* A page of a kind's objects.
ListPage(kind) == [items: Seq(Whole(kind)), list_meta: ListMeta]

\* A page of a kind's objects that goes on behind its token.
PageOK(o, m) ==
  LET items == m.items
      next == m.list_meta.next_page_token
  IN
  /\ \A i \in DOMAIN items :
       /\ items[i].metadata.colony \in Names /\ items[i].metadata.name \in Names
       /\ InColony(items[i].metadata, o.colony)
       /\ After(o.page_token, ItemPlace(items[i]))
  /\ \A i, j \in DOMAIN items : i < j => Before(ItemPlace(items[i]), ItemPlace(items[j]))
  /\ next # <<>> =>
       /\ items # <<>>
       /\ LET last == ItemPlace(items[Len(items)]) IN
          next = EncodePageToken(last.colony, last.name)

\* A place this page ought to have, unless it is on an earlier or a later one.
OnPage(o, m, p) ==
  After(o.page_token, p) /\ (m.list_meta.next_page_token # <<>> =>
                               ~After(m.list_meta.next_page_token, p))
    => \E i \in DOMAIN m.items : ItemPlace(m.items[i]) = PlaceOf(p)

\* What matches are rows of the kind, each at its place.
LEMMA MatchingPlaced ==
  ASSUME StoreOK, NEW kind, NEW o
  PROVE  /\ IsFiniteSet(Matching(kind, o)) /\ Placed(Matching(kind, o))
         /\ \A p \in Matching(kind, o) :
              /\ p.key \in DOMAIN rows /\ p.key.kind = kind /\ InColony(p.key, o.colony)
              /\ PlaceOf(p) = [colony |-> Texts[p.key.colony], name |-> Texts[p.key.name]]
<1> DEFINE K == {k \in DOMAIN rows :
                   /\ k.kind = kind /\ InColony(k, o.colony)
                   /\ o.label_selector \subseteq rows[k].labels}
           P(k) == [colony |-> Texts[k.colony], name |-> Texts[k.name], key |-> k]
           f == [k \in K |-> P(k)]
<1>1. Matching(kind, o) = {P(k) : k \in K}
  BY DEF Matching
<1>2. K \in SUBSET DOMAIN rows /\ IsFiniteSet(K)
  <2>1. K \in SUBSET DOMAIN rows
    OBVIOUS
  <2> QED
    BY <2>1, FS_Subset DEF StoreOK
<1>3. \A k \in K : k \in DOMAIN rows /\ k \in Key /\ k.kind = kind /\ InColony(k, o.colony)
  BY DEF StoreOK
<1> HIDE DEF K
<1>4. IsFiniteSet({P(k) : k \in K})
  <2>1. f \in Surjection(K, {P(k) : k \in K})
    BY DEF Surjection
  <2> QED
    BY <1>2, <2>1, FS_Surjection
<1>5. \A k \in K : Texts[k.colony] \in Text /\ Texts[k.name] \in Text
  BY <1>3, TextsAssumption DEF Key, Names
<1>6. \A j, k \in K : Texts[j.colony] = Texts[k.colony] /\ Texts[j.name] = Texts[k.name] => j = k
  <2> SUFFICES ASSUME NEW j \in K, NEW k \in K,
                      Texts[j.colony] = Texts[k.colony], Texts[j.name] = Texts[k.name]
               PROVE  j = k
    OBVIOUS
  <2>1. j \in Key /\ k \in Key /\ j.kind = k.kind
    BY <1>3
  <2>2. j.colony = k.colony /\ j.name = k.name
    BY <2>1, TextsAssumption DEF Key, Names
  <2> QED
    BY <2>1, <2>2 DEF Key
<1>7. Placed({P(k) : k \in K})
  BY <1>5, <1>6 DEF Placed
<1>8. \A k \in K : /\ P(k).key = k
                   /\ PlaceOf(P(k)) = [colony |-> Texts[k.colony], name |-> Texts[k.name]]
  BY DEF PlaceOf
<1>9. ASSUME NEW p \in {P(k) : k \in K}
      PROVE  /\ p.key \in DOMAIN rows /\ p.key.kind = kind /\ InColony(p.key, o.colony)
             /\ PlaceOf(p) = [colony |-> Texts[p.key.colony], name |-> Texts[p.key.name]]
  <2>1. PICK k \in K : p = P(k)
    OBVIOUS
  <2> HIDE DEF P
  <2> QED
    BY <1>3, <1>8, <2>1
<1> HIDE DEF P
<1> QED
  BY <1>1, <1>4, <1>7, <1>9


\* A List reads the counter first and its page second.
LEMMA ListKeeps ==
  ASSUME StoreOK, NEW x, NEW kind \in Kinds, NEW o \in ListOptions,
         call[x].mark \in Nat, ListObjects(x, kind, o)
  PROVE  /\ StoreOK' /\ UNCHANGED <<rows, version, log>>
         /\ \/ /\ call[x].stage = "dispatched"
               /\ call' = [call EXCEPT ![x].stage = "counted", ![x].mark = version]
            \/ /\ call[x].stage = "counted"
               /\ Replies(x, {m \in ListPage(kind) :
                    /\ m.list_meta.resource_version = call[x].mark
                    /\ PageOK(o, m)
                    /\ \A p \in Matching(kind, o) : OnPage(o, m, p)})
            \/ Answer(x, Code("failed"), Nil)
<1> DEFINE page == PageOf(Matching(kind, o), o.page_token, ClampPageSize(o.page_size))
           Row_(i) == rows[page.items[i].key]
           items == [i \in DOMAIN page.items |-> FromResource(page.items[i].key, Row_(i))]
           meta == [next_page_token |-> page.next, resource_version |-> call[x].mark]
           m == [items |-> items, list_meta |-> meta]
           A == {a \in Matching(kind, o) : After(o.page_token, a)}
<1>1. UNCHANGED <<rows, version, log>>
  BY DEF ListObjects, storeVars
<1>2. StoreOK'
  <2>1. version' \in Nat /\ version <= version' /\ UNCHANGED <<rows, log>>
    BY <1>1 DEF StoreOK
  <2> QED
    BY <2>1, VersionTaken
<1>3. ClampPageSize(o.page_size) \in Nat \ {0}
  <2>1. ClampPageSize(o.page_size) \in 1 .. MaxPageSize
    BY ClampInRange DEF ListOptions
  <2> QED
    BY <2>1, PageSizeAssumption
<1>4. /\ IsFiniteSet(Matching(kind, o)) /\ Placed(Matching(kind, o))
      /\ \A p \in Matching(kind, o) :
           /\ p.key \in DOMAIN rows /\ p.key.kind = kind /\ InColony(p.key, o.colony)
           /\ PlaceOf(p) = [colony |-> Texts[p.key.colony], name |-> Texts[p.key.name]]
  BY MatchingPlaced
<1>5. /\ page.items \in Seq(A) /\ page.next \in Seq(Nat)
      /\ \A i, j \in DOMAIN page.items : i < j => Before(page.items[i], page.items[j])
      /\ page.next = <<>> => \A a \in A : \E i \in DOMAIN page.items : page.items[i] = a
      /\ page.next # <<>> =>
           /\ page.items # <<>>
           /\ page.next = EncodePageToken(page.items[Len(page.items)].colony,
                                          page.items[Len(page.items)].name)
           /\ \A a \in A : ~After(page.next, a) => \E i \in DOMAIN page.items : page.items[i] = a
  <2>1. IsPage(Matching(kind, o), o.page_token, page)
    BY <1>3, <1>4, PageIsNext
  <2> HIDE DEF page
  <2> QED
    BY <2>1, Zenon DEF IsPage
<1> HIDE DEF page
<1>6. CASE /\ call[x].stage = "counted"
           /\ \A i \in DOMAIN page.items : Unmarshals(Row_(i))
           /\ Answer(x, "ok", m)
  <2>1. ASSUME NEW i \in DOMAIN page.items
        PROVE  LET k == page.items[i].key IN
               /\ page.items[i] \in A /\ k \in DOMAIN rows /\ k \in Key /\ k.kind = kind
               /\ InColony(k, o.colony) /\ After(o.page_token, page.items[i])
               /\ PlaceOf(page.items[i]) = [colony |-> Texts[k.colony], name |-> Texts[k.name]]
               /\ items[i] \in Whole(kind) /\ items[i].metadata = ToObjectMeta(k, rows[k])
    <3> DEFINE k == page.items[i].key
    <3>1. page.items[i] \in A
      BY <1>5
    <3>2. /\ k \in DOMAIN rows /\ k \in Key /\ k.kind = kind
          /\ InColony(k, o.colony) /\ After(o.page_token, page.items[i])
          /\ PlaceOf(page.items[i]) = [colony |-> Texts[k.colony], name |-> Texts[k.name]]
      BY <1>4, <3>1 DEF StoreOK
    <3>3. RowTyped(k.kind, rows[k]) /\ Unmarshals(rows[k])
      BY <1>6, <3>2 DEF StoreOK
    <3>4. items[i] = FromResource(k, rows[k])
      OBVIOUS
    <3> HIDE DEF k, items
    <3>5. FromResource(k, rows[k]) \in Whole(kind) /\ FromResource(k, rows[k]).metadata = ToObjectMeta(k, rows[k])
      BY <3>2, <3>3, ReadsWhole
    <3> QED
      BY <3>1, <3>2, <3>4, <3>5 DEF k
  <2>2. DOMAIN items = DOMAIN page.items /\ items \in Seq(Whole(kind)) /\ Len(items) = Len(page.items)
    <3>1. /\ DOMAIN items = DOMAIN page.items
          /\ DOMAIN page.items = 1 .. Len(page.items) /\ Len(page.items) \in Nat
      BY <1>5
    <3>2. items \in [1 .. Len(page.items) -> Whole(kind)]
      BY <2>1, <3>1
    <3> HIDE DEF items
    <3> QED
      BY <3>1, <3>2
  <2>3. \A i \in DOMAIN items :
          /\ items[i].metadata.colony = page.items[i].key.colony
          /\ items[i].metadata.name = page.items[i].key.name
          /\ items[i].metadata.colony \in Names /\ items[i].metadata.name \in Names
          /\ ItemPlace(items[i]) = PlaceOf(page.items[i])
    <3> SUFFICES ASSUME NEW i \in DOMAIN items
                 PROVE  /\ items[i].metadata.colony = page.items[i].key.colony
                        /\ items[i].metadata.name = page.items[i].key.name
                        /\ items[i].metadata.colony \in Names /\ items[i].metadata.name \in Names
                        /\ ItemPlace(items[i]) = PlaceOf(page.items[i])
      BY Zenon
    <3> DEFINE k == page.items[i].key
    <3>1. /\ k \in Key /\ items[i].metadata = ToObjectMeta(k, rows[k])
          /\ PlaceOf(page.items[i]) = [colony |-> Texts[k.colony], name |-> Texts[k.name]]
      BY <2>1, <2>2, Zenon
    <3> HIDE DEF items, k
    <3>2. items[i].metadata.colony = k.colony /\ items[i].metadata.name = k.name
      BY <3>1 DEF ToObjectMeta
    <3> QED
      BY <3>1, <3>2 DEF ItemPlace, Key, k
  <2> HIDE DEF items
  <2>4. \A a, b : PlaceOf(a) = PlaceOf(b) => a.colony = b.colony /\ a.name = b.name
    BY DEF PlaceOf
  <2>5. \A a, b : Before(PlaceOf(a), PlaceOf(b)) <=> Before(a, b)
    BY DEF PlaceOf, Before
  <2>6. \A t, a : After(t, PlaceOf(a)) <=> After(t, a)
    BY DEF PlaceOf, After, Before
  <2>7. /\ \A i \in DOMAIN items :
            /\ items[i].metadata.colony \in Names /\ items[i].metadata.name \in Names
            /\ InColony(items[i].metadata, o.colony)
            /\ After(o.page_token, ItemPlace(items[i]))
    BY <2>1, <2>2, <2>3, <2>6 DEF InColony
  <2>8. \A i, j \in DOMAIN items : i < j => Before(ItemPlace(items[i]), ItemPlace(items[j]))
    BY <1>5, <2>2, <2>3, <2>5
  <2>9. page.next # <<>> =>
          /\ items # <<>>
          /\ page.next = EncodePageToken(ItemPlace(items[Len(items)]).colony,
                                         ItemPlace(items[Len(items)]).name)
    <3> SUFFICES ASSUME page.next # <<>>
                 PROVE  /\ items # <<>>
                        /\ page.next = EncodePageToken(ItemPlace(items[Len(items)]).colony,
                                                       ItemPlace(items[Len(items)]).name)
      OBVIOUS
    <3>1. Len(items) \in DOMAIN items /\ items # <<>>
      BY <1>5, <2>2
    <3>2. ItemPlace(items[Len(items)]) = PlaceOf(page.items[Len(page.items)])
      BY <2>2, <2>3, <3>1
    <3> QED
      BY <1>5, <3>1, <3>2 DEF PlaceOf
  <2>10. m \in ListPage(kind)
    BY <1>5, <2>2 DEF ListPage, ListMeta, Token
  <2>11. m.items = items /\ m.list_meta.next_page_token = page.next
         /\ m.list_meta.resource_version = call[x].mark
    OBVIOUS
  <2> HIDE DEF m
  <2>12. PageOK(o, m)
    BY <2>7, <2>8, <2>9, <2>11 DEF PageOK
  <2>13. ASSUME NEW p \in Matching(kind, o) PROVE OnPage(o, m, p)
    <3> SUFFICES ASSUME After(o.page_token, p), page.next # <<>> => ~After(page.next, p)
                 PROVE  \E i \in DOMAIN items : ItemPlace(items[i]) = PlaceOf(p)
      BY <2>11 DEF OnPage
    <3>1. p \in A
      OBVIOUS
    <3>2. PICK i \in DOMAIN page.items : page.items[i] = p
      BY <1>5, <3>1
    <3> QED
      BY <2>2, <2>3, <3>2
  <2> QED
    BY <1>1, <1>2, <1>6, <2>10, <2>11, <2>12, <2>13 DEF Replies
<1>7. CASE call[x].stage = "counted" /\ \E code \in Failures : Answer(x, code, Nil)
  BY <1>1, <1>2, <1>7 DEF Replies
<1> QED
  BY <1>1, <1>2, <1>6, <1>7, CodesOfErrors DEF ListObjects, page



-----------------------------------------------------------------------------
(* Events.                                                                 *)

\* A handler that refuses replies with an error.
LEMMA RefuseKeeps ==
  ASSUME StoreOK, NEW x, NEW M, NEW code \in Failures, Refuse(x, code)
  PROVE  StoreOK' /\ StoreMoves /\ UNCHANGED <<rows, version, log>> /\ Replies(x, M)
<1>1. UNCHANGED <<rows, version, log>> /\ Answer(x, code, Nil)
  BY DEF Refuse, storeVars
<1>2. version \in Nat
  BY DEF StoreOK
<1>3. version' \in Nat /\ version <= version' /\ UNCHANGED <<rows, log>>
  BY <1>1, <1>2
<1> QED
  BY <1>1, <1>3, VersionTaken DEF Replies

\* An Append logs the event it replies with, behind those of its run.
LEMMA AppendKeeps ==
  ASSUME StoreOK, NEW x, call[x].request \in [object: Optional(Event)], AppendEvent(x)
  PROVE  StoreOK' /\ StoreMoves /\ Replies(x, Event)
<1> DEFINE e == call[x].request.object
           new == StoreEvent(e)
<1>1. CASE /\ e # Nil /\ log' = log \cup {new} /\ version' = version + 1
           /\ Answer(x, "ok", new) /\ UNCHANGED rows
  <2>1. e \in Event
    BY <1>1 DEF Optional
  <2>2. version \in Nat /\ IsFiniteSet(log)
    BY DEF StoreOK, LogOK
  <2>3. Cardinality(LogOf(e.colony, e.run)) \in Nat
    <3>1. LogOf(e.colony, e.run) \in SUBSET log
      BY DEF LogOf
    <3> QED
      BY <2>2, <3>1, FS_Subset, FS_CardinalityType
  <2>4. (IF e.payload = Nil THEN Unset ELSE e.payload) \in Optional(Rests)
    BY <2>1, RestsAssumption DEF Event, Optional
  <2>5. new = [colony |-> e.colony, run |-> e.run,
               seq |-> Cardinality(LogOf(e.colony, e.run)) + 1,
               type |-> e.type, payload |-> IF e.payload = Nil THEN Unset ELSE e.payload,
               resource_version |-> version + 1]
    BY Zenon DEF StoreEvent
  <2>6. /\ e.colony \in STRING /\ e.run \in STRING /\ e.type \in STRING
    BY <2>1 DEF Event
  <2> HIDE DEF e, new
  <2>7. /\ new \in Event
        /\ new.seq = Cardinality(LogOf(new.colony, new.run)) + 1
    BY <2>2, <2>3, <2>4, <2>5, <2>6 DEF Event
  <2>8. version' \in Nat /\ version <= version'
    BY <1>1, <2>2
  <2>9. StoreOK' /\ StoreMoves
    BY <1>1, <2>7, <2>8, EventLogged
  <2> QED
    BY <1>1, <2>7, <2>9 DEF Replies
<1>2. CASE \E code \in Failures : Refuse(x, code)
  BY <1>2, RefuseKeeps
<1> QED
  BY <1>1, <1>2, CodesOfErrors DEF AppendEvent, StatementFails

\* Pairs of events in the order of their numbers.
SeqOrder(S) == {p \in S \X S : p[1].seq < p[2].seq}

\* Events of one run are listed by their numbers.
LEMMA BySeqLists ==
  ASSUME NEW S, IsFiniteSet(S), \A e \in S : e.seq \in Int,
         \A d, e \in S : d.seq = e.seq => d = e
  PROVE  BySeq(S) \in Seq(S)
<1> DEFINE R == SeqOrder(S)
           N == Cardinality(S)
           f == [n \in 1 .. N |-> CHOOSE a \in S : RankIn(R, S, a) = n - 1]
<1>1. Orders(R, S)
  BY DEF Orders, SeqOrder
<1>2. \A a \in S : RankIn(R, S, a) = Cardinality({d \in S : d.seq < a.seq})
  <2> SUFFICES ASSUME NEW a \in S
               PROVE  RankIn(R, S, a) = Cardinality({d \in S : d.seq < a.seq})
    OBVIOUS
  <2>1. {d \in S : <<d, a>> \in R} = {d \in S : d.seq < a.seq}
    BY DEF SeqOrder
  <2> QED
    BY <2>1, Zenon DEF RankIn
<1>3. /\ N \in Nat /\ f \in [1 .. N -> S]
      /\ \A a \in S, n \in 1 .. N : RankIn(R, S, a) = n - 1 <=> f[n] = a
  BY <1>1, ListedByRank
<1> HIDE DEF f
<1>4. BySeq(S) = f
  <2>1. ASSUME NEW n \in 1 .. N
        PROVE  f[n] = CHOOSE a \in S : Cardinality({d \in S : d.seq < a.seq}) = n - 1
    <3>1. \A a \in S : Cardinality({d \in S : d.seq < a.seq}) = n - 1 <=> f[n] = a
      BY <1>2, <1>3
    <3>2. f[n] \in S
      BY <1>3
    <3> QED
      BY <3>1, <3>2
  <2>2. BySeq(S) = [n \in 1 .. N |-> CHOOSE a \in S : Cardinality({d \in S : d.seq < a.seq}) = n - 1]
    BY DEF BySeq
  <2> QED
    BY <1>3, <2>1, <2>2
<1> HIDE DEF N
<1> QED
  BY <1>3, <1>4

\* A List of events replies with a page of them.
LEMMA ListEventsKeeps ==
  ASSUME StoreOK, NEW x,
         call[x].request \in [colony: STRING, run: STRING, since_seq: Int, limit: Int],
         ListEvents(x)
  PROVE  UNCHANGED <<rows, version, log>> /\ Replies(x, ListEventsResponse)
<1> DEFINE q == call[x].request
           S == {e \in LogOf(q.colony, q.run) : e.seq > q.since_seq}
           after == BySeq(S)
           n == ClampPageSize(q.limit)
           items == SubSeq(after, 1, IF Len(after) > n THEN n ELSE Len(after))
<1>1. UNCHANGED <<rows, version, log>>
  BY DEF ListEvents, storeVars
<1>2. /\ S \in SUBSET log /\ IsFiniteSet(S) /\ S \subseteq Event
      /\ \A e \in S : e.seq \in Int
      /\ \A d, e \in S : d.seq = e.seq => d = e
  <2>1. IsFiniteSet(log) /\ log \subseteq Event
    BY DEF StoreOK, LogOK
  <2>2. S \in SUBSET log
    BY DEF LogOf
  <2>3. \A d, e \in S : d.seq = e.seq => d = e
    BY DEF StoreOK, LogOK, LogOf
  <2>4. \A e \in S : e.seq \in Int
    BY <2>1, <2>2 DEF Event
  <2> HIDE DEF S
  <2> QED
    BY <2>1, <2>2, <2>3, <2>4, FS_Subset
<1> HIDE DEF S
<1>3. after \in Seq(Event)
  <2>1. after \in Seq(S)
    BY <1>2, BySeqLists
  <2> HIDE DEF after
  <2> QED
    BY <1>2, <2>1
<1>4. n \in Nat
  BY ClampInRange, PageSizeAssumption
<1> HIDE DEF after, n
<1>5. items \in Seq(Event)
  BY <1>3, <1>4
<1> HIDE DEF items
<1>6. [items |-> items] \in ListEventsResponse
  BY <1>5 DEF ListEventsResponse
<1>7. Answer(x, "ok", [items |-> items]) \/ Answer(x, Code("failed"), Nil)
  BY Zenon DEF ListEvents, items, after, n, S
<1> QED
  BY <1>1, <1>6, <1>7, CodesOfErrors DEF Replies



-----------------------------------------------------------------------------
(* What is true of a call at any time.                                     *)

\* The call is one to a kind's service.
For(x, kind, method) == call[x].service = ServiceOf(kind) /\ call[x].method = method

\* The call is one to the EventService.
ForEvents(x, method) == call[x].service = "EventService" /\ call[x].method = method

\* What x goes by when it lists or watches objects of a kind.
ScopeOf(x, kind) == OptionsOf(kind, call[x].request.options)

\* A client's request is one that its generated client makes.
RequestOK(x) ==
  LET c == call[x] IN
  c.service \in Mounted =>
    /\ Fits(c.service, c.method, c.request, Nil)
    /\ c.method = "Apply" /\ c.request.object # Nil =>
         /\ Get(c.request.object.metadata, "colony", Unset) \in Names
         /\ Get(c.request.object.metadata, "name", Unset) \in Names

\* What a call carries fits how far it has come.
PhaseOK(x) ==
  LET c == call[x] IN
  /\ c.stage \in {"idle", "arrived", "dispatched", "counted", "streaming", "answered"}
  /\ c.cursor \in Int /\ c.mark \in Nat /\ c.mark <= version
  /\ c.code \in Failures \cup {"ok", Nil}
  /\ c.stage = "idle" => c.service = Unset
  /\ c.stage # "streaming" => c.batch = {}
  /\ c.stage \in {"idle", "arrived", "dispatched", "counted"} => c.message = Nil /\ c.seen = {}
  /\ c.stage # "answered" => c.code = Nil
  /\ c.stage \in {"dispatched", "counted", "streaming"} =>
       c.service \in Mounted /\ c.principal = "dev"
  /\ c.stage = "counted" => c.method = "List"
  /\ c.stage = "streaming" => c.method = "Watch"
  /\ c.stage = "answered" =>
       /\ c.code # Nil
       /\ c.code = "ok" <=> c.message # Nil
       /\ c.code = "ok" => c.method # "Watch"
  /\ c.message # Nil => c.method # "Logs"

\* What a stream tells of: the client has all there is up to a version, or an
\* object.
StreamMessage(kind) ==
  [type: {"BOOKMARK"}, resource_version: Int, object: {Nil}]
  \cup [type: {"ADDED", "MODIFIED"}, resource_version: Int, object: Whole(kind)]

\* A message is one that the procedure declares, and a page has every object
\* of its part of the list that has not changed since the counter was read.
MessageOK(x) ==
  LET c == call[x]
      m == call[x].message
  IN
  m # Nil =>
    /\ \A kind \in Kinds :
         /\ For(x, kind, "Apply") => m \in Whole(kind)
         /\ For(x, kind, "Get") =>
              /\ m \in Whole(kind)
              /\ m.metadata.name = c.request.name
              /\ m.metadata.colony = ColonyOf(kind, c.request)
         /\ For(x, kind, "List") =>
              /\ m \in ListPage(kind)
              /\ m.list_meta.resource_version = c.mark
              /\ PageOK(ScopeOf(x, kind), m)
              /\ \A p \in Matching(kind, ScopeOf(x, kind)) :
                   rows[p.key].rv <= c.mark => OnPage(ScopeOf(x, kind), m, p)
         /\ For(x, kind, "Watch") => m \in StreamMessage(kind)
    /\ ForEvents(x, "Append") => m \in Event
    /\ ForEvents(x, "List") => m \in ListEventsResponse
    /\ ForEvents(x, "Watch") => m \in Event

\* What a poll read: rows as they were, each behind the cursor, and no row
\* left out that is not behind one of them.
BatchOK(x, kind) ==
  LET c == call[x] IN
  /\ \A o \in c.batch :
       /\ o.key \in Key /\ o.key.kind = kind /\ InColony(o.key, ScopeOf(x, kind).colony)
       /\ RowTyped(kind, o.row) /\ o.rv = o.row.rv
       /\ c.cursor < o.rv /\ o.rv <= version
  /\ \A o, p \in c.batch : o.rv = p.rv => o = p
  /\ \A k \in DOMAIN rows, o \in c.batch :
       /\ k.kind = kind /\ InColony(k, ScopeOf(x, kind).colony)
       /\ c.cursor < rows[k].rv /\ rows[k].rv <= o.rv
       => \E p \in c.batch : p.key = k /\ p.rv = rows[k].rv
  /\ \A k \in c.seen : k \in Key /\ k.kind = kind

\* A stream's batch, of objects or of events.
StreamOK(x) ==
  /\ \A kind \in Kinds : For(x, kind, "Watch") => BatchOK(x, kind)
  /\ ForEvents(x, "Watch") => \A o \in call[x].batch : o.event \in Event /\ o.rv \in Int

\* All of that, of one call.
CallOK(x) == RequestOK(x) /\ PhaseOK(x) /\ MessageOK(x) /\ StreamOK(x)

\* The invariant of the API.
ApiOK == CallsAre /\ StoreOK /\ \A x \in Callers : CallOK(x)

-----------------------------------------------------------------------------
(* What is true of the user at any time.                                   *)

\* The kind the command line names.
JobKind == ResolveKind(job.alias)

\* What is asked is what the command line says.
UserOK ==
  LET c == call[User] IN
  /\ job \in Jobs
  /\ stage \in {"start", "waiting", "done"}
  /\ stage = "start" => c = NoCall
  /\ stage = "waiting" => c.stage # "idle"
  /\ stage # "done" => exit = Nil /\ cut = FALSE
  /\ cut \in BOOLEAN
  /\ c.stage # "idle" =>
       /\ job.command \in Asks /\ ValidateOutput(job.output) /\ Complete(job)
       /\ c.service = CallOf(job).service /\ c.method = CallOf(job).method
       /\ c.request = CallOf(job).request /\ c.bearer = job.token
  /\ stage = "done" /\ cut = FALSE => c.stage \in {"idle", "answered"}
  /\ stage # "done" /\ job.command # "watch" => printed = <<>>
  /\ pages.token \in Seq(Nat)

\* What the user has been told by a stream, the message under way included.
Told ==
  IF call[User].message = Nil THEN printed ELSE Append(printed, Line(call[User].message))

\* The colony the user's stream or list is limited to.
JobColony == IF JobKind = "Colony" THEN Unset ELSE job.colony

\* A line that `hived watch` prints.
Lines ==
  [type: {"BOOKMARK", "ADDED", "MODIFIED"}, resource_version: Int, colony: Names, name: Names]

\* The lines of a stream that has come to a version and has seen some objects:
\* every object the user asked for is there in its present version, each object
\* first as ADDED and then as MODIFIED.
Followed(lines, cursor, seen) ==
  /\ lines \in Seq(Lines) /\ cursor \in Int
  /\ cursor = job.since \/ cursor <= version
  /\ \A i \in DOMAIN lines : lines[i].resource_version <= cursor
  /\ \A i, j \in DOMAIN lines : i < j =>
       /\ lines[i].resource_version <= lines[j].resource_version
       /\ lines[j].type # "BOOKMARK" => lines[i].resource_version < lines[j].resource_version
  /\ \A k \in DOMAIN rows :
       /\ k.kind = JobKind /\ InColony(k, JobColony)
       /\ job.since < rows[k].rv /\ rows[k].rv <= cursor
       => \E i \in DOMAIN lines : Shows(lines[i], k) /\ lines[i].resource_version = rows[k].rv
  /\ \A k \in seen : \E i \in DOMAIN lines : Shows(lines[i], k)
  /\ \A i \in DOMAIN lines : lines[i].type # "BOOKMARK" =>
       /\ [kind |-> JobKind, colony |-> lines[i].colony, name |-> lines[i].name] \in seen
       /\ lines[i].type = "ADDED" <=>
            \A j \in DOMAIN lines : Shows(lines[j], lines[i]) => i <= j

\* The user's stream: until it is open nothing has been told.
Following ==
  IF call[User].stage \in {"streaming", "answered"}
  THEN Followed(Told, call[User].cursor, call[User].seen)
  ELSE printed = <<>>

\* The invariant of `hived watch`.
WatchOK == printed \in Seq(Lines) /\ Following

\* What the user lists.
TourScope == [colony |-> JobColony, label_selector |-> job.selector]

\* The first pages of a list, up to a token: they have what is not behind it,
\* each object once and in order.
Toured(items, token, mark) ==
  /\ items \in Seq(Whole(JobKind))
  /\ \A i \in DOMAIN items : items[i].metadata.colony \in Names /\ items[i].metadata.name \in Names
  /\ \A i, j \in DOMAIN items : i < j => Before(ItemPlace(items[i]), ItemPlace(items[j]))
  /\ token # <<>> =>
       /\ items # <<>>
       /\ LET last == ItemPlace(items[Len(items)]) IN
          token = EncodePageToken(last.colony, last.name)
  /\ mark \in Nat /\ mark <= version
  /\ \A p \in Matching(JobKind, TourScope) :
       rows[p.key].rv <= mark /\ (token # <<>> => ~After(token, p)) =>
         \E i \in DOMAIN items : ItemPlace(items[i]) = PlaceOf(p)

\* The tour so far, with the marks in order: the first page's is the oldest.
TourOK ==
  /\ pages.mark = Nil => pages.items = <<>> /\ pages.token = <<>> /\ exit # 0
  /\ pages.mark # Nil =>
       /\ Toured(pages.items, pages.token, pages.mark)
       /\ call[User].stage = "counted" \/ call[User].message # Nil =>
            pages.mark <= call[User].mark
  /\ stage # "done" /\ pages.token = <<>> => pages.mark = Nil
  /\ exit = 0 => pages.token = <<>>

-----------------------------------------------------------------------------
(* A call that a step leaves alone, and one that it moves.                 *)

\* No call but that of x changes.
OthersStand(x) ==
  CallsAre' /\ \A y \in Callers : y # x => call'[y] = call[y]

\* What the call of x is now.
Now(x, phase, principal, mark, cursor, batch, seen, code, message) ==
  /\ OthersStand(x)
  /\ call'[x].stage = phase /\ call'[x].principal = principal /\ call'[x].mark = mark
  /\ call'[x].cursor = cursor /\ call'[x].batch = batch /\ call'[x].seen = seen
  /\ call'[x].code = code /\ call'[x].message = message
  /\ call'[x].service = call[x].service /\ call'[x].method = call[x].method
  /\ call'[x].request = call[x].request /\ call'[x].bearer = call[x].bearer

\* The fields of a call that has become another.
LEMMA Moved ==
  ASSUME CallsAre, NEW x \in Callers, NEW s, NEW p, NEW m, NEW u, NEW b, NEW k, NEW e, NEW a,
         Becomes(x, With(call[x], s, p, m, u, b, k, e, a))
  PROVE  Now(x, s, p, m, u, b, k, e, a)
<1>1. /\ call'[x] = With(call[x], s, p, m, u, b, k, e, a)
      /\ call' = [y \in Callers |-> call'[y]]
      /\ \A y \in Callers : y # x => call'[y] = call[y]
  BY DEF Becomes
<1>2. /\ call'[x].stage = s /\ call'[x].principal = p /\ call'[x].mark = m
      /\ call'[x].cursor = u /\ call'[x].batch = b /\ call'[x].seen = k
      /\ call'[x].code = e /\ call'[x].message = a
      /\ call'[x].service = call[x].service /\ call'[x].method = call[x].method
      /\ call'[x].request = call[x].request /\ call'[x].bearer = call[x].bearer
  BY <1>1 DEF With
<1>3. IsCall(call[x])'
  BY <1>1, <1>2 DEF IsCall, With
<1>4. \A y \in Callers : IsCall(call[y])'
  <2> SUFFICES ASSUME NEW y \in Callers, y # x PROVE IsCall(call[y])'
    BY <1>3
  <2>1. IsCall(call[y]) /\ call'[y] = call[y]
    BY <1>1 DEF CallsAre
  <2> QED
    BY <2>1 DEF IsCall, With
<1> QED
  BY <1>1, <1>2, <1>4 DEF CallsAre, OthersStand, Now

\* The same for each assignment of a handler.
LEMMA CallsMove ==
  ASSUME CallsAre, NEW x \in Callers
  PROVE  LET c == call[x] IN
         /\ \A code, m : Answer(x, code, m) =>
              Now(x, "answered", c.principal, c.mark, c.cursor, {}, c.seen, code, m)
         /\ Authenticate(x) =>
              Now(x, "dispatched", "dev", c.mark, c.cursor, c.batch, c.seen, c.code, c.message)
         /\ \A n : call' = [call EXCEPT ![x].stage = "counted", ![x].mark = n] =>
              Now(x, "counted", c.principal, n, c.cursor, c.batch, c.seen, c.code, c.message)
         /\ \A n : Open(x, n) =>
              Now(x, "streaming", c.principal, c.mark, n, c.batch, c.seen, c.code, c.message)
         /\ \A S : Poll(x, S) =>
              Now(x, c.stage, c.principal, c.mark, c.cursor, FirstOf(S), c.seen, c.code,
                  c.message)
         /\ \A m, o, n, k :
              call' = [call EXCEPT ![x].message = m, ![x].batch = @ \ {o}, ![x].cursor = n,
                                   ![x].seen = @ \cup {k}] =>
              Now(x, c.stage, c.principal, c.mark, n, c.batch \ {o}, c.seen \cup {k}, c.code, m)
         /\ \A m, o, n :
              call' = [call EXCEPT ![x].message = m, ![x].batch = @ \ {o}, ![x].cursor = n] =>
              Now(x, c.stage, c.principal, c.mark, n, c.batch \ {o}, c.seen, c.code, m)
         /\ \A m : call' = [call EXCEPT ![x].message = m] =>
              Now(x, c.stage, c.principal, c.mark, c.cursor, c.batch, c.seen, c.code, m)
<1> DEFINE c == call[x]
<1>1. \A s, p, m, u, b, k, e, a :
        Becomes(x, With(c, s, p, m, u, b, k, e, a)) => Now(x, s, p, m, u, b, k, e, a)
  BY Moved, ZenonT(60)
<1> QED
  BY <1>1, CallMoves, ZenonT(60)

\* What was there and has not changed since was there.
LEMMA MatchingBack ==
  ASSUME StoreOK, StoreOK', StoreMoves, NEW kind, NEW o
  PROVE  \A p \in Matching(kind, o)' :
           rows'[p.key].rv <= version =>
             p \in Matching(kind, o) /\ p.key \in DOMAIN rows /\ rows'[p.key] = rows[p.key]
<1> SUFFICES ASSUME NEW p \in Matching(kind, o)', rows'[p.key].rv <= version
             PROVE  p \in Matching(kind, o) /\ p.key \in DOMAIN rows /\ rows'[p.key] = rows[p.key]
  OBVIOUS
<1>1. PICK k \in DOMAIN rows' :
        /\ k.kind = kind /\ InColony(k, o.colony) /\ o.label_selector \subseteq rows'[k].labels
        /\ p = [colony |-> Texts[k.colony], name |-> Texts[k.name], key |-> k]
  BY DEF Matching, InColony
<1>2. p.key = k
  BY <1>1
<1>3. k \in DOMAIN rows /\ rows'[k] = rows[k]
  <2>1. version \in Nat /\ rows'[k].rv \in Nat
    BY DEF StoreOK, RowTyped
  <2> QED
    BY <1>2, <2>1 DEF StoreMoves
<1> QED
  BY <1>1, <1>2, <1>3 DEF Matching



\* A call that no step touches is still in order, whatever the store becomes.
LEMMA CallStands ==
  ASSUME StoreOK, StoreOK', StoreMoves, NEW x \in Callers, CallOK(x), call'[x] = call[x]
  PROVE  CallOK(x)'
<1>0. version \in Nat /\ version' \in Nat /\ version <= version'
  BY DEF StoreOK, StoreMoves
<1>1. RequestOK(x)'
  BY DEF CallOK, RequestOK
<1>2. PhaseOK(x)'
  BY <1>0 DEF CallOK, PhaseOK
<1>3. MessageOK(x)'
  <2> SUFFICES ASSUME call[x].message # Nil,
                      NEW kind \in Kinds, For(x, kind, "List"),
                      NEW p \in Matching(kind, ScopeOf(x, kind))',
                      rows'[p.key].rv <= call[x].mark
               PROVE  OnPage(ScopeOf(x, kind), call[x].message, p)
    BY DEF CallOK, MessageOK, For, ForEvents, ScopeOf
  <2>1. PICK o : o = ScopeOf(x, kind)
    OBVIOUS
  <2>2. p \in Matching(kind, o)'
    BY <2>1 DEF Matching, ScopeOf
  <2>3. rows'[p.key].rv <= version
    <3>1. call[x].mark \in Nat /\ call[x].mark <= version
      BY DEF CallOK, PhaseOK
    <3>2. p.key \in DOMAIN rows'
      BY <2>2 DEF Matching
    <3>3. rows'[p.key].rv \in Nat
      BY <3>2 DEF StoreOK, RowTyped
    <3> QED
      BY <1>0, <3>1, <3>3
  <2>4. p \in Matching(kind, o) /\ rows'[p.key] = rows[p.key]
    BY <2>2, <2>3, MatchingBack
  <2> QED
    BY <2>1, <2>4 DEF CallOK, MessageOK
<1>4. StreamOK(x)'
  <2>1. ForEvents(x, "Watch")' => \A o \in call'[x].batch : o.event \in Event /\ o.rv \in Int
    BY DEF CallOK, StreamOK, ForEvents
  <2>2. ASSUME NEW kind \in Kinds, For(x, kind, "Watch") PROVE BatchOK(x, kind)'
    <3>0. BatchOK(x, kind)
      BY <2>2 DEF CallOK, StreamOK
    <3>1. ASSUME NEW o \in call[x].batch
          PROVE  /\ o.rv \in Nat /\ o.rv <= version
      BY <3>0 DEF BatchOK, RowTyped
    <3>2. ASSUME NEW k \in DOMAIN rows', NEW o \in call[x].batch,
                 k.kind = kind, InColony(k, ScopeOf(x, kind).colony),
                 call[x].cursor < rows'[k].rv, rows'[k].rv <= o.rv
          PROVE  \E p \in call[x].batch : p.key = k /\ p.rv = rows'[k].rv
      <4>1. rows'[k].rv \in Nat
        BY DEF StoreOK, RowTyped
      <4>2. k \in DOMAIN rows /\ rows'[k] = rows[k]
        BY <1>0, <3>1, <3>2, <4>1 DEF StoreMoves
      <4> QED
        BY <3>0, <3>2, <4>2 DEF BatchOK
    <3> QED
      BY <1>0, <3>0, <3>1, <3>2 DEF BatchOK, ScopeOf
  <2> QED
    BY <2>1, <2>2 DEF StreamOK, For
<1> QED
  BY <1>1, <1>2, <1>3, <1>4 DEF CallOK



\* The request does not change.
LEMMA RequestStands ==
  ASSUME NEW x \in Callers, CallOK(x), call'[x].service = call[x].service,
         call'[x].method = call[x].method, call'[x].request = call[x].request
  PROVE  RequestOK(x)'
BY DEF CallOK, RequestOK

\* A call that is answered with a fitting message is in order.
LEMMA AnsweredCall ==
  ASSUME StoreOK, StoreMoves, CallsAre, NEW x \in Callers, CallOK(x),
         NEW code \in Failures \cup {"ok"}, NEW m, code = "ok" <=> m # Nil,
         Answer(x, code, m), call[x].stage # "idle",
         code = "ok" => call[x].method \notin {"Watch", "Logs"}
  PROVE  /\ OthersStand(x) /\ RequestOK(x)' /\ PhaseOK(x)' /\ StreamOK(x)'
         /\ call'[x].service = call[x].service /\ call'[x].method = call[x].method
         /\ call'[x].request = call[x].request /\ call'[x].mark = call[x].mark
         /\ call'[x].message = m
<1> DEFINE c == call[x]
<1>1. Now(x, "answered", c.principal, c.mark, c.cursor, {}, c.seen, code, m)
  BY CallsMove
<1>2. /\ OthersStand(x)
      /\ call'[x].stage = "answered" /\ call'[x].mark = c.mark
      /\ call'[x].cursor = c.cursor /\ call'[x].batch = {} /\ call'[x].seen = c.seen
      /\ call'[x].code = code /\ call'[x].message = m
      /\ call'[x].service = c.service /\ call'[x].method = c.method
      /\ call'[x].request = c.request
  BY <1>1 DEF Now
<1>3. RequestOK(x)'
  BY <1>2, RequestStands
<1>4. version \in Nat /\ version' \in Nat /\ version <= version'
  BY DEF StoreOK, StoreMoves
<1>6. code # Nil
  <2>1. "ok" \in Codes
    BY DEF Codes
  <2>2. code \in Codes \cup {"unknown", "unimplemented"}
    BY <2>1 DEF Failures
  <2> QED
    BY <2>2, NilAssumption
<1>7. PhaseOK(x)'
  BY <1>2, <1>4, <1>6 DEF CallOK, PhaseOK
<1>8. StreamOK(x)'
  BY <1>2 DEF CallOK, StreamOK, BatchOK, For, ForEvents
<1> QED
  BY <1>2, <1>3, <1>7, <1>8

\* So is one that fails.
LEMMA FailedCall ==
  ASSUME StoreOK, StoreMoves, CallsAre, NEW x \in Callers, CallOK(x),
         NEW code \in Failures, Answer(x, code, Nil), call[x].stage # "idle"
  PROVE  OthersStand(x) /\ CallOK(x)'
<1>1. code # "ok"
  BY DEF Failures
<1>2. /\ OthersStand(x) /\ RequestOK(x)' /\ PhaseOK(x)' /\ StreamOK(x)'
      /\ call'[x].message = Nil
  BY <1>1, AnsweredCall
<1>3. MessageOK(x)'
  BY <1>2 DEF MessageOK
<1> QED
  BY <1>2, <1>3 DEF CallOK



-----------------------------------------------------------------------------
(* Steps of the handlers.                                                  *)

\* A call is for one method of one service.
LEMMA OneMethod ==
  ASSUME NEW x \in Callers, NEW kind \in Kinds, NEW method, call[x].service = ServiceOf(kind),
         call[x].method = method
  PROVE  /\ \A k \in Kinds : \A n : For(x, k, n) => k = kind /\ n = method
         /\ \A n : ~ForEvents(x, n)
BY ServicesDiffer DEF For, ForEvents

\* A call to the EventService is one of its three.
LEMMA OneEventMethod ==
  ASSUME NEW x \in Callers, NEW method, call[x].service = "EventService",
         call[x].method = method
  PROVE  /\ \A k \in Kinds : \A n : ~For(x, k, n)
         /\ \A n : ForEvents(x, n) => n = method
BY ServicesDiffer DEF For, ForEvents

\* A step of x leaves the store, its call and the others in order.
StepOK(x) == StoreOK' /\ StoreMoves /\ OthersStand(x) /\ CallOK(x)'

\* A call of a kind's service is as its generated client made it.
LEMMA HandledRequest ==
  ASSUME ApiOK, NEW x \in Callers, NEW kind \in Kinds, NEW method,
         Handles(x, ServiceOf(kind), method)
  PROVE  /\ CallOK(x) /\ call[x].stage \in {"dispatched", "counted", "streaming"}
         /\ call[x].service = ServiceOf(kind) /\ call[x].method = method
         /\ call[x].message # Nil => call[x].stage = "streaming"
         /\ Fits(ServiceOf(kind), method, call[x].request, Nil)
<1>1. CallOK(x) /\ call[x].service \in Mounted
  BY ServicesDiffer DEF ApiOK, Handles
<1> QED
  BY <1>1 DEF CallOK, RequestOK, Handles, PhaseOK

\* An Apply does.
LEMMA ApplyStep ==
  ASSUME ApiOK, NEW x \in Callers, NEW kind \in Kinds,
         Handles(x, ServiceOf(kind), "Apply"), ApplyObject(x, kind)
  PROVE  StepOK(x)
<1>1. /\ CallOK(x) /\ call[x].stage \in {"dispatched", "counted", "streaming"}
      /\ call[x].service = ServiceOf(kind) /\ call[x].method = "Apply"
      /\ Fits(ServiceOf(kind), "Apply", call[x].request, Nil)
  BY HandledRequest
<1>2. /\ call[x].request \in [object: Optional(ObjectOf(kind)), if_resource_version: Precondition]
      /\ call[x].request.object # Nil =>
           /\ Get(call[x].request.object.metadata, "colony", Unset) \in Names
           /\ Get(call[x].request.object.metadata, "name", Unset) \in Names
  <2>1. call[x].service \in Mounted
    BY <1>1, ServicesDiffer
  <2> QED
    BY <1>1, <2>1, FitsKind DEF CallOK, RequestOK
<1>3. StoreOK' /\ StoreMoves /\ Replies(x, Whole(kind))
  BY <1>2, ApplyKeeps DEF ApiOK
<1>4. StoreOK /\ CallsAre
  BY DEF ApiOK
<1>5. ASSUME NEW m \in Whole(kind), Answer(x, "ok", m)
      PROVE  OthersStand(x) /\ CallOK(x)'
  <2>1. m # Nil
    BY WholeIsObject
  <2>2. /\ OthersStand(x) /\ RequestOK(x)' /\ PhaseOK(x)' /\ StreamOK(x)'
        /\ call'[x].service = ServiceOf(kind) /\ call'[x].method = "Apply" /\ call'[x].message = m
    BY <1>1, <1>3, <1>4, <1>5, <2>1, AnsweredCall
  <2>3. /\ \A k \in Kinds : \A n : For(x, k, n)' => k = kind /\ n = "Apply"
        /\ \A n : ~ForEvents(x, n)'
    BY <2>2, ServicesDiffer DEF For, ForEvents
  <2>4. MessageOK(x)'
    BY <2>2, <2>3 DEF MessageOK
  <2> QED
    BY <2>2, <2>4 DEF CallOK
<1>6. ASSUME NEW code \in Failures, Answer(x, code, Nil)
      PROVE  OthersStand(x) /\ CallOK(x)'
  BY <1>1, <1>3, <1>4, <1>6, FailedCall
<1> QED
  BY <1>3, <1>5, <1>6 DEF Replies, StepOK

\* A Get does.
LEMMA GetStep ==
  ASSUME ApiOK, NEW x \in Callers, NEW kind \in Kinds,
         Handles(x, ServiceOf(kind), "Get"),
         GetObject(x, kind, ColonyOf(kind, call[x].request))
  PROVE  StepOK(x)
<1>1. /\ CallOK(x) /\ call[x].stage \in {"dispatched", "counted", "streaming"}
      /\ call[x].service = ServiceOf(kind) /\ call[x].method = "Get"
      /\ Fits(ServiceOf(kind), "Get", call[x].request, Nil)
  BY HandledRequest
<1>2. call[x].request \in GetRequestOf(kind)
  BY <1>1, FitsKind
<1> DEFINE M == {m \in Whole(kind) : /\ m.metadata.name = call[x].request.name
                                     /\ m.metadata.colony = ColonyOf(kind, call[x].request)}
<1>3. StoreOK' /\ StoreMoves /\ Replies(x, M)
  BY <1>2, GetKeeps DEF ApiOK
<1>4. StoreOK /\ CallsAre
  BY DEF ApiOK
<1>5. ASSUME NEW m \in M, Answer(x, "ok", m)
      PROVE  OthersStand(x) /\ CallOK(x)'
  <2>1. m # Nil
    BY WholeIsObject
  <2>2. /\ OthersStand(x) /\ RequestOK(x)' /\ PhaseOK(x)' /\ StreamOK(x)'
        /\ call'[x].service = ServiceOf(kind) /\ call'[x].method = "Get" /\ call'[x].message = m
        /\ call'[x].request = call[x].request
    BY <1>1, <1>3, <1>4, <1>5, <2>1, AnsweredCall
  <2>3. /\ \A k \in Kinds : \A n : For(x, k, n)' => k = kind /\ n = "Get"
        /\ \A n : ~ForEvents(x, n)'
    BY <2>2, ServicesDiffer DEF For, ForEvents
  <2>4. MessageOK(x)'
    BY <2>2, <2>3 DEF MessageOK
  <2> QED
    BY <2>2, <2>4 DEF CallOK
<1>6. ASSUME NEW code \in Failures, Answer(x, code, Nil)
      PROVE  OthersStand(x) /\ CallOK(x)'
  BY <1>1, <1>3, <1>4, <1>6, FailedCall
<1> QED
  BY <1>3, <1>5, <1>6 DEF Replies, StepOK


\* A List does, when it reads the counter and when it reads the page.
LEMMA ListStep ==
  ASSUME ApiOK, NEW x \in Callers, NEW kind \in Kinds,
         Handles(x, ServiceOf(kind), "List"),
         ListObjects(x, kind, OptionsOf(kind, call[x].request.options))
  PROVE  StepOK(x)
<1>1. /\ CallOK(x) /\ call[x].stage \in {"dispatched", "counted", "streaming"}
      /\ call[x].service = ServiceOf(kind) /\ call[x].method = "List"
      /\ call[x].message # Nil => call[x].stage = "streaming"
      /\ Fits(ServiceOf(kind), "List", call[x].request, Nil)
  BY HandledRequest
<1> DEFINE o == OptionsOf(kind, call[x].request.options)
           M == {m \in ListPage(kind) :
                   /\ m.list_meta.resource_version = call[x].mark
                   /\ PageOK(o, m)
                   /\ \A p \in Matching(kind, o) : OnPage(o, m, p)}
<1>2. o \in ListOptions
  <2>1. call[x].request.options \in Optional(ListOptions)
    BY <1>1, FitsKind
  <2> QED
    BY <2>1, OptionsTyped
<1>3. StoreOK /\ CallsAre /\ call[x].mark \in Nat
  BY <1>1 DEF ApiOK, CallOK, PhaseOK
<1>4. /\ StoreOK' /\ UNCHANGED <<rows, version, log>>
      /\ \/ /\ call[x].stage = "dispatched"
            /\ call' = [call EXCEPT ![x].stage = "counted", ![x].mark = version]
         \/ call[x].stage = "counted" /\ Replies(x, M)
         \/ Answer(x, Code("failed"), Nil)
  BY <1>2, <1>3, ListKeeps, Zenon
<1>5. StoreMoves
  <2>1. version \in Nat
    BY <1>3 DEF StoreOK
  <2> QED
    BY <1>4, <2>1 DEF StoreMoves
<1>6. CASE /\ call[x].stage = "dispatched"
           /\ call' = [call EXCEPT ![x].stage = "counted", ![x].mark = version]
  <2>1. Now(x, "counted", call[x].principal, version, call[x].cursor, call[x].batch,
            call[x].seen, call[x].code, call[x].message)
    BY <1>3, <1>6, CallsMove
  <2>2. RequestOK(x)'
    BY <1>1, <2>1, RequestStands DEF Now
  <2>3. PhaseOK(x)'
    <3>1. version \in Nat /\ version' = version
      BY <1>3, <1>4 DEF StoreOK
    <3>2. PhaseOK(x) /\ call[x].method = "List" /\ call[x].service \in Mounted
      BY <1>1, ServicesDiffer DEF CallOK
    <3>3. call[x].stage = "dispatched"
      BY <1>6
    <3> QED
      BY <2>1, <3>1, <3>2, <3>3 DEF Now, PhaseOK
  <2>4. call'[x].message = Nil /\ call'[x].batch = {} /\ call'[x].seen = {}
    BY <1>1, <1>6, <2>1 DEF Now, CallOK, PhaseOK
  <2>5. MessageOK(x)' /\ StreamOK(x)'
    BY <2>4 DEF MessageOK, StreamOK, BatchOK
  <2> QED
    BY <1>4, <1>5, <2>1, <2>2, <2>3, <2>5 DEF StepOK, Now, CallOK
<1>7. ASSUME call[x].stage = "counted", NEW m \in M, Answer(x, "ok", m)
      PROVE  StepOK(x)
  <2>1. m # Nil
    <3>1. m \in ListPage(kind)
      OBVIOUS
    <3>2. m \in ListResponseOf(kind)
      <4>1. \A t \in Whole(kind) : t \in ObjectOf(kind)
        BY WholeIsObject
      <4>2. m = [items |-> m.items, list_meta |-> m.list_meta]
            /\ m.items \in Seq(Whole(kind)) /\ m.list_meta \in ListMeta
        BY <3>1 DEF ListPage
      <4>3. m.items \in Seq(ObjectOf(kind))
        BY <4>1, <4>2
      <4> QED
        BY <4>2, <4>3, MessagesOfKind
    <3> QED
      BY <3>2, NilIsNothing
  <2>2. /\ OthersStand(x) /\ RequestOK(x)' /\ PhaseOK(x)' /\ StreamOK(x)'
        /\ call'[x].service = ServiceOf(kind) /\ call'[x].method = "List" /\ call'[x].message = m
        /\ call'[x].request = call[x].request /\ call'[x].mark = call[x].mark
    BY <1>1, <1>3, <1>4, <1>5, <1>7, <2>1, AnsweredCall
  <2>3. /\ \A k \in Kinds : \A n : For(x, k, n)' => k = kind /\ n = "List"
        /\ \A n : ~ForEvents(x, n)'
    BY <2>2, ServicesDiffer DEF For, ForEvents
  <2>4. ScopeOf(x, kind)' = o
    BY <2>2 DEF ScopeOf
  <2>5. ASSUME NEW p \in Matching(kind, ScopeOf(x, kind))' PROVE OnPage(o, m, p)
    <3>1. p \in Matching(kind, o)
      BY <1>4, <2>2 DEF Matching, ScopeOf
    <3> QED
      BY <3>1
  <2>6. MessageOK(x)'
    BY <2>2, <2>3, <2>4, <2>5 DEF MessageOK
  <2> QED
    BY <1>4, <1>5, <2>2, <2>6 DEF StepOK, CallOK
<1>8. ASSUME NEW code \in Failures, Answer(x, code, Nil)
      PROVE  StepOK(x)
  <2>1. OthersStand(x) /\ CallOK(x)'
    BY <1>1, <1>3, <1>5, <1>8, FailedCall
  <2> QED
    BY <1>4, <1>5, <2>1 DEF StepOK
<1> QED
  BY <1>4, <1>6, <1>7, <1>8, CodesOfErrors DEF Replies

\* What a call carries while the EventService handles it.
LEMMA HandledEvent ==
  ASSUME ApiOK, NEW x \in Callers, NEW method, Handles(x, "EventService", method)
  PROVE  /\ CallOK(x) /\ call[x].stage \in {"dispatched", "counted", "streaming"}
         /\ call[x].service = "EventService" /\ call[x].method = method
         /\ Fits("EventService", method, call[x].request, Nil)
<1>1. CallOK(x) /\ call[x].service \in Mounted
  BY DEF ApiOK, Handles, Mounted
<1> QED
  BY <1>1 DEF CallOK, RequestOK, Handles

\* What is answered to a request about events.
LEMMA EventAnswered ==
  ASSUME ApiOK, NEW x \in Callers, NEW method \in {"Append", "List"},
         Handles(x, "EventService", method), StoreOK', StoreMoves,
         NEW M, M = (IF method = "Append" THEN Event ELSE ListEventsResponse), Replies(x, M)
  PROVE  StepOK(x)
<1>1. /\ CallOK(x) /\ call[x].stage \in {"dispatched", "counted", "streaming"}
      /\ call[x].service = "EventService" /\ call[x].method = method
  BY HandledEvent
<1>2. StoreOK /\ CallsAre
  BY DEF ApiOK
<1>3. ASSUME NEW m \in M, Answer(x, "ok", m)
      PROVE  StepOK(x)
  <2>1. m # Nil
    BY NilAssumption
  <2>2. /\ OthersStand(x) /\ RequestOK(x)' /\ PhaseOK(x)' /\ StreamOK(x)'
        /\ call'[x].service = "EventService" /\ call'[x].method = method /\ call'[x].message = m
    BY <1>1, <1>2, <1>3, <2>1, AnsweredCall
  <2>3. /\ \A k \in Kinds : \A n : ~For(x, k, n)'
        /\ \A n : ForEvents(x, n)' => n = method
    BY <2>2, ServicesDiffer DEF For, ForEvents
  <2>4. MessageOK(x)'
    BY <2>2, <2>3 DEF MessageOK
  <2> QED
    BY <2>2, <2>4 DEF StepOK, CallOK
<1>4. ASSUME NEW code \in Failures, Answer(x, code, Nil)
      PROVE  StepOK(x)
  <2>1. OthersStand(x) /\ CallOK(x)'
    BY <1>1, <1>2, <1>4, FailedCall
  <2> QED
    BY <2>1 DEF StepOK
<1> QED
  BY <1>3, <1>4 DEF Replies

\* An Append does.
LEMMA AppendStep ==
  ASSUME ApiOK, NEW x \in Callers, Handles(x, "EventService", "Append"), AppendEvent(x)
  PROVE  StepOK(x)
<1>1. call[x].request \in [object: Optional(Event)]
  BY HandledEvent, FitsEvents
<1>2. StoreOK' /\ StoreMoves /\ Replies(x, Event)
  BY <1>1, AppendKeeps DEF ApiOK
<1> QED
  BY <1>2, EventAnswered

\* A List of events does.
LEMMA ListEventsStep ==
  ASSUME ApiOK, NEW x \in Callers, Handles(x, "EventService", "List"), ListEvents(x)
  PROVE  StepOK(x)
<1>1. call[x].request \in [colony: STRING, run: STRING, since_seq: Int, limit: Int]
  BY HandledEvent, FitsEvents
<1>2. UNCHANGED <<rows, version, log>> /\ Replies(x, ListEventsResponse)
  BY <1>1, ListEventsKeeps DEF ApiOK
<1>3. StoreOK' /\ StoreMoves
  <2>1. StoreOK /\ version \in Nat
    BY DEF ApiOK, StoreOK
  <2>2. version' \in Nat /\ version <= version' /\ UNCHANGED <<rows, log>>
    BY <1>2, <2>1
  <2> QED
    BY <2>1, <2>2, VersionTaken
<1> QED
  BY <1>2, <1>3, EventAnswered

\* A step that refuses.
LEMMA RefuseStep ==
  ASSUME ApiOK, NEW x \in Callers, NEW code \in Failures, Refuse(x, code),
         call[x].stage # "idle"
  PROVE  StepOK(x)
<1>1. StoreOK /\ CallsAre /\ CallOK(x)
  BY DEF ApiOK
<1>2. StoreOK' /\ StoreMoves
  BY <1>1, RefuseKeeps
<1>3. Answer(x, code, Nil)
  BY DEF Refuse
<1>4. OthersStand(x) /\ CallOK(x)'
  BY <1>1, <1>2, <1>3, FailedCall
<1> QED
  BY <1>2, <1>4 DEF StepOK

\* Authenticate leaves everything in order.
LEMMA AuthenticateStep ==
  ASSUME ApiOK, NEW x \in Callers, Authenticate(x)
  PROVE  StepOK(x)
<1>1. StoreOK /\ CallsAre /\ CallOK(x) /\ version \in Nat
  BY DEF ApiOK, StoreOK
<1>2. /\ UNCHANGED <<rows, version, log>> /\ call[x].stage = "arrived"
      /\ call[x].service \in Mounted
  BY DEF Authenticate, storeVars
<1>3. StoreOK' /\ StoreMoves
  <2>1. version' \in Nat /\ version <= version' /\ UNCHANGED <<rows, log>>
    BY <1>1, <1>2
  <2> QED
    BY <1>1, <2>1, VersionTaken
<1>4. Now(x, "dispatched", "dev", call[x].mark, call[x].cursor, call[x].batch,
          call[x].seen, call[x].code, call[x].message)
  BY <1>1, CallsMove
<1>5. RequestOK(x)'
  BY <1>1, <1>4, RequestStands DEF Now
<1>6. PhaseOK(x)'
  BY <1>1, <1>2, <1>4 DEF Now, CallOK, PhaseOK
<1>7. call'[x].message = Nil /\ call'[x].batch = {} /\ call'[x].seen = {}
  BY <1>1, <1>2, <1>4 DEF Now, CallOK, PhaseOK
<1>8. MessageOK(x)' /\ StreamOK(x)'
  BY <1>7 DEF MessageOK, StreamOK, BatchOK
<1> QED
  BY <1>3, <1>4, <1>5, <1>6, <1>8 DEF StepOK, Now, CallOK


-----------------------------------------------------------------------------
(* Steps of the streams.                                                   *)

\* The first of a set: with each of them all there is before it.
LEMMA FirstOfIsFirst ==
  ASSUME NEW S, IsFiniteSet(S), \A a \in S : a.rv \in Int
  PROVE  /\ FirstOf(S) \subseteq S
         /\ \A a \in FirstOf(S), b \in S : b.rv <= a.rv => b \in FirstOf(S)
<1>1. FirstOf(S) \subseteq S
  BY DEF FirstOf
<1>2. ASSUME NEW a \in FirstOf(S), NEW b \in S, b.rv <= a.rv PROVE b \in FirstOf(S)
  <2> DEFINE A == {d \in S : d.rv < a.rv}
             B == {d \in S : d.rv < b.rv}
  <2>1. A \in SUBSET S /\ B \in SUBSET A
    BY <1>1, <1>2
  <2>2. IsFiniteSet(A) /\ IsFiniteSet(B)
    BY <2>1, FS_Subset
  <2>3. Cardinality(B) <= Cardinality(A) /\ Cardinality(B) \in Nat /\ Cardinality(A) \in Nat
    BY <2>1, <2>2, FS_Subset, FS_CardinalityType
  <2>4. Cardinality(A) < BatchLimit
    BY DEF FirstOf
  <2>5. Cardinality(B) < BatchLimit
    <3> HIDE DEF A, B
    <3> QED
      BY <2>3, <2>4, BatchAssumption
  <2> QED
    BY <2>5 DEF FirstOf
<1> QED
  BY <1>1, <1>2

\* A store that is not written to is in order.
LEMMA StoreStill ==
  ASSUME StoreOK, UNCHANGED <<rows, version, log>>
  PROVE  StoreOK' /\ StoreMoves
<1>1. version \in Nat
  BY DEF StoreOK
<1>2. version' \in Nat /\ version <= version' /\ UNCHANGED <<rows, log>>
  BY <1>1
<1> QED
  BY <1>2, VersionTaken

\* The opening of a stream does.
LEMMA OpenStep ==
  ASSUME ApiOK, NEW x \in Callers, CallOK(x), call[x].stage = "dispatched",
         call[x].method = "Watch", NEW n \in Int, Open(x, n), UNCHANGED storeVars
  PROVE  StepOK(x)
<1>1. StoreOK /\ CallsAre /\ version \in Nat /\ UNCHANGED <<rows, version, log>>
  BY DEF ApiOK, StoreOK, storeVars
<1>2. StoreOK' /\ StoreMoves
  BY <1>1, StoreStill
<1>3. Now(x, "streaming", call[x].principal, call[x].mark, n, call[x].batch,
          call[x].seen, call[x].code, call[x].message)
  BY <1>1, CallsMove
<1>4. RequestOK(x)'
  BY <1>3, RequestStands DEF Now
<1>5. PhaseOK(x)'
  BY <1>1, <1>3 DEF Now, CallOK, PhaseOK
<1>6. call'[x].message = Nil /\ call'[x].batch = {} /\ call'[x].seen = {}
  BY <1>3 DEF Now, CallOK, PhaseOK
<1>7. MessageOK(x)' /\ StreamOK(x)'
  BY <1>6 DEF MessageOK, StreamOK, BatchOK
<1> QED
  BY <1>2, <1>3, <1>4, <1>5, <1>7 DEF StepOK, Now, CallOK

\* What a poll reads of a kind.
IsNewer(x, kind, colony, S) ==
  /\ IsFiniteSet(S)
  /\ \A o \in S :
       /\ o.key \in DOMAIN rows /\ o.key \in Key /\ o.key.kind = kind
       /\ InColony(o.key, colony) /\ o.row = rows[o.key] /\ o.rv = rows[o.key].rv
       /\ RowTyped(kind, o.row) /\ o.rv \in Nat
       /\ call[x].cursor < o.rv /\ o.rv <= version
  /\ \A o, p \in S : o.rv = p.rv => o = p
  /\ \A k \in DOMAIN rows :
       k.kind = kind /\ InColony(k, colony) /\ rows[k].rv > call[x].cursor =>
         \E o \in S : o.key = k /\ o.row = rows[k] /\ o.rv = rows[k].rv

\* The rows newer than the cursor are that.
LEMMA NewerTyped ==
  ASSUME StoreOK, NEW x \in Callers, NEW kind \in Kinds, NEW colony
  PROVE  IsNewer(x, kind, colony, Newer(x, kind, colony))
<1> DEFINE K == {k \in DOMAIN rows :
                   k.kind = kind /\ InColony(k, colony) /\ rows[k].rv > call[x].cursor}
           N(k) == [key |-> k, row |-> rows[k], rv |-> rows[k].rv]
           S == {N(k) : k \in K}
           f == [k \in K |-> N(k)]
<1>1. Newer(x, kind, colony) = S
  BY DEF Newer
<1>2. K \in SUBSET DOMAIN rows /\ IsFiniteSet(K)
  <2>1. K \in SUBSET DOMAIN rows
    OBVIOUS
  <2> QED
    BY <2>1, FS_Subset DEF StoreOK
<1>3. \A k \in K : /\ k \in DOMAIN rows /\ k \in Key /\ k.kind = kind /\ InColony(k, colony)
                   /\ RowTyped(kind, rows[k]) /\ rows[k].rv \in Nat /\ rows[k].rv <= version
                   /\ rows[k].rv > call[x].cursor
  BY DEF StoreOK, RowTyped
<1>4. \A k \in DOMAIN rows :
        k.kind = kind /\ InColony(k, colony) /\ rows[k].rv > call[x].cursor => k \in K
  OBVIOUS
<1> HIDE DEF K
<1>5. IsFiniteSet(S)
  <2>1. f \in Surjection(K, S)
    BY DEF Surjection
  <2> QED
    BY <1>2, <2>1, FS_Surjection
<1>6. \A k \in K : N(k).key = k /\ N(k).row = rows[k] /\ N(k).rv = rows[k].rv
  OBVIOUS
<1>7. \A j, k \in K : rows[j].rv = rows[k].rv => j = k
  BY <1>3 DEF StoreOK
<1>8. \A o \in S : \E k \in K : o = N(k)
  OBVIOUS
<1>9. \A k \in K : N(k) \in S
  OBVIOUS
<1> HIDE DEF S, N
<1>10. ASSUME NEW o \in S
       PROVE  /\ o.key \in DOMAIN rows /\ o.key \in Key /\ o.key.kind = kind
              /\ InColony(o.key, colony) /\ o.row = rows[o.key] /\ o.rv = rows[o.key].rv
              /\ RowTyped(kind, o.row) /\ o.rv \in Nat
              /\ call[x].cursor < o.rv /\ o.rv <= version
  <2>1. PICK k \in K : o = N(k)
    BY <1>8
  <2>2. o.key = k /\ o.row = rows[k] /\ o.rv = rows[k].rv
    BY <1>6, <2>1
  <2>3. /\ k \in DOMAIN rows /\ k \in Key /\ k.kind = kind /\ InColony(k, colony)
        /\ RowTyped(kind, rows[k]) /\ rows[k].rv \in Nat /\ rows[k].rv <= version
        /\ rows[k].rv > call[x].cursor
    BY <1>3
  <2>4. call[x].cursor < rows[k].rv
    BY <2>3
  <2> QED
    BY <2>2, <2>3, <2>4
<1>11. \A o, p \in S : o.rv = p.rv => o = p
  <2> SUFFICES ASSUME NEW o \in S, NEW p \in S, o.rv = p.rv PROVE o = p
    OBVIOUS
  <2>1. PICK j \in K : o = N(j)
    BY <1>8
  <2>2. PICK k \in K : p = N(k)
    BY <1>8
  <2> QED
    BY <1>6, <1>7, <2>1, <2>2
<1>12. \A k \in DOMAIN rows :
         k.kind = kind /\ InColony(k, colony) /\ rows[k].rv > call[x].cursor =>
           \E o \in S : o.key = k /\ o.row = rows[k] /\ o.rv = rows[k].rv
  BY <1>4, <1>6, <1>9
<1> QED
  BY <1>1, <1>5, <1>10, <1>11, <1>12 DEF IsNewer


\* A poll of objects.
LEMMA PollStep ==
  ASSUME ApiOK, NEW x \in Callers, NEW kind \in Kinds, CallOK(x),
         call[x].service = ServiceOf(kind), call[x].method = "Watch",
         Poll(x, Newer(x, kind, ScopeOf(x, kind).colony)), UNCHANGED storeVars
  PROVE  /\ StepOK(x)
         /\ Now(x, "streaming", call[x].principal, call[x].mark, call[x].cursor,
                FirstOf(Newer(x, kind, ScopeOf(x, kind).colony)), call[x].seen, call[x].code, Nil)
<1> DEFINE S == Newer(x, kind, ScopeOf(x, kind).colony)
<1>1. StoreOK /\ CallsAre /\ version \in Nat /\ UNCHANGED <<rows, version, log>>
  BY DEF ApiOK, StoreOK, storeVars
<1>2. StoreOK' /\ StoreMoves
  BY <1>1, StoreStill
<1>3. call[x].stage = "streaming" /\ call[x].batch = {} /\ call[x].message = Nil
  BY DEF Poll, Drained
<1>4. Now(x, call[x].stage, call[x].principal, call[x].mark, call[x].cursor, FirstOf(S),
          call[x].seen, call[x].code, call[x].message)
  BY <1>1, CallsMove
<1>5. RequestOK(x)'
  BY <1>4, RequestStands DEF Now
<1>6. PhaseOK(x)'
  BY <1>1, <1>3, <1>4 DEF Now, CallOK, PhaseOK
<1>7. MessageOK(x)'
  BY <1>3, <1>4 DEF Now, MessageOK
<1>8. /\ \A k \in Kinds : \A n : For(x, k, n)' => k = kind /\ n = "Watch"
      /\ \A n : ~ForEvents(x, n)'
  BY <1>4, ServicesDiffer DEF For, ForEvents, Now
<1>9. BatchOK(x, kind)'
  <2>1. IsNewer(x, kind, ScopeOf(x, kind).colony, S)
    BY <1>1, NewerTyped
  <2> HIDE DEF S
  <2>2. /\ FirstOf(S) \subseteq S
        /\ \A a \in FirstOf(S), b \in S : b.rv <= a.rv => b \in FirstOf(S)
    BY <2>1, FirstOfIsFirst DEF IsNewer
  <2>3. /\ call'[x].batch = FirstOf(S) /\ call'[x].cursor = call[x].cursor
        /\ call'[x].seen = call[x].seen /\ call'[x].request = call[x].request
    BY <1>4 DEF Now
  <2>4. ScopeOf(x, kind)' = ScopeOf(x, kind)
    BY <2>3 DEF ScopeOf
  <2>5. ASSUME NEW o \in FirstOf(S)
        PROVE  /\ o.key \in Key /\ o.key.kind = kind
               /\ InColony(o.key, ScopeOf(x, kind).colony)
               /\ RowTyped(kind, o.row) /\ o.rv = o.row.rv
               /\ call[x].cursor < o.rv /\ o.rv <= version
    BY <2>1, <2>2 DEF IsNewer
  <2>6. \A o, p \in FirstOf(S) : o.rv = p.rv => o = p
    BY <2>1, <2>2 DEF IsNewer
  <2>7. ASSUME NEW k \in DOMAIN rows, NEW o \in FirstOf(S),
               k.kind = kind, InColony(k, ScopeOf(x, kind).colony),
               call[x].cursor < rows[k].rv, rows[k].rv <= o.rv
        PROVE  \E p \in FirstOf(S) : p.key = k /\ p.rv = rows[k].rv
    <3>1. rows[k].rv > call[x].cursor
      BY <2>7, <1>1 DEF CallOK, PhaseOK, StoreOK, RowTyped
    <3>2. PICK p \in S : p.key = k /\ p.rv = rows[k].rv
      BY <2>1, <2>7, <3>1 DEF IsNewer
    <3> QED
      BY <2>2, <2>7, <3>2
  <2>8. \A k \in call[x].seen : k \in Key /\ k.kind = kind
    BY DEF CallOK, StreamOK, For, BatchOK
  <2> QED
    BY <1>1, <2>3, <2>4, <2>5, <2>6, <2>7, <2>8 DEF BatchOK
<1>10. StreamOK(x)'
  BY <1>8, <1>9 DEF StreamOK
<1> QED
  BY <1>2, <1>3, <1>4, <1>5, <1>6, <1>7, <1>10 DEF StepOK, Now, CallOK

\* An object is sent.
LEMMA SendStep ==
  ASSUME ApiOK, NEW x \in Callers, NEW kind \in Kinds, CallOK(x),
         call[x].service = ServiceOf(kind), call[x].method = "Watch",
         NEW o \in call[x].batch, call[x].message = Nil,
         \A p \in call[x].batch : o.rv <= p.rv, Unmarshals(o.row),
         NEW m, m = [type |-> Classify(x, o.key), resource_version |-> o.rv,
                     object |-> FromResource(o.key, o.row)],
         Now(x, call[x].stage, call[x].principal, call[x].mark, o.rv, call[x].batch \ {o},
             call[x].seen \cup {o.key}, call[x].code, m),
         UNCHANGED storeVars
  PROVE  /\ StepOK(x)
         /\ m \in StreamMessage(kind) /\ m.type # "BOOKMARK"
         /\ m.object.metadata.colony = o.key.colony /\ m.object.metadata.name = o.key.name
<1>1. StoreOK /\ CallsAre /\ version \in Nat /\ UNCHANGED <<rows, version, log>>
  BY DEF ApiOK, StoreOK, storeVars
<1>2. StoreOK' /\ StoreMoves
  BY <1>1, StoreStill
<1>3. call[x].stage = "streaming"
  BY DEF CallOK, PhaseOK
<1>4. Now(x, call[x].stage, call[x].principal, call[x].mark, o.rv, call[x].batch \ {o},
          call[x].seen \cup {o.key}, call[x].code, m)
  OBVIOUS
<1>5. BatchOK(x, kind)
  BY DEF CallOK, StreamOK, For
<1>6. /\ o.key \in Key /\ o.key.kind = kind /\ RowTyped(kind, o.row) /\ o.rv = o.row.rv
      /\ call[x].cursor < o.rv /\ o.rv <= version /\ o.rv \in Nat
  BY <1>5 DEF BatchOK, RowTyped
<1>7. /\ FromResource(o.key, o.row) \in Whole(kind)
      /\ FromResource(o.key, o.row).metadata.colony = o.key.colony
      /\ FromResource(o.key, o.row).metadata.name = o.key.name
  <2>1. RowTyped(o.key.kind, o.row)
    BY <1>6
  <2>2. /\ FromResource(o.key, o.row) \in Whole(o.key.kind)
        /\ FromResource(o.key, o.row).metadata = ToObjectMeta(o.key, o.row)
    BY <1>6, <2>1, ReadsWhole
  <2> QED
    BY <1>6, <2>2 DEF ToObjectMeta
<1>8. m \in StreamMessage(kind) /\ m.type # "BOOKMARK" /\ m.object = FromResource(o.key, o.row)
  BY <1>6, <1>7 DEF StreamMessage, Classify
<1>9. RequestOK(x)'
  BY <1>4, RequestStands DEF Now
<1>10. PhaseOK(x)'
  <2>1. PhaseOK(x) /\ version' = version
    BY <1>1 DEF CallOK
  <2> QED
    BY <1>3, <1>4, <1>6, <2>1 DEF Now, PhaseOK
<1>11. /\ \A k \in Kinds : \A n : For(x, k, n)' => k = kind /\ n = "Watch"
       /\ \A n : ~ForEvents(x, n)'
  BY <1>4, ServicesDiffer DEF For, ForEvents, Now
<1>12. MessageOK(x)'
  <2>1. call'[x].message = m
    BY <1>4 DEF Now
  <2> QED
    BY <1>8, <1>11, <2>1 DEF MessageOK
<1>13. BatchOK(x, kind)'
  <2>1. /\ call'[x].batch = call[x].batch \ {o} /\ call'[x].cursor = o.rv
        /\ call'[x].seen = call[x].seen \cup {o.key} /\ call'[x].request = call[x].request
    BY <1>4 DEF Now
  <2>2. ScopeOf(x, kind)' = ScopeOf(x, kind)
    BY <2>1 DEF ScopeOf
  <2>3. ASSUME NEW p \in call[x].batch, p # o
        PROVE  /\ p.key \in Key /\ p.key.kind = kind
               /\ InColony(p.key, ScopeOf(x, kind).colony)
               /\ RowTyped(kind, p.row) /\ p.rv = p.row.rv
               /\ o.rv < p.rv /\ p.rv <= version
    <3>1. p.rv \in Nat /\ p.rv # o.rv /\ o.rv <= p.rv
      BY <1>5, <2>3 DEF BatchOK, RowTyped
    <3>2. o.rv < p.rv
      BY <1>6, <3>1
    <3> QED
      BY <1>5, <3>2 DEF BatchOK
  <2>4. \A p, r \in call[x].batch : p.rv = r.rv => p = r
    BY <1>5 DEF BatchOK
  <2>5. ASSUME NEW k \in DOMAIN rows, NEW p \in call[x].batch,
               k.kind = kind, InColony(k, ScopeOf(x, kind).colony),
               o.rv < rows[k].rv, rows[k].rv <= p.rv
        PROVE  \E r \in call[x].batch \ {o} : r.key = k /\ r.rv = rows[k].rv
    <3>1. rows[k].rv \in Nat /\ call[x].cursor \in Int
      BY <1>1 DEF StoreOK, RowTyped, CallOK, PhaseOK
    <3>2. call[x].cursor < rows[k].rv
      BY <1>6, <2>5, <3>1
    <3>3. PICK r \in call[x].batch : r.key = k /\ r.rv = rows[k].rv
      BY <1>5, <2>5, <3>2 DEF BatchOK
    <3>4. r # o
      BY <1>6, <2>5, <3>1, <3>3
    <3> QED
      BY <3>3, <3>4
  <2>6. \A k \in call[x].seen \cup {o.key} : k \in Key /\ k.kind = kind
    BY <1>5, <1>6 DEF BatchOK
  <2> QED
    BY <1>1, <2>1, <2>2, <2>3, <2>4, <2>5, <2>6 DEF BatchOK
<1>14. StreamOK(x)'
  BY <1>11, <1>13 DEF StreamOK
<1> QED
  BY <1>2, <1>3, <1>4, <1>7, <1>8, <1>9, <1>10, <1>12, <1>14 DEF StepOK, Now, CallOK


\* A message of a stream that is not an object, or that its reader takes.
LEMMA StreamStands ==
  ASSUME ApiOK, NEW x \in Callers, CallOK(x), call[x].method = "Watch",
         NEW m, Now(x, call[x].stage, call[x].principal, call[x].mark, call[x].cursor,
                    call[x].batch, call[x].seen, call[x].code, m),
         m = Nil \/ call[x].stage = "streaming", call[x].code # "ok",
         \A kind \in Kinds : For(x, kind, "Watch") => m \in StreamMessage(kind) \cup {Nil},
         ForEvents(x, "Watch") => m \in Event \cup {Nil},
         UNCHANGED storeVars
  PROVE  StepOK(x)
<1>1. StoreOK /\ CallsAre /\ version \in Nat /\ UNCHANGED <<rows, version, log>>
  BY DEF ApiOK, StoreOK, storeVars
<1>2. StoreOK' /\ StoreMoves
  BY <1>1, StoreStill
<1>3. RequestOK(x)'
  BY RequestStands DEF Now
<1>4. PhaseOK(x)'
  BY <1>1 DEF Now, CallOK, PhaseOK
<1>5. /\ call'[x].message = m /\ call'[x].service = call[x].service
      /\ call'[x].method = call[x].method /\ call'[x].batch = call[x].batch
      /\ call'[x].cursor = call[x].cursor /\ call'[x].seen = call[x].seen
      /\ call'[x].request = call[x].request
  BY DEF Now
<1>6. MessageOK(x)'
  BY <1>5 DEF MessageOK, For, ForEvents
<1>7. StreamOK(x)'
  BY <1>1, <1>5 DEF CallOK, StreamOK, BatchOK, For, ForEvents, ScopeOf
<1> QED
  BY <1>2, <1>3, <1>4, <1>6, <1>7 DEF StepOK, Now, CallOK

\* A Watch does, opened, polled or sent from.
LEMMA WatchStep ==
  ASSUME ApiOK, NEW x \in Callers, NEW kind \in Kinds,
         Handles(x, ServiceOf(kind), "Watch"),
         WatchObjects(x, kind, OptionsOf(kind, call[x].request.options))
  PROVE  StepOK(x)
<1>1. /\ CallOK(x) /\ call[x].stage \in {"dispatched", "counted", "streaming"}
      /\ call[x].service = ServiceOf(kind) /\ call[x].method = "Watch"
      /\ Fits(ServiceOf(kind), "Watch", call[x].request, Nil)
  BY HandledRequest
<1>2. call[x].request.since_resource_version \in Int
  BY <1>1, FitsKind
<1>3. CallsAre /\ UNCHANGED storeVars
  BY DEF ApiOK, WatchObjects
<1>4. /\ \A k \in Kinds : \A n : For(x, k, n) => k = kind /\ n = "Watch"
      /\ \A n : ~ForEvents(x, n)
  BY <1>1, OneMethod
<1>5. CASE Open(x, call[x].request.since_resource_version)
  <2>1. call[x].stage = "dispatched"
    BY <1>5 DEF Open
  <2> QED
    BY <1>1, <1>2, <1>3, <1>5, <2>1, OpenStep
<1>6. CASE Poll(x, Newer(x, kind, ScopeOf(x, kind).colony))
  BY <1>1, <1>3, <1>6, PollStep
<1>7. CASE SendEarliest(x)
  <2>1. PICK o \in call[x].batch :
          /\ call[x].message = Nil
          /\ \A p \in call[x].batch : o.rv <= p.rv
          /\ \/ /\ ~Unmarshals(o.row)
                /\ Unreadable(x, o)
             \/ /\ Unmarshals(o.row)
                /\ call' = [call EXCEPT
                     ![x].message = [type |-> Classify(x, o.key), resource_version |-> o.rv,
                                     object |-> FromResource(o.key, o.row)],
                     ![x].batch = @ \ {o}, ![x].cursor = o.rv, ![x].seen = @ \cup {o.key}]
    BY <1>7, Zenon DEF SendEarliest
  <2>2. CASE Unreadable(x, o)
    BY <1>1, <1>3, <2>2, CodesOfErrors, RefuseStep DEF Unreadable, Refuse
  <2> DEFINE m == [type |-> Classify(x, o.key), resource_version |-> o.rv,
                   object |-> FromResource(o.key, o.row)]
  <2>3. CASE /\ Unmarshals(o.row)
             /\ call' = [call EXCEPT ![x].message = m, ![x].batch = @ \ {o},
                                     ![x].cursor = o.rv, ![x].seen = @ \cup {o.key}]
    <3>1. Now(x, call[x].stage, call[x].principal, call[x].mark, o.rv, call[x].batch \ {o},
              call[x].seen \cup {o.key}, call[x].code, m)
      BY <1>3, <2>3, CallsMove
    <3>2. PICK message : message = m
      OBVIOUS
    <3> HIDE DEF m
    <3>3. Now(x, call[x].stage, call[x].principal, call[x].mark, o.rv, call[x].batch \ {o},
              call[x].seen \cup {o.key}, call[x].code, message)
      BY <3>1, <3>2
    <3> QED
      BY <1>1, <1>3, <2>1, <2>3, <3>2, <3>3, SendStep DEF m
  <2> QED
    BY <2>1, <2>2, <2>3
<1>8. CASE SendBookmark(x)
  <2> DEFINE m == [type |-> "BOOKMARK", resource_version |-> call[x].cursor, object |-> Nil]
  <2>1. Drained(x) /\ call' = [call EXCEPT ![x].message = m]
    BY <1>8 DEF SendBookmark
  <2>2. Now(x, call[x].stage, call[x].principal, call[x].mark, call[x].cursor,
            call[x].batch, call[x].seen, call[x].code, m)
    BY <1>3, <2>1, CallsMove
  <2>3. m \in StreamMessage(kind)
    BY <1>1 DEF StreamMessage, CallOK, PhaseOK
  <2>4. call[x].stage = "streaming" /\ call[x].code # "ok"
    <3>1. call[x].stage = "streaming"
      BY <2>1 DEF Drained
    <3>2. call[x].code = Nil
      BY <1>1, <3>1 DEF CallOK, PhaseOK
    <3>3. "ok" \in Codes
      BY DEF Codes
    <3> QED
      BY <3>1, <3>2, <3>3, NilAssumption
  <2> HIDE DEF m
  <2> QED
    BY <1>1, <1>3, <1>4, <2>2, <2>3, <2>4, StreamStands
<1> QED
  BY <1>5, <1>6, <1>7, <1>8, Zenon DEF WatchObjects, ScopeOf


\* A Watch of events does.
LEMMA WatchEventsStep ==
  ASSUME ApiOK, NEW x \in Callers, Handles(x, "EventService", "Watch"), WatchEvents(x)
  PROVE  StepOK(x)
<1> DEFINE q == call[x].request
           S == {[rv |-> e.resource_version, event |-> e] :
                   e \in {e \in LogOf(q.colony, q.run) : e.resource_version > call[x].cursor}}
<1>1. /\ CallOK(x) /\ call[x].stage \in {"dispatched", "counted", "streaming"}
      /\ call[x].service = "EventService" /\ call[x].method = "Watch"
      /\ Fits("EventService", "Watch", call[x].request, Nil)
  BY HandledEvent
<1>2. q.since_resource_version \in Int
  BY <1>1, FitsEvents
<1>3. CallsAre /\ StoreOK /\ UNCHANGED storeVars
  BY DEF ApiOK, WatchEvents
<1>4. /\ \A k \in Kinds : \A n : ~For(x, k, n)
      /\ \A n : ForEvents(x, n) => n = "Watch"
  BY <1>1, OneEventMethod
<1>5. \A o \in call[x].batch : o.event \in Event /\ o.rv \in Int
  BY <1>1 DEF CallOK, StreamOK, ForEvents
<1>6. CASE Open(x, q.since_resource_version)
  <2>1. call[x].stage = "dispatched"
    BY <1>6 DEF Open
  <2> QED
    BY <1>1, <1>2, <1>3, <1>6, <2>1, OpenStep
\* A poll, and an event that is sent: the batch is of events before and after.
<1>7. ASSUME NEW n \in Int, NEW b, NEW m, m \in Event \cup {Nil},
             call[x].stage = "streaming",
             \A o \in b : o.event \in Event /\ o.rv \in Int,
             Now(x, call[x].stage, call[x].principal, call[x].mark, n, b, call[x].seen,
                 call[x].code, m)
      PROVE  StepOK(x)
  <2>1. StoreOK' /\ StoreMoves
    BY <1>3, StoreStill DEF storeVars
  <2>2. RequestOK(x)'
    BY <1>1, <1>7, RequestStands DEF Now
  <2>3. PhaseOK(x)'
    <3>1. version' = version /\ PhaseOK(x)
      BY <1>1, <1>3 DEF CallOK, storeVars
    <3> QED
      BY <1>1, <1>7, <3>1 DEF Now, PhaseOK
  <2>4. /\ call'[x].message = m /\ call'[x].batch = b
        /\ call'[x].service = "EventService" /\ call'[x].method = "Watch"
    BY <1>1, <1>7 DEF Now
  <2>5. /\ \A k \in Kinds : \A i : ~For(x, k, i)'
        /\ \A i : ForEvents(x, i)' => i = "Watch"
    BY <2>4, ServicesDiffer DEF For, ForEvents
  <2>6. MessageOK(x)' /\ StreamOK(x)'
    BY <1>7, <2>4, <2>5 DEF MessageOK, StreamOK
  <2> QED
    BY <1>7, <2>1, <2>2, <2>3, <2>6 DEF StepOK, Now, CallOK
<1>8. CASE Poll(x, S)
  <2>1. Now(x, call[x].stage, call[x].principal, call[x].mark, call[x].cursor, FirstOf(S),
            call[x].seen, call[x].code, call[x].message)
    BY <1>3, <1>8, CallsMove
  <2>2. call[x].stage = "streaming" /\ call[x].message = Nil /\ call[x].cursor \in Int
    BY <1>1, <1>8 DEF Poll, Drained, CallOK, PhaseOK
  <2>3. \A o \in S : o.event \in Event /\ o.rv \in Int
    <3>1. \A e \in LogOf(q.colony, q.run) : e \in Event /\ e.resource_version \in Int
      BY <1>3 DEF StoreOK, LogOK, LogOf, Event
    <3> QED
      BY <3>1
  <2>4. \A o \in FirstOf(S) : o \in S
    BY DEF FirstOf
  <2> HIDE DEF S
  <2> QED
    BY <1>7, <2>1, <2>2, <2>3, <2>4
<1>9. CASE \E o \in call[x].batch :
             /\ call[x].message = Nil
             /\ \A p \in call[x].batch : o.rv <= p.rv
             /\ call' = [call EXCEPT ![x].message = o.event, ![x].batch = @ \ {o},
                                     ![x].cursor = o.rv]
  <2>1. PICK o \in call[x].batch :
          call' = [call EXCEPT ![x].message = o.event, ![x].batch = @ \ {o}, ![x].cursor = o.rv]
    BY <1>9
  <2>2. Now(x, call[x].stage, call[x].principal, call[x].mark, o.rv, call[x].batch \ {o},
            call[x].seen, call[x].code, o.event)
    BY <1>3, <2>1, CallsMove
  <2>3. call[x].stage = "streaming"
    BY <1>1 DEF CallOK, PhaseOK
  <2>4. o.event \in Event /\ o.rv \in Int
    BY <1>5
  <2> QED
    BY <1>5, <1>7, <2>2, <2>3, <2>4
<1> QED
  BY <1>6, <1>8, <1>9, Zenon DEF WatchEvents

\* Every step of a handler leaves its call in order.
LEMMA HandlerOK ==
  ASSUME ApiOK, NEW x \in Callers, NewHandler(x)
  PROVE  StepOK(x)
<1>1. CASE Authenticate(x)
  BY <1>1, AuthenticateStep
<1>2. CASE NotFound(x)
  BY <1>2, CodesOfErrors, RefuseStep DEF NotFound
<1>3. ASSUME NEW kind \in Kinds, KindStep(x, kind) PROVE StepOK(x)
  BY <1>3, ApplyStep, GetStep, ListStep, WatchStep DEF KindStep
<1>4. CASE Handles(x, "RunService", "Logs") /\ Refuse(x, "unimplemented")
  BY <1>4, CodesOfErrors, RefuseStep DEF Handles
<1>5. CASE Handles(x, "EventService", "Append") /\ AppendEvent(x)
  BY <1>5, AppendStep
<1>6. CASE Handles(x, "EventService", "List") /\ ListEvents(x)
  BY <1>6, ListEventsStep
<1>7. CASE Handles(x, "EventService", "Watch") /\ WatchEvents(x)
  BY <1>7, WatchEventsStep
<1> QED
  BY <1>1, <1>2, <1>3, <1>4, <1>5, <1>6, <1>7, HandlerSteps


-----------------------------------------------------------------------------
(* Steps of the clients.                                                   *)

\* A call that has just begun.
CallRecord(phase, service, method, request, bearer) ==
  [stage |-> phase, service |-> service, method |-> method, request |-> request,
   bearer |-> bearer, principal |-> Unset, mark |-> 0, cursor |-> 0, batch |-> {},
   seen |-> {}, code |-> Nil, message |-> Nil]

\* A call as a client makes it.
Arrived(s, m, q, b) ==
  [NoCall EXCEPT !.stage = "arrived", !.service = s, !.method = m, !.request = q,
                 !.bearer = b]

\* They are the same.
LEMMA AskedCall ==
  ASSUME NEW s, NEW m, NEW q, NEW b
  PROVE  Arrived(s, m, q, b) = CallRecord("arrived", s, m, q, b)
<1>1. NoCall = CallRecord("idle", Unset, Unset, Nil, Unset)
  BY Zenon DEF NoCall, CallRecord
<1>2. Arrived(s, m, q, b)
      = [[[[[NoCall EXCEPT !.stage = "arrived"] EXCEPT !.service = s] EXCEPT !.method = m]
           EXCEPT !.request = q] EXCEPT !.bearer = b]
  BY DEF Arrived
<1> DEFINE c1 == [NoCall EXCEPT !.stage = "arrived"]
           c2 == [c1 EXCEPT !.service = s]
           c3 == [c2 EXCEPT !.method = m]
           c4 == [c3 EXCEPT !.request = q]
           c5 == [c4 EXCEPT !.bearer = b]
<1>3. c1 = CallRecord("arrived", Unset, Unset, Nil, Unset)
  BY <1>1 DEF CallRecord
<1> HIDE DEF c1
<1>4. c2 = CallRecord("arrived", s, Unset, Nil, Unset)
  BY <1>3 DEF CallRecord
<1> HIDE DEF c2
<1>5. c3 = CallRecord("arrived", s, m, Nil, Unset)
  BY <1>4 DEF CallRecord
<1> HIDE DEF c3
<1>6. c4 = CallRecord("arrived", s, m, q, Unset)
  BY <1>5 DEF CallRecord
<1> HIDE DEF c4
<1>7. c5 = CallRecord("arrived", s, m, q, b)
  BY <1>6 DEF CallRecord
<1> HIDE DEF c5
<1> QED
  BY <1>2, <1>7 DEF c1, c2, c3, c4, c5

\* A call that has not got to a handler.
LEMMA FreshCall ==
  ASSUME ApiOK, NEW x \in Callers, UNCHANGED storeVars,
         NEW phase \in {"idle", "arrived"}, NEW s, NEW m, NEW q, NEW b,
         Becomes(x, CallRecord(phase, s, m, q, b)),
         phase = "idle" => s = Unset,
         s \in Mounted => /\ Fits(s, m, q, Nil)
                          /\ m = "Apply" /\ q.object # Nil =>
                               /\ Get(q.object.metadata, "colony", Unset) \in Names
                               /\ Get(q.object.metadata, "name", Unset) \in Names
  PROVE  /\ StepOK(x)
         /\ call'[x].stage = phase /\ call'[x].service = s /\ call'[x].method = m
         /\ call'[x].request = q /\ call'[x].bearer = b /\ call'[x].message = Nil
         /\ call'[x].code = Nil
<1>1. StoreOK /\ CallsAre /\ version \in Nat /\ UNCHANGED <<rows, version, log>>
  BY DEF ApiOK, StoreOK, storeVars
<1>2. StoreOK' /\ StoreMoves
  BY <1>1, StoreStill
<1>3. /\ call'[x].stage = phase /\ call'[x].service = s /\ call'[x].method = m
      /\ call'[x].request = q /\ call'[x].bearer = b /\ call'[x].message = Nil
      /\ call'[x].code = Nil /\ call'[x].mark = 0 /\ call'[x].cursor = 0
      /\ call'[x].batch = {} /\ call'[x].seen = {}
  BY DEF Becomes, CallRecord
<1>4. OthersStand(x)
  <2>1. call'[x] = CallRecord(phase, s, m, q, b) /\ call' = [y \in Callers |-> call'[y]]
        /\ \A y \in Callers : y # x => call'[y] = call[y]
    BY DEF Becomes
  <2>2. IsCall(call[x])'
    BY <2>1, <1>3 DEF IsCall, With, CallRecord
  <2>3. \A y \in Callers : IsCall(call[y])'
    <3> SUFFICES ASSUME NEW y \in Callers, y # x PROVE IsCall(call[y])'
      BY <2>2
    <3>1. IsCall(call[y]) /\ call'[y] = call[y]
      BY <1>1, <2>1 DEF CallsAre
    <3> QED
      BY <3>1 DEF IsCall, With
  <2> QED
    BY <2>1, <2>3 DEF OthersStand, CallsAre
<1>5. RequestOK(x)'
  BY <1>3 DEF RequestOK
<1>6. PhaseOK(x)'
  BY <1>1, <1>3 DEF PhaseOK
<1>7. MessageOK(x)' /\ StreamOK(x)'
  BY <1>3 DEF MessageOK, StreamOK, BatchOK
<1> QED
  BY <1>2, <1>3, <1>4, <1>5, <1>6, <1>7 DEF StepOK, CallOK

\* A request that arrives leaves everything in order.
LEMMA AskStep ==
  ASSUME ApiOK, NEW x \in Callers, UNCHANGED storeVars, NEW c, NEW b, Ask(x, c, b),
         c.service \in Mounted =>
           /\ Fits(c.service, c.method, c.request, Nil)
           /\ c.method = "Apply" /\ c.request.object # Nil =>
                /\ Get(c.request.object.metadata, "colony", Unset) \in Names
                /\ Get(c.request.object.metadata, "name", Unset) \in Names
  PROVE  /\ StepOK(x)
         /\ call'[x].stage = "arrived" /\ call'[x].service = c.service
         /\ call'[x].method = c.method /\ call'[x].request = c.request
         /\ call'[x].bearer = b /\ call'[x].message = Nil /\ call'[x].code = Nil
<1> DEFINE s == c.service
           m == c.method
           q == c.request
           d == Arrived(s, m, q, b)
<1>1. call' = [call EXCEPT ![x] = d]
  BY Zenon DEF Ask, Arrived
<1>2. d = CallRecord("arrived", s, m, q, b)
  BY AskedCall
<1> HIDE DEF d
<1>3. Becomes(x, CallRecord("arrived", s, m, q, b))
  BY <1>1, <1>2, CallMoves DEF ApiOK
<1> HIDE DEF s, m, q
<1>4. s \in Mounted => /\ Fits(s, m, q, Nil)
                       /\ m = "Apply" /\ q.object # Nil =>
                            /\ Get(q.object.metadata, "colony", Unset) \in Names
                            /\ Get(q.object.metadata, "name", Unset) \in Names
  BY DEF s, m, q
<1>5. /\ StepOK(x)
      /\ call'[x].stage = "arrived" /\ call'[x].service = s /\ call'[x].method = m
      /\ call'[x].request = q /\ call'[x].bearer = b /\ call'[x].message = Nil
      /\ call'[x].code = Nil
  BY <1>3, <1>4, FreshCall
<1> QED
  BY <1>5 DEF s, m, q

\* So does a call that is given up.
LEMMA ForgetStep ==
  ASSUME ApiOK, NEW x \in Callers, UNCHANGED storeVars, call' = [call EXCEPT ![x] = NoCall]
  PROVE  StepOK(x) /\ call'[x] = NoCall
<1>1. NoCall = CallRecord("idle", Unset, Unset, Nil, Unset)
  BY Zenon DEF NoCall, CallRecord
<1>2. Becomes(x, CallRecord("idle", Unset, Unset, Nil, Unset))
  BY <1>1, CallMoves DEF ApiOK
<1>3. StepOK(x)
  BY <1>2, FreshCall, ServicesDiffer
<1>4. call'[x] = NoCall
  BY <1>1, <1>2 DEF Becomes
<1> QED
  BY <1>3, <1>4


\* A client reads a message of a stream.
LEMMA ReadStep ==
  ASSUME ApiOK, NEW x \in Callers, call[x].message # Nil, call[x].stage # "answered",
         call' = [call EXCEPT ![x].message = Nil], UNCHANGED storeVars
  PROVE  /\ StepOK(x)
         /\ Now(x, call[x].stage, call[x].principal, call[x].mark, call[x].cursor,
                call[x].batch, call[x].seen, call[x].code, Nil)
         /\ call[x].stage = "streaming" /\ call[x].method = "Watch"
<1>1. CallOK(x) /\ CallsAre
  BY DEF ApiOK
<1>2. Now(x, call[x].stage, call[x].principal, call[x].mark, call[x].cursor,
          call[x].batch, call[x].seen, call[x].code, Nil)
  BY <1>1, CallsMove
<1>3. call[x].stage = "streaming" /\ call[x].method = "Watch" /\ call[x].code = Nil
  BY <1>1 DEF CallOK, PhaseOK
<1>4. call[x].code # "ok"
  BY <1>3, NilAssumption DEF Codes
<1> QED
  BY <1>1, <1>2, <1>3, <1>4, StreamStands

\* A step of one caller's.
LEMMA OneStep ==
  ASSUME ApiOK, NEW x \in Callers, StepOK(x)
  PROVE  ApiOK'
<1>1. \A y \in Callers : CallOK(y)'
  <2> SUFFICES ASSUME NEW y \in Callers, y # x PROVE CallOK(y)'
    BY DEF StepOK
  <2>1. StoreOK /\ StoreOK' /\ StoreMoves /\ CallOK(y) /\ call'[y] = call[y]
    BY DEF ApiOK, StepOK, OthersStand
  <2> QED
    BY <2>1, CallStands
<1> QED
  BY <1>1 DEF ApiOK, StepOK, OthersStand

\* A step of nobody's.
LEMMA NoStep ==
  ASSUME ApiOK, StoreOK', StoreMoves, UNCHANGED call
  PROVE  ApiOK'
<1>1. ASSUME NEW y \in Callers PROVE CallOK(y)'
  <2>1. StoreOK /\ CallOK(y) /\ call'[y] = call[y]
    BY DEF ApiOK
  <2> QED
    BY <2>1, CallStands
<1>2. CallsAre'
  BY DEF ApiOK, CallsAre, IsCall, With
<1> QED
  BY <1>1, <1>2 DEF ApiOK

\* So does a step that touches neither the store nor a call.
LEMMA StillOK ==
  ASSUME ApiOK, UNCHANGED apiVars
  PROVE  ApiOK'
<1>1. StoreOK /\ UNCHANGED <<rows, version, log>> /\ UNCHANGED call
  BY DEF ApiOK, apiVars
<1>2. StoreOK' /\ StoreMoves
  BY <1>1, StoreStill
<1> QED
  BY <1>1, <1>2, NoStep

\* So do the rows of a newer Keeper.
LEMMA NewerOK ==
  ASSUME ApiOK, job \in Jobs, NewerKeeperWrites
  PROVE  ApiOK' /\ StoreMoves
<1>1. StoreOK /\ version \in Nat /\ version' = version + 1 /\ UNCHANGED <<log, call>>
  BY DEF ApiOK, StoreOK, NewerKeeperWrites
<1>2. PICK r \in NewerRows(job) :
        /\ r.key \notin DOMAIN rows
        /\ rows' = Inserted(r.key, [spec |-> r.spec, status |-> Nil, labels |-> {},
                                    gen |-> 1, rv |-> version + 1])
  BY DEF NewerKeeperWrites
<1> DEFINE new == [spec |-> r.spec, status |-> Nil, labels |-> {}, gen |-> 1, rv |-> version + 1]
<1>3. r.key \in Key /\ r.spec.rest = "newer"
  BY <1>2, NewerRowsAssumption
<1>4. RowTyped(r.key.kind, new) /\ new.rv = version + 1
  BY <1>1, <1>3 DEF RowTyped, Unmarshals, Optional
<1>5. /\ DOMAIN rows' = DOMAIN rows \cup {r.key} /\ rows'[r.key] = new
      /\ \A j \in DOMAIN rows : j # r.key => rows'[j] = rows[j]
  BY <1>2 DEF Inserted
<1> HIDE DEF new
<1>6. StoreOK' /\ StoreMoves
  <2>1. version < new.rv /\ version' \in Nat /\ new.rv <= version'
    BY <1>1, <1>4
  <2> QED
    BY <1>1, <1>3, <1>4, <1>5, <2>1, RowPut
<1> QED
  BY <1>1, <1>6, NoStep

-----------------------------------------------------------------------------
(* What a command asks.                                                    *)

\* An alias names a kind.
LEMMA KindNamed ==
  ASSUME NEW alias, ResolveKind(alias) # Nil
  PROVE  ResolveKind(alias) \in Kinds
BY DEF ResolveKind, Kinds

\* The options a command line makes are typed.
LEMMA OptionsOfJob ==
  ASSUME job \in Jobs
  PROVE  CommandOptions(job) \in ListOptions /\ CommandOptions(job) # Nil
<1>1. job.colony \in STRING
  BY JobsAssumption, TextsAssumption
<1>2. <<>> \in Token
  BY DEF Token
<1>3. \A a, b, c, d : a \in STRING /\ b \in SUBSET STRING /\ c \in Int /\ d \in Token =>
        [colony |-> a, label_selector |-> b, page_size |-> c, page_token |-> d] \in ListOptions
  BY DEF ListOptions
<1>4. {} \in SUBSET STRING /\ 0 \in Int
  OBVIOUS
<1>5. CommandOptions(job) \in ListOptions
  BY <1>1, <1>2, <1>3, <1>4, Zenon DEF CommandOptions
<1> QED
  BY <1>5, NilAssumption

\* The call a command line makes is one of the generated client's.
LEMMA CallOfFits ==
  ASSUME job \in Jobs, pages.token \in Seq(Nat), job.command \in Asks, Complete(job)
  PROVE  LET c == CallOf(job) IN
         /\ c.service \in Mounted
         /\ Fits(c.service, c.method, c.request, Nil)
         /\ c.method = "Apply" /\ c.request.object # Nil =>
              /\ Get(c.request.object.metadata, "colony", Unset) \in Names
              /\ Get(c.request.object.metadata, "name", Unset) \in Names
<1> DEFINE Good(c) ==
         /\ c.service \in Mounted
         /\ Fits(c.service, c.method, c.request, Nil)
         /\ c.method = "Apply" /\ c.request.object # Nil =>
              /\ Get(c.request.object.metadata, "colony", Unset) \in Names
              /\ Get(c.request.object.metadata, "name", Unset) \in Names
<1>1. /\ job.name \in Names /\ job.colony \in Names
      /\ job.name \in STRING /\ job.colony \in STRING /\ Unset \in STRING
      /\ job.since \in Int /\ job.input \in Rests \cup {"not JSON"} /\ job.agent \in STRING
      /\ job.selector \in SUBSET STRING /\ job.page_size \in Int
      /\ job.command = "page" => ResolveKind(job.alias) # Nil
  BY JobsAssumption, TextsAssumption
<1>2. \A m : Nil \in Optional(m)
  BY DEF Optional
<1> DEFINE kind == ResolveKind(job.alias)
<1>3. ASSUME job.command \in {"get", "list", "watch", "page"}
      PROVE  kind \in Kinds /\ ServiceOf(kind) \in Mounted
  <2>1. kind # Nil
    BY <1>1, <1>3 DEF Complete
  <2> QED
    BY <2>1, KindNamed, ServicesDiffer
<1>4. CommandOptions(job) \in ListOptions
  BY OptionsOfJob
<1>5. CASE job.command = "get"
  <2> DEFINE q == IF kind = "Colony" THEN [name |-> job.name]
                  ELSE [colony |-> job.colony, name |-> job.name]
  <2>1. q \in GetRequestOf(kind)
    BY <1>1 DEF GetRequestOf
  <2>2. CallOf(job) = Asked(ServiceOf(kind), "Get", q)
    BY <1>5 DEF CallOf, GetOne
  <2> HIDE DEF q, kind
  <2>3. Fits(ServiceOf(kind), "Get", q, Nil)
    BY <1>2, <1>3, <1>5, <2>1, FitsKind
  <2>4. Good(Asked(ServiceOf(kind), "Get", q))
    BY <1>3, <1>5, <2>3 DEF Asked
  <2> QED
    BY <2>2, <2>4
<1>6. CASE job.command = "list"
  <2> DEFINE q == [options |-> CommandOptions(job)]
  <2>1. q \in [options: Optional(ListOptions)]
    BY <1>4 DEF Optional
  <2>2. CallOf(job) = Asked(ServiceOf(kind), "List", q)
    BY <1>6 DEF CallOf, ListAll
  <2> HIDE DEF q, kind
  <2>3. Fits(ServiceOf(kind), "List", q, Nil)
    BY <1>2, <1>3, <1>6, <2>1, FitsKind
  <2>4. Good(Asked(ServiceOf(kind), "List", q))
    BY <1>3, <1>6, <2>3 DEF Asked
  <2> QED
    BY <2>2, <2>4
<1>7. CASE job.command = "watch"
  <2> DEFINE q == [options |-> CommandOptions(job), since_resource_version |-> job.since]
  <2>1. q \in [options: Optional(ListOptions), since_resource_version: Int]
    BY <1>1, <1>4 DEF Optional
  <2>2. CallOf(job) = Asked(ServiceOf(kind), "Watch", q)
    BY <1>7 DEF CallOf, WatchKind
  <2> HIDE DEF q, kind
  <2>3. Fits(ServiceOf(kind), "Watch", q, Nil)
    BY <1>2, <1>3, <1>7, <2>1, FitsKind
  <2>4. Good(Asked(ServiceOf(kind), "Watch", q))
    BY <1>3, <1>7, <2>3 DEF Asked
  <2> QED
    BY <2>2, <2>4
<1>8. CASE job.command = "page"
  <2> DEFINE q == [options |-> [colony |-> job.colony, label_selector |-> job.selector,
                                page_size |-> job.page_size, page_token |-> pages.token]]
  <2>1. q \in [options: Optional(ListOptions)]
    BY <1>1 DEF Optional, ListOptions, Token
  <2>2. CallOf(job) = Asked(ServiceOf(kind), "List", q)
    BY <1>8 DEF CallOf, NextPage
  <2> HIDE DEF q, kind
  <2>3. Fits(ServiceOf(kind), "List", q, Nil)
    BY <1>2, <1>3, <1>8, <2>1, FitsKind
  <2>4. Good(Asked(ServiceOf(kind), "List", q))
    BY <1>3, <1>8, <2>3 DEF Asked
  <2> QED
    BY <2>2, <2>4
<1>9. CASE job.command = "events"
  <2> DEFINE q == [colony |-> job.colony, run |-> job.name, since_seq |-> job.since, limit |-> 0]
  <2>1. q \in [colony: STRING, run: STRING, since_seq: Int, limit: Int]
    <3>1. \A a, b \in STRING, c, d \in Int :
            [colony |-> a, run |-> b, since_seq |-> c, limit |-> d]
            \in [colony: STRING, run: STRING, since_seq: Int, limit: Int]
      OBVIOUS
    <3>2. 0 \in Int
      OBVIOUS
    <3> QED
      BY <1>1, <3>1, <3>2, Zenon
  <2>2. CallOf(job) = Asked("EventService", "List", q)
    BY <1>9 DEF CallOf, Events
  <2> HIDE DEF q
  <2>3. Fits("EventService", "List", q, Nil)
    BY <1>2, <2>1, FitsEvents
  <2>4. Good(Asked("EventService", "List", q))
    BY <2>3 DEF Asked, Mounted
  <2> QED
    BY <2>2, <2>4
<1>10. CASE job.command = "run"
  <2> DEFINE meta == [name |-> job.name, colony |-> job.colony, generation |-> 0,
                      resource_version |-> 0, labels |-> {}]
             spec == [agent_ref |-> job.agent, rest |-> job.input]
             o == [metadata |-> meta, spec |-> spec, status |-> Nil]
             q == [object |-> o, if_resource_version |-> Nil]
  <2>1. meta \in ObjectMeta
    BY <1>1 DEF ObjectMeta
  <2>2. spec \in SpecOf("Run")
    <3>1. SpecOf("Run") = RunSpec
      BY DEF SpecOf
    <3>2. job.input \in Rests
      BY <1>1, <1>10 DEF Complete
    <3> QED
      BY <1>1, <3>1, <3>2 DEF RunSpec
  <2>3. meta.colony \in Names /\ meta.name \in Names /\ meta # Nil
    BY <1>1, <2>1, NilAssumption
  <2>4. CallOf(job) = Asked("RunService", "Apply", q)
    BY <1>10 DEF CallOf, CreateRun
  <2> HIDE DEF meta, spec
  <2>5. o \in ObjectOf("Run")
    BY <2>1, <2>2, MessagesOfKind DEF Optional, Kinds
  <2>6. o.metadata = meta
    OBVIOUS
  <2> HIDE DEF o
  <2>7. q \in [object: Optional(ObjectOf("Run")), if_resource_version: Precondition]
    BY <2>5 DEF Optional, Precondition
  <2>8. q.object = o
    OBVIOUS
  <2> HIDE DEF q
  <2>9. "Run" \in Kinds /\ ServiceOf("Run") = "RunService"
    BY DEF ServiceOf, Kinds
  <2>10. Fits("RunService", "Apply", q, Nil)
    BY <1>2, <2>7, <2>9, FitsKind
  <2>11. Good(Asked("RunService", "Apply", q))
    <3>1. Get(meta, "colony", Unset) \in Names /\ Get(meta, "name", Unset) \in Names
      BY <2>3 DEF Get
    <3> QED
      BY <2>6, <2>8, <2>10, <3>1 DEF Asked, Mounted
  <2> QED
    BY <2>4, <2>11
<1> QED
  BY <1>5, <1>6, <1>7, <1>8, <1>9, <1>10 DEF Asks


-----------------------------------------------------------------------------
(* What every step leaves of a call: what was asked.                       *)

\* The call goes on, with what was asked.
Kept(x) ==
  /\ call'[x].stage # "idle"
  /\ call'[x].service = call[x].service /\ call'[x].method = call[x].method
  /\ call'[x].request = call[x].request /\ call'[x].bearer = call[x].bearer

\* A stream sends an object it has read.
SendsObject(x, m, o, n, k) ==
  call' = [call EXCEPT ![x].message = m, ![x].batch = @ \ {o}, ![x].cursor = n,
                       ![x].seen = @ \cup {k}]

\* A stream sends an event it has read.
SendsEvent(x, m, o, n) ==
  call' = [call EXCEPT ![x].message = m, ![x].batch = @ \ {o}, ![x].cursor = n]

\* Each assignment of a handler keeps what was asked.
LEMMA MoveKeeps ==
  ASSUME CallsAre, NEW x \in Callers, call[x].stage # "idle"
  PROVE  /\ \A code, m : Answer(x, code, m) => Kept(x)
         /\ Authenticate(x) => Kept(x)
         /\ \A n : call' = [call EXCEPT ![x].stage = "counted", ![x].mark = n] => Kept(x)
         /\ \A n : Open(x, n) => Kept(x)
         /\ \A S : Poll(x, S) => Kept(x)
         /\ \A m, o, n, k :
              SendsObject(x, m, o, n, k) => Kept(x)
         /\ \A m, o, n :
              SendsEvent(x, m, o, n) =>
              Kept(x)
         /\ \A m : call' = [call EXCEPT ![x].message = m] => Kept(x)
<1>1. \A s, p, m, u, b, k, e, a : s # "idle" /\ Now(x, s, p, m, u, b, k, e, a) => Kept(x)
  BY DEF Now, Kept
<1>2. "answered" # "idle" /\ "dispatched" # "idle" /\ "counted" # "idle" /\ "streaming" # "idle"
  OBVIOUS
<1> DEFINE c == call[x]
<1>3. \A code, m : Answer(x, code, m) => Kept(x)
  <2>1. \A code, m : Answer(x, code, m) =>
          Now(x, "answered", c.principal, c.mark, c.cursor, {}, c.seen, code, m)
    BY CallsMove, Zenon
  <2> QED
    BY <1>1, <1>2, <2>1, Zenon
<1>4. Authenticate(x) => Kept(x)
  <2>1. Authenticate(x) =>
          Now(x, "dispatched", "dev", c.mark, c.cursor, c.batch, c.seen, c.code, c.message)
    BY CallsMove, Zenon
  <2> QED
    BY <1>1, <1>2, <2>1, Zenon
<1>5. \A n : call' = [call EXCEPT ![x].stage = "counted", ![x].mark = n] => Kept(x)
  <2>1. \A n : call' = [call EXCEPT ![x].stage = "counted", ![x].mark = n] =>
          Now(x, "counted", c.principal, n, c.cursor, c.batch, c.seen, c.code, c.message)
    BY CallsMove, Zenon
  <2> QED
    BY <1>1, <1>2, <2>1, Zenon
<1>6. \A n : Open(x, n) => Kept(x)
  <2>1. \A n : Open(x, n) =>
          Now(x, "streaming", c.principal, c.mark, n, c.batch, c.seen, c.code, c.message)
    BY CallsMove, Zenon
  <2> QED
    BY <1>1, <1>2, <2>1, Zenon
<1>7. \A S : Poll(x, S) => Kept(x)
  <2>1. \A S : Poll(x, S) =>
          Now(x, c.stage, c.principal, c.mark, c.cursor, FirstOf(S), c.seen, c.code, c.message)
    BY CallsMove, Zenon
  <2> QED
    BY <1>1, <2>1, Zenon
<1>8. \A m, o, n, k : SendsObject(x, m, o, n, k) => Kept(x)
  <2> SUFFICES ASSUME NEW m, NEW o, NEW n, NEW k, SendsObject(x, m, o, n, k) PROVE Kept(x)
    OBVIOUS
  <2>1. call' = [call EXCEPT ![x].message = m, ![x].batch = @ \ {o}, ![x].cursor = n,
                             ![x].seen = @ \cup {k}]
    BY DEF SendsObject
  <2>2. Now(x, c.stage, c.principal, c.mark, n, c.batch \ {o}, c.seen \cup {k}, c.code, m)
    BY <2>1, CallsMove
  <2> QED
    BY <2>2 DEF Now, Kept
<1>9. \A m, o, n : SendsEvent(x, m, o, n) => Kept(x)
  <2> SUFFICES ASSUME NEW m, NEW o, NEW n, SendsEvent(x, m, o, n) PROVE Kept(x)
    OBVIOUS
  <2>1. call' = [call EXCEPT ![x].message = m, ![x].batch = @ \ {o}, ![x].cursor = n]
    BY DEF SendsEvent
  <2>2. Now(x, c.stage, c.principal, c.mark, n, c.batch \ {o}, c.seen, c.code, m)
    BY <2>1, CallsMove
  <2> QED
    BY <2>2 DEF Now, Kept
<1>10. \A m : call' = [call EXCEPT ![x].message = m] => Kept(x)
  <2>1. \A m : call' = [call EXCEPT ![x].message = m] =>
          Now(x, c.stage, c.principal, c.mark, c.cursor, c.batch, c.seen, c.code, m)
    BY CallsMove, Zenon
  <2> QED
    BY <1>1, <2>1, Zenon
<1> QED
  BY <1>3, <1>4, <1>5, <1>6, <1>7, <1>8, <1>9, <1>10

\* So each step of a handler does.
LEMMA HandlerKeeps ==
  ASSUME ApiOK, NEW x \in Callers, NewHandler(x)
  PROVE  /\ Kept(x) /\ OthersStand(x)
         /\ call[x].stage \in {"arrived", "dispatched", "counted", "streaming"}
<1>1. OthersStand(x)
  BY HandlerOK DEF StepOK
<1>2. call[x].stage \in {"arrived", "dispatched", "counted", "streaming"}
  <2>1. \A s, m : Handles(x, s, m) => call[x].stage \in {"dispatched", "counted", "streaming"}
    BY DEF Handles
  <2> QED
    BY <2>1, HandlerSteps DEF Authenticate, NotFound, KindStep
<1>3. CallsAre /\ call[x].stage # "idle"
  BY <1>2 DEF ApiOK
<1>4. \A code, m : Answer(x, code, m) => Kept(x)
  BY <1>3, MoveKeeps, Zenon
<1>5. \A code : Refuse(x, code) => Kept(x)
  BY <1>4, Zenon DEF Refuse
<1>6. \A k, r : Respond(x, k, r) => Kept(x)
  BY <1>4, Zenon DEF Respond
<1>7. ASSUME NEW kind, ApplyObject(x, kind) PROVE Kept(x)
  <2>1. \A o, p : Save(x, o, p) => Kept(x)
    BY <1>4, <1>6, Zenon DEF Save
  <2> QED
    BY <1>5, <1>7, <2>1, Zenon DEF ApplyObject, StatementFails
<1>8. ASSUME NEW kind, NEW colony, GetObject(x, kind, colony) PROVE Kept(x)
  BY <1>5, <1>6, <1>8, Zenon DEF GetObject, StatementFails
<1>9. ASSUME NEW kind, NEW o, ListObjects(x, kind, o) PROVE Kept(x)
  <2>1. \A n : call' = [call EXCEPT ![x].stage = "counted", ![x].mark = n] => Kept(x)
    BY <1>3, MoveKeeps, Zenon
  <2> QED
    BY <1>4, <1>9, <2>1, Zenon DEF ListObjects
<1>10. ASSUME NEW kind, NEW options, WatchObjects(x, kind, options) PROVE Kept(x)
  <2>1. SendEarliest(x) => Kept(x)
    <3>1. \A m, o, n, k : SendsObject(x, m, o, n, k) => Kept(x)
      BY <1>3, MoveKeeps, Zenon
    <3>2. \A o : Unreadable(x, o) => Kept(x)
      BY <1>4, Zenon DEF Unreadable
    <3> SUFFICES ASSUME SendEarliest(x) PROVE Kept(x)
      OBVIOUS
    <3>3. PICK o \in call[x].batch :
            \/ Unreadable(x, o)
            \/ SendsObject(x, [type |-> Classify(x, o.key), resource_version |-> o.rv,
                               object |-> FromResource(o.key, o.row)], o, o.rv, o.key)
      BY Zenon DEF SendEarliest, SendsObject
    <3> QED
      BY <3>1, <3>2, <3>3, Zenon
  <2>2. SendBookmark(x) => Kept(x)
    <3>1. \A m : call' = [call EXCEPT ![x].message = m] => Kept(x)
      BY <1>3, MoveKeeps, Zenon
    <3> QED
      BY <3>1, Zenon DEF SendBookmark
  <2>3. /\ \A n : Open(x, n) => Kept(x)
        /\ \A S : Poll(x, S) => Kept(x)
    BY <1>3, MoveKeeps, Zenon
  <2> QED
    BY <1>10, <2>1, <2>2, <2>3, Zenon DEF WatchObjects
<1>11. AppendEvent(x) => Kept(x)
  BY <1>4, <1>5, Zenon DEF AppendEvent, StatementFails
<1>12. ListEvents(x) => Kept(x)
  BY <1>4, Zenon DEF ListEvents
<1>13. WatchEvents(x) => Kept(x)
  <2>1. \A m, o, n :
          SendsEvent(x, m, o, n) => Kept(x)
    BY <1>3, MoveKeeps, Zenon
  <2>2. /\ \A n : Open(x, n) => Kept(x)
        /\ \A S : Poll(x, S) => Kept(x)
    BY <1>3, MoveKeeps, Zenon
  <2>3. WatchEvents(x) =>
          \/ \E n : Open(x, n)
          \/ \E S : Poll(x, S)
          \/ \E o \in call[x].batch : SendsEvent(x, o.event, o, o.rv)
    BY Zenon DEF WatchEvents, SendsEvent
  <2> QED
    BY <2>1, <2>2, <2>3, Zenon
<1>14. Authenticate(x) => Kept(x)
  BY <1>3, MoveKeeps, Zenon
<1>15. Kept(x)
  BY <1>5, <1>7, <1>8, <1>9, <1>10, <1>11, <1>12, <1>13, <1>14, HandlerSteps, Zenon
     DEF KindStep, NotFound
<1> QED
  BY <1>1, <1>2, <1>15


-----------------------------------------------------------------------------
(* The user.                                                               *)

\* What the user asks fits the command line.
LEMMA JobAsked ==
  ASSUME UserOK, call[User].stage # "idle"
  PROVE  LET c == call[User] IN
         /\ job.command \in Asks /\ ValidateOutput(job.output) /\ Complete(job)
         /\ job.command \in {"get", "list", "watch", "page"} => JobKind \in Kinds
         /\ job.command = "get" =>
              /\ For(User, JobKind, "Get")
              /\ c.request = IF JobKind = "Colony" THEN [name |-> job.name]
                             ELSE [colony |-> job.colony, name |-> job.name]
         /\ job.command = "list" =>
              For(User, JobKind, "List") /\ c.request = [options |-> CommandOptions(job)]
         /\ job.command = "watch" =>
              /\ For(User, JobKind, "Watch")
              /\ c.request = [options |-> CommandOptions(job), since_resource_version |-> job.since]
         /\ job.command = "page" => For(User, JobKind, "List") /\ c.request = NextPage(job).request
         /\ job.command = "events" => ForEvents(User, "List")
         /\ job.command = "run" => For(User, "Run", "Apply")
<1> DEFINE c == call[User]
<1>1. /\ job.command \in Asks /\ ValidateOutput(job.output) /\ Complete(job)
      /\ c.service = CallOf(job).service /\ c.method = CallOf(job).method
      /\ c.request = CallOf(job).request /\ job \in Jobs
  BY DEF UserOK
<1>2. job.command \in {"get", "list", "watch", "page"} => JobKind \in Kinds
  <2>1. job.command \in {"get", "list", "watch", "page"} => ResolveKind(job.alias) # Nil
    BY <1>1, JobsAssumption DEF Complete
  <2> QED
    BY <2>1, KindNamed DEF JobKind
<1> DEFINE q == IF JobKind = "Colony" THEN [name |-> job.name]
                ELSE [colony |-> job.colony, name |-> job.name]
           w == [options |-> CommandOptions(job), since_resource_version |-> job.since]
<1>3. CASE job.command = "get"
  <2>1. CallOf(job) = Asked(ServiceOf(JobKind), "Get", q)
    BY <1>3 DEF CallOf, GetOne, JobKind
  <2> HIDE DEF q
  <2>2. c.request = q /\ For(User, JobKind, "Get")
    BY <1>1, <2>1 DEF Asked, For
  <2> QED
    BY <1>1, <1>2, <1>3, <2>2 DEF q
<1>4. CASE job.command = "list"
  <2> DEFINE o == [options |-> CommandOptions(job)]
  <2>1. CallOf(job) = Asked(ServiceOf(JobKind), "List", o)
    BY <1>4 DEF CallOf, ListAll, JobKind
  <2> HIDE DEF o
  <2>2. c.request = o /\ For(User, JobKind, "List")
    BY <1>1, <2>1 DEF Asked, For
  <2> QED
    BY <1>1, <1>2, <1>4, <2>2 DEF o
<1>5. CASE job.command = "watch"
  <2>1. CallOf(job) = Asked(ServiceOf(JobKind), "Watch", w)
    BY <1>5 DEF CallOf, WatchKind, JobKind
  <2> HIDE DEF w
  <2>2. c.request = w /\ For(User, JobKind, "Watch")
    BY <1>1, <2>1 DEF Asked, For
  <2> QED
    BY <1>1, <1>2, <1>5, <2>2 DEF w
<1>6. CASE job.command = "page"
  <2>1. CallOf(job) = NextPage(job)
    BY <1>6 DEF CallOf
  <2>2. NextPage(job).service = ServiceOf(JobKind) /\ NextPage(job).method = "List"
    BY DEF NextPage, Asked, JobKind
  <2> QED
    BY <1>1, <1>2, <1>6, <2>1, <2>2 DEF For
<1>7. CASE job.command = "events"
  <2>1. CallOf(job).service = "EventService" /\ CallOf(job).method = "List"
    BY <1>7 DEF CallOf, Events, Asked
  <2> QED
    BY <1>1, <1>7, <2>1 DEF ForEvents
<1>8. CASE job.command = "run"
  <2>1. CallOf(job).service = "RunService" /\ CallOf(job).method = "Apply"
    BY <1>8 DEF CallOf, CreateRun, Asked
  <2>2. ServiceOf("Run") = "RunService"
    BY DEF ServiceOf
  <2> QED
    BY <1>1, <1>8, <2>1, <2>2 DEF For
<1> QED
  BY <1>1, <1>3, <1>4, <1>5, <1>6, <1>7, <1>8 DEF Asks

\* The page of a tour that the user got.
LEMMA PageGot ==
  ASSUME ApiOK, UserOK, User \in Callers, ReceivePage
  PROVE  /\ call[User].message \in ListPage(JobKind) /\ JobKind \in Kinds
         /\ For(User, JobKind, "List") /\ call[User].request = NextPage(job).request
         /\ call[User].message # Nil /\ MessageOK(User)
<1>1. call[User].stage = "answered" /\ call[User].code = "ok" /\ job.command = "page"
  BY DEF ReceivePage, Answered
<1>2. /\ JobKind \in Kinds /\ For(User, JobKind, "List")
      /\ call[User].request = NextPage(job).request
  BY <1>1, JobAsked
<1>3. CallOK(User)
  BY DEF ApiOK
<1>4. call[User].message # Nil
  BY <1>1, <1>3 DEF CallOK, PhaseOK
<1>5. call[User].message \in ListPage(JobKind) /\ MessageOK(User)
  BY <1>2, <1>3, <1>4 DEF CallOK, MessageOK
<1> QED
  BY <1>2, <1>4, <1>5

\* The message of a stream that the user got: it has what a line needs.
LEMMA LineGot ==
  ASSUME ApiOK, UserOK, User \in Callers, call[User].message # Nil, job.command = "watch"
  PROVE  /\ call[User].message \in StreamMessage(JobKind) /\ JobKind \in Kinds
         /\ call[User].stage = "streaming" /\ call[User].method = "Watch"
         /\ Get(call[User].message.object, "metadata", call[User].message) # Nil
<1>1. CallOK(User)
  BY DEF ApiOK
<1>2. call[User].stage # "idle"
  BY <1>1 DEF CallOK, PhaseOK
<1>3. JobKind \in Kinds /\ For(User, JobKind, "Watch")
  BY <1>2, JobAsked
<1>4. call[User].message \in StreamMessage(JobKind)
  BY <1>1, <1>3 DEF CallOK, MessageOK
<1>5. call[User].stage = "streaming" /\ call[User].method = "Watch"
  BY <1>1, <1>3 DEF CallOK, PhaseOK, For
<1>6. PICK m : m = call[User].message
  OBVIOUS
<1>7. CASE m \in [type: {"BOOKMARK"}, resource_version: Int, object: {Nil}]
  <2>1. Get(m.object, "metadata", m) = m
    BY <1>7 DEF Get
  <2> QED
    BY <1>3, <1>4, <1>5, <1>6, <2>1
<1>8. CASE m \in [type: {"ADDED", "MODIFIED"}, resource_version: Int, object: Whole(JobKind)]
  <2>1. m.object \in Whole(JobKind)
    BY <1>8
  <2>2. m.object.metadata \in ObjectMeta
    BY <2>1 DEF Whole
  <2>3. m.object.metadata # Nil
    BY <2>2, NilAssumption
  <2>4. Get(m.object, "metadata", m) # Nil
    <3>1. m.object # Nil
      BY <1>3, <2>1, NilIsNothing, WholeIsObject
    <3> QED
      BY <2>3, <3>1 DEF Get
  <2> QED
    BY <1>3, <1>4, <1>5, <1>6, <2>4
<1> QED
  BY <1>4, <1>6, <1>7, <1>8 DEF StreamMessage


\* The user is one of the callers.
LEMMA UserIsACaller ==
  User \in Callers /\ Other \in Callers /\ User # Other
  /\ \A x \in Callers : x = User \/ x = Other
BY CallersAssumption

\* The invariants hold in the beginning.
LEMMA InitOK ==
  ASSUME Init
  PROVE  ApiOK /\ UserOK
<1>1. job \in Jobs /\ version = Len(Stored(job)) /\ rows = RowsOf(Stored(job)) /\ log = {}
      /\ call = [x \in Callers |-> NoCall]
  BY DEF Init, ApiInit
<1>2. PICK T : T = Stored(job)
  OBVIOUS
<1>3. T \in Seq({T[i] : i \in DOMAIN T})
  BY <1>1, <1>2, StoredAssumption
<1>4. Len(T) \in Nat /\ DOMAIN T = 1 .. Len(T)
  BY <1>3
<1>5. \A i \in DOMAIN T :
        /\ StoreKey(T[i]) \in Key /\ T[i].labels \in SUBSET STRING
        /\ T[i].spec \in SpecOf(T[i].kind) /\ T[i].status \in Optional(StatusOf(T[i].kind))
  BY <1>1, <1>2, StoredAssumption
<1> DEFINE K == {StoreKey(T[i]) : i \in DOMAIN T}
           At(k) == CHOOSE i \in DOMAIN T : StoreKey(T[i]) = k
           R(k) == [spec |-> T[At(k)].spec, status |-> T[At(k)].status,
                    labels |-> T[At(k)].labels, gen |-> 1, rv |-> At(k)]
<1>6. rows = [k \in K |-> R(k)]
  BY <1>1, <1>2 DEF RowsOf
<1>7. \A k \in K : At(k) \in DOMAIN T /\ StoreKey(T[At(k)]) = k
  OBVIOUS
<1>8. IsFiniteSet(K)
  <2>1. IsFiniteSet(DOMAIN T)
    BY <1>4, FS_Interval
  <2> DEFINE f == [i \in DOMAIN T |-> StoreKey(T[i])]
  <2>2. f \in Surjection(DOMAIN T, K)
    BY DEF Surjection
  <2> QED
    BY <2>1, <2>2, FS_Surjection
<1>9. \A k \in K : RowTyped(k.kind, R(k)) /\ R(k).rv = At(k)
  <2> SUFFICES ASSUME NEW k \in K PROVE RowTyped(k.kind, R(k)) /\ R(k).rv = At(k)
    OBVIOUS
  <2>1. PICK i \in DOMAIN T : i = At(k) /\ StoreKey(T[i]) = k
    BY <1>7
  <2>2. T[i].kind = k.kind
    BY <2>1 DEF StoreKey
  <2>3. i \in Nat
    BY <1>4
  <2>4. RowTyped(k.kind, [spec |-> T[i].spec, status |-> T[i].status,
                          labels |-> T[i].labels, gen |-> 1, rv |-> i])
    BY <1>5, <2>2, <2>3 DEF RowTyped
  <2> QED
    BY <2>1, <2>4
<1> HIDE DEF K, R
<1>10. StoreOK
  <2>1. DOMAIN rows = K /\ \A k \in K : rows[k] = R(k)
    BY <1>6
  <2>2. K \subseteq Key
    BY <1>5 DEF K
  <2>3. \A k \in K : At(k) \in 1 .. Len(T)
    BY <1>4, <1>7
  <2>4. \A j, k \in K : At(j) = At(k) => j = k
    BY <1>7
  <2> HIDE DEF At
  <2>5. LogOK
    BY <1>1, FS_EmptySet DEF LogOK
  <2>6. \A k \in K : R(k).rv = At(k) /\ RowTyped(k.kind, R(k))
    BY <1>9
  <2>7. version = Len(T)
    BY <1>1, <1>2
  <2> QED
    BY <1>4, <1>8, <2>1, <2>2, <2>3, <2>4, <2>5, <2>6, <2>7 DEF StoreOK
<1>11. ASSUME NEW x \in Callers PROVE IsCall(call[x]) /\ CallOK(x) /\ call[x] = NoCall
  <2>1. NoCall = CallRecord("idle", Unset, Unset, Nil, Unset)
    BY Zenon DEF NoCall, CallRecord
  <2>2. call[x] = CallRecord("idle", Unset, Unset, Nil, Unset)
    BY <1>1, <2>1
  <2>3. /\ call[x].stage = "idle" /\ call[x].service = Unset /\ call[x].message = Nil
        /\ call[x].code = Nil /\ call[x].mark = 0 /\ call[x].cursor = 0
        /\ call[x].batch = {} /\ call[x].seen = {}
    BY <2>2 DEF CallRecord
  <2>4. RequestOK(x)
    BY <2>3, ServicesDiffer DEF RequestOK
  <2>5. PhaseOK(x)
    BY <1>10, <2>3 DEF PhaseOK, StoreOK
  <2>6. MessageOK(x) /\ StreamOK(x)
    BY <2>3 DEF MessageOK, StreamOK, BatchOK
  <2>7. IsCall(call[x])
    BY <2>2 DEF IsCall, With, CallRecord
  <2> QED
    BY <1>1, <2>4, <2>5, <2>6, <2>7 DEF CallOK
<1>12. ApiOK
  BY <1>1, <1>10, <1>11 DEF ApiOK, CallsAre
<1>13. UserOK
  <2>1. NoCall.stage = "idle"
    BY Zenon DEF NoCall
  <2>2. pages.token = <<>> /\ printed = <<>> /\ exit = Nil /\ cut = FALSE /\ stage = "start"
    BY DEF Init
  <2>3. call[User] = NoCall
    BY <1>11, UserIsACaller
  <2>4. pages.token \in Seq(Nat)
    BY <2>2
  <2>5. call[User].stage = "idle"
    BY <2>1, <2>3
  <2>6. cut = FALSE => cut \in BOOLEAN
    OBVIOUS
  <2>7. stage = "start" => stage # "done" /\ stage # "waiting"
                           /\ stage \in {"start", "waiting", "done"}
    OBVIOUS
  <2> QED
    BY <1>1, <2>2, <2>3, <2>4, <2>5, <2>6, <2>7, Zenon DEF UserOK
<1> QED
  BY <1>12, <1>13


\* A step that asks nothing new of the user's.
LEMMA UserStays ==
  ASSUME UserOK, job' = job, pages'.token \in Seq(Nat),
         call'[User].stage = "idle"
           \/ (call[User].stage # "idle" /\ Kept(User) /\ pages' = pages),
         stage' \in {"start", "waiting", "done"}, cut' \in BOOLEAN,
         stage' = "start" => call'[User] = NoCall,
         stage' = "waiting" => call'[User].stage # "idle",
         stage' # "done" => exit' = Nil /\ cut' = FALSE,
         stage' = "done" /\ cut' = FALSE => call'[User].stage \in {"idle", "answered"},
         stage' # "done" /\ job.command # "watch" => printed' = <<>>
  PROVE  UserOK'
<1>1. job' \in Jobs
  BY DEF UserOK
<1>2. ASSUME call'[User].stage # "idle"
      PROVE  /\ job'.command \in Asks /\ ValidateOutput(job'.output) /\ Complete(job')
             /\ call'[User].service = CallOf(job)'.service
             /\ call'[User].method = CallOf(job)'.method
             /\ call'[User].request = CallOf(job)'.request /\ call'[User].bearer = job'.token
  <2>1. call[User].stage # "idle" /\ Kept(User) /\ pages' = pages
    BY <1>2
  <2>2. CallOf(job)' = CallOf(job)
    BY <2>1 DEF CallOf, NextPage
  <2>3. /\ job.command \in Asks /\ ValidateOutput(job.output) /\ Complete(job)
        /\ call[User].service = CallOf(job).service /\ call[User].method = CallOf(job).method
        /\ call[User].request = CallOf(job).request /\ call[User].bearer = job.token
    BY <2>1, Zenon DEF UserOK
  <2>4. /\ call'[User].service = call[User].service /\ call'[User].method = call[User].method
        /\ call'[User].request = call[User].request /\ call'[User].bearer = call[User].bearer
    BY <2>1 DEF Kept
  <2> QED
    BY <2>2, <2>3, <2>4
<1> QED
  BY <1>1, <1>2, Zenon DEF UserOK

\* No call is idle.
LEMMA NoCallIdle == NoCall.stage = "idle"
BY Zenon DEF NoCall

\* A command line that is refused keeps them.
LEMMA RefuseLineOK ==
  ASSUME ApiOK, UserOK, RefuseLine \/ Version
  PROVE  ApiOK' /\ UserOK'
<1>1. /\ stage = "start" /\ UNCHANGED <<apiVars, job, cut, pages, requests>>
      /\ stage' = "done"
  BY DEF RefuseLine, Version, Exit
<1>2. call[User] = NoCall /\ cut \in BOOLEAN /\ pages.token \in Seq(Nat)
  BY <1>1 DEF UserOK
<1>3. call' = call /\ UNCHANGED apiVars
  BY <1>1 DEF apiVars
<1>4. call'[User].stage = "idle"
  BY <1>2, <1>3, NoCallIdle
<1>5. cut' \in BOOLEAN /\ pages'.token \in Seq(Nat) /\ job' = job
  BY <1>1, <1>2
<1>6. UserOK'
  BY <1>1, <1>4, <1>5, UserStays
<1> QED
  BY <1>3, <1>6, StillOK

\* So does a request that is sent,
LEMMA SendOK ==
  ASSUME ApiOK, UserOK, Send
  PROVE  ApiOK' /\ UserOK' /\ StepOK(User)
         /\ call'[User].stage = "arrived" /\ call'[User].message = Nil /\ call'[User].code = Nil
<1>1. /\ stage = "start" /\ job.command \in Asks /\ ValidateOutput(job.output) /\ Complete(job)
      /\ Ask(User, CallOf(job), job.token) /\ stage' = "waiting"
      /\ UNCHANGED <<storeVars, job, printed, exit, cut, pages, requests>>
  BY DEF Send
<1>2. job \in Jobs /\ pages.token \in Seq(Nat) /\ exit = Nil /\ cut = FALSE /\ cut \in BOOLEAN
      /\ (job.command # "watch" => printed = <<>>)
  BY <1>1, Zenon DEF UserOK
<1>3. PICK c : c = CallOf(job)
  OBVIOUS
<1>4. /\ c.service \in Mounted
      /\ Fits(c.service, c.method, c.request, Nil)
      /\ c.method = "Apply" /\ c.request.object # Nil =>
           /\ Get(c.request.object.metadata, "colony", Unset) \in Names
           /\ Get(c.request.object.metadata, "name", Unset) \in Names
  BY <1>1, <1>2, <1>3, CallOfFits
<1>5. Ask(User, c, job.token) /\ UNCHANGED storeVars
  BY <1>1, <1>3
<1>6. /\ StepOK(User)
      /\ call'[User].stage = "arrived" /\ call'[User].service = c.service
      /\ call'[User].method = c.method /\ call'[User].request = c.request
      /\ call'[User].bearer = job.token /\ call'[User].message = Nil /\ call'[User].code = Nil
  BY <1>4, <1>5, UserIsACaller, AskStep
<1>7. CallOf(job)' = CallOf(job)
  BY <1>1 DEF CallOf, NextPage
<1>8. UserOK'
  <2>1. job' = job /\ printed' = printed /\ exit' = exit /\ cut' = cut /\ pages' = pages
        /\ stage' = "waiting"
    BY <1>1
  <2>2. stage' # "start" /\ stage' # "done" /\ stage' \in {"start", "waiting", "done"}
        /\ call'[User].stage # "idle"
    BY <1>1, <1>6
  <2> QED
    BY <1>1, <1>2, <1>3, <1>6, <1>7, <2>1, <2>2, Zenon DEF UserOK
<1> QED
  BY <1>6, <1>8, OneStep, UserIsACaller

\* an answer that is received,
LEMMA ReceiveOK ==
  ASSUME ApiOK, UserOK, Receive \/ ReceiveError
  PROVE  ApiOK' /\ UserOK'
<1>1. /\ call[User].stage = "answered" /\ UNCHANGED <<apiVars, job, cut, pages>>
      /\ stage' = "done"
  BY DEF Receive, ReceiveError, Answered, ReceiveOne, ReceiveList, ReceiveEvents, Render, Exit
<1>2. cut \in BOOLEAN /\ pages.token \in Seq(Nat)
  BY DEF UserOK
<1>3. call' = call /\ UNCHANGED apiVars
  BY <1>1 DEF apiVars
<1>4. call'[User].stage = "answered" /\ call[User].stage # "idle" /\ Kept(User)
  BY <1>1, <1>3 DEF Kept
<1>5. cut' \in BOOLEAN /\ pages'.token \in Seq(Nat) /\ job' = job /\ pages' = pages
  BY <1>1, <1>2
<1>6. UserOK'
  BY <1>1, <1>4, <1>5, UserStays
<1> QED
  BY <1>3, <1>6, StillOK

\* an interrupt,
LEMMA InterruptOK ==
  ASSUME ApiOK, UserOK, Interrupt
  PROVE  ApiOK' /\ UserOK'
<1>1. stage = "waiting" /\ UNCHANGED <<apiVars, job, pages>> /\ stage' = "done" /\ cut' = TRUE
  BY DEF Interrupt, Exit
<1>2. pages.token \in Seq(Nat) /\ call[User].stage # "idle"
  BY <1>1 DEF UserOK
<1>3. call' = call /\ UNCHANGED apiVars
  BY <1>1 DEF apiVars
<1>4. call'[User].stage # "idle" /\ Kept(User)
  BY <1>2, <1>3 DEF Kept
<1>5. cut' \in BOOLEAN /\ cut' # FALSE /\ pages'.token \in Seq(Nat) /\ job' = job /\ pages' = pages
  BY <1>1, <1>2
<1>6. UserOK'
  BY <1>1, <1>2, <1>4, <1>5, UserStays
<1> QED
  BY <1>3, <1>6, StillOK

\* a message of a stream,
LEMMA ReceiveMessageOK ==
  ASSUME ApiOK, UserOK, ReceiveMessage
  PROVE  /\ ApiOK' /\ UserOK' /\ StepOK(User)
         /\ Now(User, call[User].stage, call[User].principal, call[User].mark,
                call[User].cursor, call[User].batch, call[User].seen, call[User].code, Nil)
         /\ printed' = Append(printed, Line(call[User].message)) /\ UNCHANGED <<stage, exit>>
<1>1. /\ stage = "waiting" /\ job.command = "watch" /\ call[User].message # Nil
      /\ call' = [call EXCEPT ![User].message = Nil]
      /\ UNCHANGED <<storeVars, job, cut, pages>>
  BY DEF ReceiveMessage
<1>2. /\ call[User].stage = "streaming"
      /\ Get(call[User].message.object, "metadata", call[User].message) # Nil
  BY <1>1, UserIsACaller, LineGot
<1>3. printed' = Append(printed, Line(call[User].message)) /\ UNCHANGED <<stage, exit>>
  BY <1>2, Zenon DEF ReceiveMessage
<1>4. /\ StepOK(User)
      /\ Now(User, call[User].stage, call[User].principal, call[User].mark,
             call[User].cursor, call[User].batch, call[User].seen, call[User].code, Nil)
  BY <1>1, <1>2, UserIsACaller, ReadStep
<1>5. Kept(User) /\ call[User].stage # "idle"
  BY <1>2, <1>4 DEF Now, Kept
<1>6. exit = Nil /\ cut = FALSE /\ cut \in BOOLEAN /\ pages.token \in Seq(Nat)
  BY <1>1, Zenon DEF UserOK
<1>7. UserOK'
  <2>1. job' = job /\ pages' = pages /\ cut' = cut /\ stage' = "waiting" /\ exit' = exit
    BY <1>1, <1>3
  <2>2. /\ job' = job /\ pages'.token \in Seq(Nat) /\ cut' \in BOOLEAN /\ cut' = FALSE
        /\ exit' = Nil /\ stage' = "waiting" /\ pages' = pages
    BY <1>6, <2>1, Zenon
  <2>3. call'[User].stage # "idle"
    BY <1>5 DEF Kept
  <2> QED
    BY <1>1, <1>5, <2>2, <2>3, UserStays
<1> QED
  BY <1>3, <1>4, <1>7, OneStep, UserIsACaller

\* a page,
LEMMA ReceivePageOK ==
  ASSUME ApiOK, UserOK, ReceivePage
  PROVE  ApiOK' /\ UserOK' /\ StepOK(User) /\ call'[User] = NoCall
<1>1. /\ stage = "waiting" /\ call[User].stage = "answered" /\ job.command = "page"
      /\ pages'.token = call[User].message.list_meta.next_page_token
      /\ call' = [call EXCEPT ![User] = NoCall]
      /\ UNCHANGED <<storeVars, job, printed, cut>>
  BY DEF ReceivePage, Answered
<1>2. call[User].message \in ListPage(JobKind)
  BY UserIsACaller, PageGot
<1>3. pages'.token \in Seq(Nat)
  BY <1>1, <1>2 DEF ListPage, ListMeta, Token
<1>4. StepOK(User) /\ call'[User] = NoCall
  BY <1>1, ForgetStep, UserIsACaller
<1>5. exit = Nil /\ cut = FALSE /\ cut \in BOOLEAN /\ printed = <<>>
  BY <1>1, Zenon DEF UserOK
<1>6. stage' \in {"start", "done"} /\ (stage' # "done" => exit' = exit)
  BY DEF ReceivePage, Exit
<1>7. UserOK'
  <2>1. call'[User].stage = "idle"
    BY <1>4, NoCallIdle
  <2>2. cut' = cut /\ printed' = printed /\ job' = job
    BY <1>1
  <2>3. /\ stage' \in {"start", "waiting", "done"} /\ stage' # "waiting"
        /\ stage' # "done" => exit' = Nil /\ cut' = FALSE
    BY <1>5, <1>6, <2>2
  <2>4. cut' \in BOOLEAN /\ printed' = <<>>
    BY <1>5, <2>2, Zenon
  <2> QED
    BY <1>3, <1>4, <2>1, <2>2, <2>3, <2>4, UserStays
<1> QED
  BY <1>4, <1>7, OneStep, UserIsACaller


\* The user's part is as it was when neither its call nor its state moves.
LEMMA UserStill ==
  ASSUME UserOK, UNCHANGED userVars,
         \/ call'[User] = call[User]
         \/ /\ call[User].stage \in {"arrived", "dispatched", "counted", "streaming"}
            /\ Kept(User)
  PROVE  UserOK'
<1>1. /\ job' = job /\ stage' = stage /\ printed' = printed /\ exit' = exit /\ cut' = cut
      /\ pages' = pages
  BY DEF userVars
<1>2. CASE call'[User] = call[User]
  <2>1. CallOf(job)' = CallOf(job)
    BY <1>1 DEF CallOf, NextPage
  <2> QED
    BY <1>1, <1>2, <2>1, Zenon DEF UserOK
<1>3. CASE /\ call[User].stage \in {"arrived", "dispatched", "counted", "streaming"}
           /\ Kept(User)
  <2>1. call[User].stage # "idle" /\ call'[User].stage # "idle"
    BY <1>3 DEF Kept
  <2>2. call[User].stage # "answered"
    BY <1>3
  <2>3. stage # "start"
    BY <2>1, NoCallIdle DEF UserOK
  <2>4. stage \in {"start", "waiting", "done"} /\ pages.token \in Seq(Nat)
    BY DEF UserOK
  <2>5. /\ cut \in BOOLEAN /\ (stage = "done" => cut # FALSE)
        /\ stage # "done" => exit = Nil /\ cut = FALSE
        /\ stage # "done" /\ job.command # "watch" => printed = <<>>
    BY <2>1, <2>2, Zenon DEF UserOK
  <2>6. /\ cut' \in BOOLEAN /\ (stage' = "done" => cut' # FALSE)
        /\ stage' # "done" => exit' = Nil /\ cut' = FALSE
        /\ stage' # "done" /\ job.command # "watch" => printed' = <<>>
    BY <1>1, <2>5, Zenon
  <2>7. /\ stage' \in {"start", "waiting", "done"} /\ stage' # "start" /\ pages'.token \in Seq(Nat)
    BY <1>1, <2>3, <2>4
  <2> QED
    BY <1>1, <1>3, <2>1, <2>6, <2>7, UserStays
<1> QED
  BY <1>2, <1>3

\* a step of the API,
LEMMA ApiNextOK ==
  ASSUME ApiOK, UserOK, NEW x \in Callers, NewHandler(x), UNCHANGED userVars
  PROVE  ApiOK' /\ UserOK'
<1>1. StepOK(x)
  BY HandlerOK
<1>2. /\ Kept(x) /\ OthersStand(x)
      /\ call[x].stage \in {"arrived", "dispatched", "counted", "streaming"}
  BY HandlerKeeps
<1>3. CASE x = User
  BY <1>1, <1>2, <1>3, OneStep, UserStill
<1>4. CASE x # User
  <2>1. call'[User] = call[User]
    BY <1>2, <1>4, UserIsACaller DEF OthersStand
  <2> QED
    BY <1>1, <2>1, OneStep, UserStill
<1> QED
  BY <1>3, <1>4

\* a step that leaves the user alone,
LEMMA OtherStepOK ==
  ASSUME ApiOK, UserOK, StepOK(Other), UNCHANGED userVars
  PROVE  ApiOK' /\ UserOK' /\ call'[User] = call[User]
<1>1. call'[User] = call[User]
  BY UserIsACaller DEF StepOK, OthersStand
<1> QED
  BY <1>1, OneStep, UserIsACaller, UserStill

\* a request of the other client,
LEMMA OtherAsksOK ==
  ASSUME ApiOK, UserOK, OtherAsks
  PROVE  StepOK(Other) /\ UNCHANGED userVars
<1>1. PICK c \in Requests(job) : Ask(Other, c, Unset)
  BY DEF OtherAsks
<1>2. job \in Jobs
  BY DEF UserOK
<1>3. c.service \in Mounted =>
        /\ Fits(c.service, c.method, c.request, Nil)
        /\ c.method = "Apply" /\ c.request.object # Nil =>
             /\ Get(c.request.object.metadata, "colony", Unset) \in Names
             /\ Get(c.request.object.metadata, "name", Unset) \in Names
  BY <1>2, RequestsAssumption DEF Fits
<1>4. UNCHANGED storeVars /\ UNCHANGED userVars
  BY DEF OtherAsks
<1> QED
  BY <1>1, <1>3, <1>4, AskStep, UserIsACaller

\* and a message that the other client reads.
LEMMA OtherReadsOK ==
  ASSUME ApiOK, UserOK, OtherReads
  PROVE  StepOK(Other) /\ UNCHANGED userVars
<1>1. UNCHANGED storeVars /\ UNCHANGED userVars
  BY DEF OtherReads
<1>2. CASE call[Other].stage = "answered"
  <2>1. call' = [call EXCEPT ![Other] = NoCall]
    BY <1>2 DEF OtherReads
  <2> QED
    BY <1>1, <2>1, ForgetStep, UserIsACaller
<1>3. CASE call[Other].stage # "answered"
  <2>1. call' = [call EXCEPT ![Other].message = Nil] /\ call[Other].message # Nil
    BY <1>3 DEF OtherReads
  <2> QED
    BY <1>1, <1>3, <2>1, ReadStep, UserIsACaller
<1> QED
  BY <1>2, <1>3

\* The inductive invariant of the API and of what its clients ask.
LEMMA CommandsInduct ==
  ASSUME ApiOK, UserOK, [Next]_vars
  PROVE  ApiOK' /\ UserOK'
<1>1. CASE ApiNext /\ UNCHANGED <<userVars, requests>>
  BY <1>1, ApiNextOK DEF ApiNext
<1>2. CASE UserNext
  BY <1>2, RefuseLineOK, SendOK, ReceiveOK, ReceiveMessageOK, ReceivePageOK, InterruptOK, Zenon
     DEF UserNext
<1>3. CASE OtherAsks
  BY <1>3, OtherAsksOK, OtherStepOK
<1>4. CASE OtherReads
  BY <1>4, OtherReadsOK, OtherStepOK
<1>5. CASE NewerKeeperWrites
  <2>1. job \in Jobs
    BY DEF UserOK
  <2>2. UNCHANGED userVars /\ UNCHANGED call
    BY <1>5 DEF NewerKeeperWrites
  <2> QED
    BY <1>5, <2>1, <2>2, NewerOK, UserStill
<1>6. CASE UNCHANGED vars
  <2>1. UNCHANGED apiVars /\ UNCHANGED userVars
    BY <1>6 DEF vars
  <2>2. UNCHANGED call
    BY <2>1 DEF apiVars
  <2> QED
    BY <2>1, <2>2, StillOK, UserStill
<1> QED
  BY <1>1, <1>2, <1>3, <1>4, <1>5, <1>6 DEF Next

\* The invariants are stronger than the types.
LEMMA ApiOKTypes ==
  ASSUME ApiOK
  PROVE  ApiTypeOK
<1> SUFFICES ASSUME NEW x \in Callers
             PROVE  LET c == call[x] IN
                    /\ c.service \in Mounted =>
                         [service |-> c.service, method |-> c.method, request |-> c.request,
                          message |-> c.message] \in Clients
                    /\ c.code \in Codes \cup {Nil, "unknown", "unimplemented"}
                    /\ c.stage = "answered" => (c.code = "ok" <=> c.message # Nil)
                    /\ c.stage \in {"dispatched", "counted", "streaming"} => c.principal = "dev"
                    /\ c.cursor \in Int /\ c.mark \in Nat
  BY DEF ApiTypeOK
<1> DEFINE c == call[x]
<1>1. CallOK(x)
  BY DEF ApiOK
<1>2. /\ c.code \in Codes \cup {Nil, "unknown", "unimplemented"}
      /\ c.stage = "answered" => (c.code = "ok" <=> c.message # Nil)
      /\ c.stage \in {"dispatched", "counted", "streaming"} => c.principal = "dev"
      /\ c.cursor \in Int /\ c.mark \in Nat
  BY <1>1, CodesOfErrors DEF CallOK, PhaseOK, Failures, Codes
<1>3. ASSUME c.service \in Mounted PROVE Fits(c.service, c.method, c.request, c.message)
  <2>1. Fits(c.service, c.method, c.request, Nil)
    BY <1>1, <1>3 DEF CallOK, RequestOK
  <2>2. CASE c.message = Nil
    BY <2>1, <2>2
  <2>3. ASSUME NEW kind \in Kinds, c.service = ServiceOf(kind), c.message # Nil
        PROVE  Fits(c.service, c.method, c.request, c.message)
    <3>1. c.method \in {"Apply", "Get", "List", "Watch"}
      BY <1>1, <2>1, <2>3, FitsKind DEF CallOK, PhaseOK
    <3>2. Whole(kind) \subseteq ObjectOf(kind)
      BY WholeIsObject
    <3>3. CASE c.method = "Apply" \/ c.method = "Get"
      <4>1. c.message \in Optional(ObjectOf(kind))
        BY <1>1, <2>3, <3>2, <3>3 DEF CallOK, MessageOK, For, Optional
      <4> QED
        BY <2>1, <2>3, <3>3, <4>1, FitsKind
    <3>4. CASE c.method = "List"
      <4>1. c.message \in ListPage(kind)
        BY <1>1, <2>3, <3>4 DEF CallOK, MessageOK, For
      <4>2. c.message \in Optional(ListResponseOf(kind))
        <5>1. PICK m : m = c.message
          OBVIOUS
        <5>2. /\ m.items \in Seq(Whole(kind)) /\ m.list_meta \in ListMeta
              /\ m = [items |-> m.items, list_meta |-> m.list_meta]
          BY <4>1, <5>1 DEF ListPage
        <5>3. m.items \in Seq(ObjectOf(kind))
          BY <3>2, <5>2
        <5>4. ListResponseOf(kind) = [items: Seq(ObjectOf(kind)), list_meta: ListMeta]
          BY MessagesOfKind
        <5> QED
          BY <5>1, <5>2, <5>3, <5>4 DEF Optional
      <4> QED
        BY <2>1, <2>3, <3>4, <4>2, FitsKind
    <3>5. CASE c.method = "Watch"
      <4>1. c.message \in StreamMessage(kind)
        BY <1>1, <2>3, <3>5 DEF CallOK, MessageOK, For
      <4>2. WatchEventOf(kind) = [type: WatchEventType, resource_version: Int,
                                  object: Optional(ObjectOf(kind))]
        BY MessagesOfKind
      <4>3. c.message \in Optional(WatchEventOf(kind))
        BY <3>2, <4>1, <4>2 DEF StreamMessage, WatchEventType, Optional
      <4> QED
        BY <2>1, <2>3, <3>5, <4>3, FitsKind
    <3> QED
      BY <3>1, <3>3, <3>4, <3>5
  <2>4. CASE c.service = "EventService" /\ c.message # Nil
    <3>1. c.method \in {"Append", "List", "Watch"}
      BY <2>1, <2>4, FitsEvents
    <3>2. /\ c.method = "Append" => c.message \in Optional(Event)
          /\ c.method = "List" => c.message \in Optional([items: Seq(Event)])
          /\ c.method = "Watch" => c.message \in Optional(Event)
      BY <1>1, <2>4 DEF CallOK, MessageOK, ForEvents, Optional, ListEventsResponse
    <3>3. CASE c.method = "Append"
      <4>1. /\ Fits("EventService", "Append", c.request, Nil) =>
                  c.request \in [object: Optional(Event)]
            /\ Fits("EventService", "Append", c.request, c.message) <=>
                 c.request \in [object: Optional(Event)] /\ c.message \in Optional(Event)
        BY FitsEvents, Zenon
      <4> QED
        BY <2>1, <2>4, <3>2, <3>3, <4>1, Zenon
    <3>4. CASE c.method = "List"
      <4> DEFINE Q == [colony: STRING, run: STRING, since_seq: Int, limit: Int]
      <4>1. /\ Fits("EventService", "List", c.request, Nil) => c.request \in Q
            /\ Fits("EventService", "List", c.request, c.message) <=>
                 c.request \in Q /\ c.message \in Optional([items: Seq(Event)])
        BY FitsEvents, Zenon
      <4> QED
        BY <2>1, <2>4, <3>2, <3>4, <4>1, Zenon
    <3>5. CASE c.method = "Watch"
      <4> DEFINE Q == [colony: STRING, run: STRING, since_resource_version: Int]
      <4>1. /\ Fits("EventService", "Watch", c.request, Nil) => c.request \in Q
            /\ Fits("EventService", "Watch", c.request, c.message) <=>
                 c.request \in Q /\ c.message \in Optional(Event)
        BY FitsEvents, Zenon
      <4> QED
        BY <2>1, <2>4, <3>2, <3>5, <4>1, Zenon
    <3> QED
      BY <3>1, <3>3, <3>4, <3>5
  <2> QED
    BY <1>3, <2>2, <2>3, <2>4, ServicesDiffer
<1> QED
  BY <1>2, <1>3 DEF Fits

\* Messages have the types their procedures declare, whatever rows there are,
\* whoever else asks, and whatever the store answers (service.connect.go,
\* convert.go, interceptors.go:61,89).
THEOREM MessagesAreTyped == Spec => []ApiTypeOK
<1>1. Init => ApiOK /\ UserOK
  BY InitOK
<1>2. (ApiOK /\ UserOK) /\ [Next]_vars => (ApiOK /\ UserOK)'
  BY CommandsInduct
<1>3. ApiOK /\ UserOK => ApiTypeOK
  BY ApiOKTypes
<1> QED
  BY <1>1, <1>2, <1>3, PTL DEF Spec


-----------------------------------------------------------------------------
(* Reports.                                                                *)

\* A report, and the exit code of a stream that was cut.
ReportOK == ReportsWhatHappened /\ (cut = TRUE => exit = 1)

\* No exit code and no code is Nil.
LEMMA NilIsNoExit == Nil # 0 /\ Nil # 1 /\ Nil # 2 /\ Nil # "ok"
<1>1. 0 \in Int /\ 1 \in Int /\ 2 \in Int
  OBVIOUS
<1>2. "ok" \in Codes
  BY DEF Codes
<1> QED
  BY <1>1, <1>2, NilAssumption

\* Nothing is reported before the command is done.
LEMMA ReportWhileRunning ==
  ASSUME UserOK', stage' # "done"
  PROVE  ReportOK'
<1>1. exit' = Nil /\ cut' = FALSE /\ (call'[User].stage # "idle" => call'[User].bearer = job'.token)
  BY Zenon DEF UserOK
<1>2. exit' # 0 /\ exit' # 1 /\ exit' # 2
  BY <1>1, NilIsNoExit
<1> QED
  BY <1>1, <1>2, Zenon DEF ReportOK, ReportsWhatHappened

\* What a user who is done has is what there was.
LEMMA ReportStands ==
  ASSUME ReportOK, UserOK', UNCHANGED userVars, cut = TRUE \/ call'[User] = call[User]
  PROVE  ReportOK'
<1>1. /\ job' = job /\ printed' = printed /\ exit' = exit /\ cut' = cut
      /\ (call'[User].stage # "idle" => call'[User].bearer = job'.token)
  BY Zenon DEF UserOK, userVars
<1>2. CASE cut = TRUE
  <2>1. exit' = 1 /\ cut' = TRUE
    BY <1>1, <1>2 DEF ReportOK
  <2>2. exit' # 0 /\ exit' # 2
    BY <2>1
  <2>3. job'.command \in {"logs", "approve"} => exit' # 0
    BY <2>2
  <2> QED
    BY <1>1, <2>1, <2>2, <2>3, Zenon DEF ReportOK, ReportsWhatHappened
<1>3. CASE call'[User] = call[User]
  <2>1. \A m : InScope(m)' <=> InScope(m)
    BY <1>1 DEF InScope
  <2> QED
    BY <1>1, <1>3, <2>1 DEF ReportOK, ReportsWhatHappened, InScope
<1> QED
  BY <1>2, <1>3

\* An answer that is printed is all of it, and it is what was asked for.
LEMMA ReportOfAnswer ==
  ASSUME ApiOK, UserOK, UserOK', Receive
  PROVE  ReportOK'
<1> DEFINE c == call[User]
           m == call[User].message
<1>1. /\ stage = "waiting" /\ c.stage = "answered" /\ c.code = "ok"
      /\ ReceiveOne \/ ReceiveList \/ ReceiveEvents
      /\ call' = call /\ job' = job /\ cut' = cut
  BY DEF Receive, Answered, apiVars
<1>2. /\ job.command \in Asks /\ ValidateOutput(job.output) /\ c.bearer = job.token
      /\ cut = FALSE /\ (job.command # "watch" => printed = <<>>)
  BY <1>1, Zenon DEF UserOK
<1>3. job.output \in {"table", "json", "yaml"}
  BY <1>2 DEF ValidateOutput
<1>4. CallOK(User) /\ m # Nil
  <2>1. CallOK(User)
    BY UserIsACaller DEF ApiOK
  <2> QED
    BY <1>1, <2>1 DEF CallOK, PhaseOK
<1>5. \A items : Render(items) => printed' = items /\ exit' = 0
  BY <1>3 DEF Render, Exit
<1>6. ASSUME exit' = 0,
             job.command \in {"list", "events"} => printed' = m.items,
             job.command \in {"get", "run"} => printed' = <<m>>,
             job.command \in {"get", "list"} => \A i \in DOMAIN printed' : InScope(printed'[i])
      PROVE  ReportOK'
  <2>1. exit' # 1 /\ exit' # 2 /\ job.command \notin {"logs", "approve"}
    BY <1>2, <1>6 DEF Asks
  <2>2. \A i : InScope(printed[i])' <=> InScope(printed'[i])
    BY <1>1 DEF InScope
  <2>3. cut' = FALSE /\ call'[User] = c
    BY <1>1, <1>2
  <2>4. job'.command \in {"list", "events"} => printed' = call'[User].message.items
    BY <1>1, <1>6
  <2>5. job'.command \in {"get", "run"} => printed' = <<call'[User].message>>
    BY <1>1, <1>6
  <2>6. job'.command \in {"get", "list"} => \A i \in DOMAIN printed' : InScope(printed[i])'
    BY <1>1, <1>6, <2>2
  <2>7. ReportsWhatHappened'
    BY <1>1, <1>2, <1>3, <2>1, <2>4, <2>5, <2>6 DEF ReportsWhatHappened
  <2> QED
    BY <2>3, <2>7, Zenon DEF ReportOK
<1>7. CASE ReceiveOne
  <2>1. job.command \in {"get", "run"} /\ printed' = <<m>> /\ exit' = 0
    BY <1>5, <1>7 DEF ReceiveOne
  <2>2. ASSUME job.command = "get" PROVE InScope(m)
    <3>1. /\ JobKind \in Kinds /\ For(User, JobKind, "Get")
          /\ c.request = IF JobKind = "Colony" THEN [name |-> job.name]
                         ELSE [colony |-> job.colony, name |-> job.name]
      BY <1>1, <2>2, JobAsked
    <3>2. m.metadata.name = c.request.name /\ m.metadata.colony = ColonyOf(JobKind, c.request)
      BY <1>4, <3>1 DEF CallOK, MessageOK
    <3> QED
      BY <3>1, <3>2 DEF InScope, JobKind, ColonyOf
  <2>3. DOMAIN <<m>> = {1} /\ <<m>>[1] = m
    OBVIOUS
  <2>4. \A i \in DOMAIN <<m>> : i = 1
    BY <2>3
  <2>5. job.command = "get" => \A i \in DOMAIN printed' : InScope(printed'[i])
    BY <2>1, <2>2, <2>3, <2>4
  <2>6. job.command \notin {"list", "events"}
    BY <2>1
  <2> QED
    BY <1>6, <2>1, <2>5, <2>6
<1>8. CASE ReceiveList
  <2>1. job.command = "list"
    BY <1>8 DEF ReceiveList
  <2>2. /\ JobKind \in Kinds /\ For(User, JobKind, "List")
        /\ c.request = [options |-> CommandOptions(job)]
    BY <1>1, <2>1, JobAsked
  <2>3. m \in ListPage(JobKind) /\ PageOK(ScopeOf(User, JobKind), m)
    BY <1>4, <2>2 DEF CallOK, MessageOK
  <2>4. m.items \in Seq(Whole(JobKind))
    BY <2>3 DEF ListPage
  <2>5. \A i \in DOMAIN m.items : m.items[i] \in Whole(JobKind)
    BY <2>4
  <2>6. ~TableCrashes(JobKind, m.items)
    <3>1. \A it \in Whole(JobKind) : it.metadata # Nil /\ it.spec # Nil /\ it.status # Nil
      BY <2>2, NilIsNothing DEF Whole
    <3>2. Reads(JobKind) \subseteq {"metadata", "spec", "status"}
      BY <2>2 DEF Reads, Kinds
    <3> QED
      BY <2>5, <3>1, <3>2 DEF TableCrashes
  <2>7. printed' = m.items /\ exit' = 0
    BY <1>5, <1>8, <2>6 DEF ReceiveList, JobKind
  <2>8. JobKind # "Colony" => ScopeOf(User, JobKind).colony = job.colony
    <3>1. c.request.options = CommandOptions(job) /\ CommandOptions(job).colony = job.colony
      BY <2>2 DEF CommandOptions
    <3>4. ToListOptions(c.request.options).colony = c.request.options.colony
          \/ c.request.options = Nil
      BY DEF ToListOptions
    <3>5. CommandOptions(job) # Nil
      BY OptionsOfJob DEF UserOK
    <3> QED
      BY <3>1, <3>4, <3>5 DEF ScopeOf, OptionsOf
  <2>9. \A i \in DOMAIN m.items : InColony(m.items[i].metadata, ScopeOf(User, JobKind).colony)
    BY <2>3 DEF PageOK
  <2>10. \A i \in DOMAIN m.items : InScope(m.items[i])
    BY <2>1, <2>8, <2>9 DEF InScope, InColony, JobKind
  <2> QED
    BY <1>6, <2>1, <2>7, <2>10
<1>9. CASE ReceiveEvents
  <2>1. job.command = "events"
    BY <1>9 DEF ReceiveEvents
  <2>2. printed' = m.items /\ exit' = 0
    <3>1. printed = <<>>
      BY <1>2, <2>1
    <3>2. CASE m.items = <<>>
      BY <1>9, <3>1, <3>2 DEF ReceiveEvents, Exit
    <3>3. CASE m.items # <<>>
      BY <1>5, <1>9, <3>3 DEF ReceiveEvents
    <3> QED
      BY <3>2, <3>3
  <2> QED
    BY <1>6, <2>1, <2>2
<1> QED
  BY <1>1, <1>7, <1>8, <1>9


\* A failure is reported of what failed.
LEMMA ReportOfFailure ==
  ASSUME UserOK', exit' = 1, cut' = TRUE \/ call'[User].code # "ok"
  PROVE  ReportOK'
<1>1. call'[User].stage # "idle" => call'[User].bearer = job'.token
  BY Zenon DEF UserOK
<1>2. exit' # 0 /\ exit' # 2
  OBVIOUS
<1>3. exit' = 1 /\ cut' # TRUE => call'[User].code # "ok"
  OBVIOUS
<1>4. (~cut)' => cut' # TRUE
  OBVIOUS
<1> QED
  BY <1>1, <1>2, <1>3, <1>4, Zenon DEF ReportOK, ReportsWhatHappened

\* The report stays true.
LEMMA ReportInduct ==
  ASSUME ApiOK, UserOK, ReportOK, [Next]_vars, UserOK'
  PROVE  ReportOK'
<1>1. CASE UNCHANGED userVars
  <2>1. CASE stage' # "done"
    BY <2>1, ReportWhileRunning
  <2>2. CASE stage' = "done" /\ cut = TRUE
    BY <1>1, <2>2, ReportStands
  <2>3. CASE stage' = "done" /\ cut # TRUE
    <3>1. stage = "done" /\ stage' # "start"
      BY <1>1, <2>3 DEF userVars
    <3>2. call[User].stage \in {"idle", "answered"}
      <4>1. cut \in BOOLEAN
        BY Zenon DEF UserOK
      <4>2. cut = FALSE
        BY <2>3, <4>1, Zenon
      <4> QED
        BY <3>1, <4>2, Zenon DEF UserOK
    <3>3. call'[User] = call[User]
      <4>1. ASSUME NEW x \in Callers, NewHandler(x) PROVE call'[User] = call[User]
        <5>1. x # User /\ OthersStand(x)
          BY <3>2, <4>1, HandlerKeeps
        <5> QED
          BY <5>1, UserIsACaller DEF OthersStand
      <4>2. CASE OtherAsks \/ OtherReads
        <5>1. StepOK(Other)
          BY <4>2, OtherAsksOK, OtherReadsOK
        <5> QED
          BY <5>1, UserIsACaller DEF StepOK, OthersStand
      <4>3. CASE NewerKeeperWrites \/ UNCHANGED vars
        BY <4>3 DEF NewerKeeperWrites, vars, apiVars
      <4>4. ~UserNext
        <5>1. stage # "start" /\ stage # "waiting"
          BY <3>1
        <5> QED
          BY <5>1 DEF UserNext, RefuseLine, Version, Send, Receive, ReceiveError,
                      ReceiveMessage, ReceivePage, Interrupt, Answered
      <4> QED
        BY <4>1, <4>2, <4>3, <4>4 DEF Next, ApiNext
    <3> QED
      BY <1>1, <3>3, ReportStands
  <2> QED
    BY <2>1, <2>2, <2>3, Zenon
<1>2. CASE UserNext
  <2>1. CASE RefuseLine
    <3>1. stage = "start" /\ exit' = 1 /\ call' = call
      BY <2>1 DEF RefuseLine, Exit, apiVars
    <3>2. NoCall.code = Nil
      BY Zenon DEF NoCall
    <3>3. call'[User].code = Nil
      BY <3>1, <3>2 DEF UserOK
    <3> QED
      BY <3>1, <3>3, NilIsNoExit, ReportOfFailure
  <2>2. CASE Version
    <3>1. /\ stage = "start" /\ job.command = "version" /\ ValidateOutput(job.output)
          /\ exit' = 0 /\ job' = job /\ cut' = cut
      BY <2>2 DEF Version, Exit
    <3>2. cut = FALSE
      BY <3>1, Zenon DEF UserOK
    <3>3. job.output \in {"table", "json", "yaml"}
      BY <3>1 DEF ValidateOutput
    <3>4. cut' # TRUE /\ exit' # 1 /\ exit' # 2
      <4>1. cut' # TRUE
        BY <3>1, <3>2, Zenon
      <4>2. 0 # 1 /\ 0 # 2
        OBVIOUS
      <4> QED
        BY <3>1, <4>1, <4>2, Zenon
    <3>5. call'[User].stage # "idle" => call'[User].bearer = job'.token
      BY Zenon DEF UserOK
    <3>6. /\ job'.command = "version"
          /\ job'.command \notin {"list", "events"} /\ job'.command \notin {"get", "run"}
          /\ job'.command \notin {"get", "list"} /\ job'.command \notin {"logs", "approve"}
          /\ job'.output \in {"table", "json", "yaml"}
      BY <3>1, <3>3
    <3> QED
      BY <3>4, <3>5, <3>6, Zenon DEF ReportOK, ReportsWhatHappened
  <2>3. CASE Send
    <3>1. stage' # "done"
      BY <2>3 DEF Send
    <3> QED
      BY <3>1, ReportWhileRunning
  <2>4. CASE Receive
    BY <2>4, ReportOfAnswer
  <2>5. CASE ReceiveError
    <3>1. exit' = 1 /\ call' = call /\ call[User].code # "ok"
      BY <2>5 DEF ReceiveError, Exit, Answered, apiVars
    <3> QED
      BY <3>1, ReportOfFailure
  <2>6. CASE ReceiveMessage
    <3>1. stage' = stage /\ stage = "waiting"
      BY <2>6, ReceiveMessageOK DEF ReceiveMessage
    <3> QED
      BY <3>1, ReportWhileRunning
  <2>7. CASE ReceivePage
    <3>1. CASE stage' # "done"
      BY <3>1, ReportWhileRunning
    <3>2. CASE stage' = "done"
      <4>1. stage = "waiting" /\ job.command = "page" /\ exit' = 0 /\ job' = job /\ cut' = cut
        BY <2>7, <3>2 DEF ReceivePage, Exit, Answered
      <4>2. cut = FALSE
        BY <4>1, Zenon DEF UserOK
      <4>3. cut' # TRUE /\ exit' # 1 /\ exit' # 2
        <5>1. cut' # TRUE
          BY <4>1, <4>2, Zenon
        <5>2. 0 # 1 /\ 0 # 2
          OBVIOUS
        <5> QED
          BY <4>1, <5>1, <5>2, Zenon
      <4>4. call'[User].stage # "idle" => call'[User].bearer = job'.token
        BY Zenon DEF UserOK
      <4>5. job'.command = "page" /\ job'.command \notin {"logs", "approve"}
        BY <4>1
      <4> QED
        BY <4>3, <4>4, <4>5, Zenon DEF ReportOK, ReportsWhatHappened
    <3> QED
      BY <3>1, <3>2
  <2>8. CASE Interrupt
    <3>1. exit' = 1 /\ cut' = TRUE
      BY <2>8 DEF Interrupt, Exit
    <3> QED
      BY <3>1, ReportOfFailure
  <2> QED
    BY <1>2, <2>1, <2>2, <2>3, <2>4, <2>5, <2>6, <2>7, <2>8 DEF UserNext
<1> QED
  BY <1>1, <1>2 DEF Next, vars, OtherAsks, OtherReads, NewerKeeperWrites

\* It is true in the beginning.
LEMMA ReportInit ==
  ASSUME Init
  PROVE  ReportOK
<1>1. exit = Nil /\ cut = FALSE
  BY DEF Init
<1>2. UserOK
  BY InitOK
<1>3. call[User].stage # "idle" => call[User].bearer = job.token
  BY <1>2, Zenon DEF UserOK
<1>4. exit # 0 /\ exit # 1 /\ exit # 2
  BY <1>1, NilIsNoExit
<1> QED
  BY <1>1, <1>3, <1>4, Zenon DEF ReportOK, ReportsWhatHappened

\* Whatever the API answers and whenever, a command's output and exit status
\* tell what happened (cmd/hived/cmd: get.go, list, events.go, watch.go, run.go).
THEOREM CommandsReport == Spec => []ReportsWhatHappened
<1>1. Init => ApiOK /\ UserOK /\ ReportOK
  BY InitOK, ReportInit
<1>2. (ApiOK /\ UserOK /\ ReportOK) /\ [Next]_vars => (ApiOK /\ UserOK /\ ReportOK)'
  BY CommandsInduct, ReportInduct
<1>3. ReportOK => ReportsWhatHappened
  BY DEF ReportOK
<1> QED
  BY <1>1, <1>2, <1>3, PTL DEF Spec


-----------------------------------------------------------------------------
(* `hived watch`.                                                          *)

\* What the user lists and watches by is what the command line says.
LEMMA ScopeOfJob ==
  ASSUME ApiOK, UserOK, call[User].stage # "idle", job.command \in {"list", "watch", "page"}
  PROVE  /\ JobKind \in Kinds
         /\ ScopeOf(User, JobKind).colony = JobColony
         /\ job.command = "page" =>
              /\ ScopeOf(User, JobKind).page_token = pages.token
              /\ ScopeOf(User, JobKind).label_selector = job.selector
<1>1. /\ JobKind \in Kinds /\ job \in Jobs
      /\ job.command = "list" => call[User].request = [options |-> CommandOptions(job)]
      /\ job.command = "watch" =>
           call[User].request = [options |-> CommandOptions(job),
                                 since_resource_version |-> job.since]
      /\ job.command = "page" => call[User].request = NextPage(job).request
  BY JobAsked DEF UserOK
<1>2. PICK o : o = call[User].request.options
  OBVIOUS
<1>3. CASE job.command \in {"list", "watch"}
  <2>1. o = CommandOptions(job) /\ o \in ListOptions /\ o # Nil
    BY <1>1, <1>2, <1>3, OptionsOfJob
  <2>2. o.colony = job.colony
    BY <2>1 DEF CommandOptions
  <2>3. OptionsOf(JobKind, o).colony = IF JobKind = "Colony" THEN Unset ELSE o.colony
    BY <2>1, OptionsTyped DEF Optional
  <2> QED
    BY <1>1, <1>2, <1>3, <2>2, <2>3 DEF ScopeOf, JobColony
<1>4. CASE job.command = "page"
  <2>1. o = [colony |-> job.colony, label_selector |-> job.selector,
             page_size |-> job.page_size, page_token |-> pages.token]
    BY <1>1, <1>2, <1>4 DEF NextPage, Asked
  <2>2. o \in ListOptions
    <3>1. /\ job.colony \in STRING /\ job.selector \in SUBSET STRING /\ job.page_size \in Int
          /\ pages.token \in Token
      BY <1>1, JobsAssumption, TextsAssumption DEF UserOK, Token
    <3> QED
      BY <2>1, <3>1 DEF ListOptions
  <2>3. o # Nil
    BY <2>2, NilAssumption
  <2>4. /\ OptionsOf(JobKind, o).colony = IF JobKind = "Colony" THEN Unset ELSE o.colony
        /\ OptionsOf(JobKind, o).page_token = o.page_token
        /\ OptionsOf(JobKind, o).label_selector = o.label_selector
    BY <2>2, <2>3, OptionsTyped DEF Optional
  <2> QED
    BY <1>1, <1>2, <2>1, <2>4 DEF ScopeOf, JobColony
<1> QED
  BY <1>3, <1>4

\* What rows become does not matter to a stream that has not come to it.
LEMMA FollowedStands ==
  ASSUME StoreOK, StoreOK', StoreMoves, job' = job, NEW t, NEW n, NEW s, Followed(t, n, s)
  PROVE  Followed(t, n, s)'
<1>1. version \in Nat /\ version' \in Nat /\ version <= version' /\ n \in Int
  BY DEF StoreOK, StoreMoves, Followed
<1>2. n = job'.since \/ n <= version'
  BY <1>1 DEF Followed
<1>3. JobKind' = JobKind /\ JobColony' = JobColony
  BY DEF JobKind, JobColony
<1>4. ASSUME NEW k \in DOMAIN rows', k.kind = JobKind, InColony(k, JobColony),
             job.since < rows'[k].rv, rows'[k].rv <= n
      PROVE  \E i \in DOMAIN t : Shows(t[i], k) /\ t[i].resource_version = rows'[k].rv
  <2>1. rows'[k].rv \in Nat
    BY DEF StoreOK, RowTyped
  <2>2. n <= version
    BY <1>1, <1>4, <2>1 DEF Followed
  <2>3. k \in DOMAIN rows /\ rows'[k] = rows[k]
    BY <1>1, <1>4, <2>1, <2>2 DEF StoreMoves
  <2> QED
    BY <1>4, <2>3 DEF Followed
<1> QED
  BY <1>1, <1>2, <1>3, <1>4 DEF Followed

\* A bookmark says how far the stream has come.
LEMMA FollowedBookmark ==
  ASSUME NEW t, NEW n, NEW s, Followed(t, n, s), NEW l \in Lines, l.type = "BOOKMARK",
         l.resource_version = n
  PROVE  Followed(Append(t, l), n, s)
<1>1. t \in Seq(Lines) /\ n \in Int
  BY DEF Followed
<1> DEFINE u == Append(t, l)
<1>2. /\ u \in Seq(Lines) /\ Len(t) \in Nat /\ DOMAIN t = 1 .. Len(t)
      /\ DOMAIN u = 1 .. Len(t) + 1
      /\ \A i \in DOMAIN t : u[i] = t[i] /\ i \in DOMAIN u
      /\ u[Len(t) + 1] = l
  BY <1>1
<1> HIDE DEF u
<1>3. \A i \in DOMAIN u : i \in DOMAIN t \/ i = Len(t) + 1
  BY <1>2
<1>4. \A i \in DOMAIN u : u[i].resource_version \in Int
  <2>1. \A i \in DOMAIN u : u[i] \in Lines
    BY <1>2
  <2> QED
    BY <2>1 DEF Lines
<1>5. \A i \in DOMAIN u : u[i].resource_version <= n
  BY <1>1, <1>2, <1>3 DEF Followed
<1>6. \A i, j \in DOMAIN u : i < j =>
        /\ u[i].resource_version <= u[j].resource_version
        /\ u[j].type # "BOOKMARK" => u[i].resource_version < u[j].resource_version
  <2> SUFFICES ASSUME NEW i \in DOMAIN u, NEW j \in DOMAIN u, i < j
               PROVE  /\ u[i].resource_version <= u[j].resource_version
                      /\ u[j].type # "BOOKMARK" => u[i].resource_version < u[j].resource_version
    OBVIOUS
  <2>1. CASE j = Len(t) + 1
    BY <1>2, <1>5, <2>1
  <2>2. CASE j \in DOMAIN t
    <3>1. i \in DOMAIN t
      BY <1>2, <2>2
    <3> QED
      BY <1>2, <2>2, <3>1 DEF Followed
  <2> QED
    BY <1>3, <2>1, <2>2
<1>7. \A i \in DOMAIN t : \A k : Shows(t[i], k) => Shows(u[i], k)
  BY <1>2
<1>8. \A k : ~Shows(l, k)
  BY DEF Shows
<1>9. \A k \in DOMAIN rows :
        /\ k.kind = JobKind /\ InColony(k, JobColony)
        /\ job.since < rows[k].rv /\ rows[k].rv <= n
        => \E i \in DOMAIN u : Shows(u[i], k) /\ u[i].resource_version = rows[k].rv
  BY <1>2 DEF Followed
<1>10. \A k \in s : \E i \in DOMAIN u : Shows(u[i], k)
  BY <1>2 DEF Followed
<1>11. \A i \in DOMAIN u : u[i].type # "BOOKMARK" =>
         /\ [kind |-> JobKind, colony |-> u[i].colony, name |-> u[i].name] \in s
         /\ u[i].type = "ADDED" <=> \A j \in DOMAIN u : Shows(u[j], u[i]) => i <= j
  <2> SUFFICES ASSUME NEW i \in DOMAIN u, u[i].type # "BOOKMARK"
               PROVE  /\ [kind |-> JobKind, colony |-> u[i].colony, name |-> u[i].name] \in s
                      /\ u[i].type = "ADDED" <=>
                           \A j \in DOMAIN u : Shows(u[j], u[i]) => i <= j
    OBVIOUS
  <2>1. i \in DOMAIN t /\ u[i] = t[i]
    BY <1>2, <1>3
  <2>2. (\A j \in DOMAIN u : Shows(u[j], u[i]) => i <= j)
        <=> \A j \in DOMAIN t : Shows(t[j], t[i]) => i <= j
    BY <1>2, <1>3, <1>8, <2>1
  <2> QED
    BY <2>1, <2>2 DEF Followed
<1> QED
  BY <1>2, <1>5, <1>6, <1>9, <1>10, <1>11 DEF Followed, u

\* An object that is sent is the earliest there is behind the cursor.
LEMMA FollowedObject ==
  ASSUME StoreOK, NEW t, NEW n, NEW s, Followed(t, n, s), NEW l \in Lines, NEW k \in Key,
         k.kind = JobKind, l.colony = k.colony, l.name = k.name,
         l.type = IF k \in s THEN "MODIFIED" ELSE "ADDED",
         n < l.resource_version, l.resource_version <= version,
         \A j \in s : j \in Key /\ j.kind = JobKind,
         \A j \in DOMAIN rows :
           /\ j.kind = JobKind /\ InColony(j, JobColony)
           /\ n < rows[j].rv /\ rows[j].rv <= l.resource_version
           => j = k /\ rows[j].rv = l.resource_version
  PROVE  Followed(Append(t, l), l.resource_version, s \cup {k})
<1>1. t \in Seq(Lines) /\ n \in Int /\ version \in Nat
  BY DEF Followed, StoreOK
<1> DEFINE u == Append(t, l)
           v == l.resource_version
<1>2. /\ u \in Seq(Lines) /\ Len(t) \in Nat /\ DOMAIN t = 1 .. Len(t)
      /\ DOMAIN u = 1 .. Len(t) + 1
      /\ \A i \in DOMAIN t : u[i] = t[i] /\ i \in DOMAIN u
      /\ u[Len(t) + 1] = l
  BY <1>1
<1> HIDE DEF u
<1>3. \A i \in DOMAIN u : i \in DOMAIN t \/ i = Len(t) + 1
  BY <1>2
<1>4. v \in Int /\ l.type # "BOOKMARK" /\ \A i \in DOMAIN t : t[i].resource_version \in Int
  <2>1. \A i \in DOMAIN t : t[i] \in Lines
    BY <1>1
  <2> QED
    BY <2>1 DEF Lines
<1>5. \A i \in DOMAIN t : t[i].resource_version <= n
  BY DEF Followed
<1>6. \A i \in DOMAIN u : u[i].resource_version <= v
  <2> SUFFICES ASSUME NEW i \in DOMAIN u PROVE u[i].resource_version <= v
    OBVIOUS
  <2>1. CASE i = Len(t) + 1
    BY <1>2, <1>4, <2>1
  <2>2. CASE i \in DOMAIN t
    BY <1>1, <1>2, <1>4, <1>5, <2>2
  <2> QED
    BY <1>3, <2>1, <2>2
<1>7. \A i, j \in DOMAIN u : i < j =>
        /\ u[i].resource_version <= u[j].resource_version
        /\ u[j].type # "BOOKMARK" => u[i].resource_version < u[j].resource_version
  <2> SUFFICES ASSUME NEW i \in DOMAIN u, NEW j \in DOMAIN u, i < j
               PROVE  /\ u[i].resource_version <= u[j].resource_version
                      /\ u[j].type # "BOOKMARK" => u[i].resource_version < u[j].resource_version
    OBVIOUS
  <2>1. i \in DOMAIN t
    BY <1>2
  <2>2. CASE j = Len(t) + 1
    BY <1>1, <1>2, <1>4, <1>5, <2>1, <2>2
  <2>3. CASE j \in DOMAIN t
    BY <1>2, <2>1, <2>3 DEF Followed
  <2> QED
    BY <1>3, <2>2, <2>3
<1>8. \A j : Shows(l, j) <=> j.colony = k.colony /\ j.name = k.name
  BY <1>4 DEF Shows
<1>9. ASSUME NEW j \in DOMAIN rows, j.kind = JobKind, InColony(j, JobColony),
             job.since < rows[j].rv, rows[j].rv <= v
      PROVE  \E i \in DOMAIN u : Shows(u[i], j) /\ u[i].resource_version = rows[j].rv
  <2>1. rows[j].rv \in Nat
    BY DEF StoreOK, RowTyped
  <2>2. CASE rows[j].rv <= n
    BY <1>2, <1>9, <2>2 DEF Followed
  <2>3. CASE n < rows[j].rv
    <3>1. j = k /\ rows[j].rv = v
      BY <1>9, <2>3
    <3>2. Shows(u[Len(t) + 1], j) /\ u[Len(t) + 1].resource_version = rows[j].rv
      BY <1>2, <1>8, <3>1
    <3> QED
      BY <1>2, <3>2
  <2> QED
    BY <1>1, <2>1, <2>2, <2>3
<1>10. \A j \in s \cup {k} : \E i \in DOMAIN u : Shows(u[i], j)
  <2>1. \A j \in s : \E i \in DOMAIN u : Shows(u[i], j)
    BY <1>2 DEF Followed
  <2>2. Shows(u[Len(t) + 1], k) /\ Len(t) + 1 \in DOMAIN u
    BY <1>2, <1>8
  <2> QED
    BY <2>1, <2>2
<1>11. k = [kind |-> JobKind, colony |-> l.colony, name |-> l.name]
  BY DEF Key
<1>12. ASSUME NEW i \in DOMAIN u, u[i].type # "BOOKMARK"
       PROVE  /\ [kind |-> JobKind, colony |-> u[i].colony, name |-> u[i].name] \in s \cup {k}
              /\ u[i].type = "ADDED" <=> \A j \in DOMAIN u : Shows(u[j], u[i]) => i <= j
  <2>1. CASE i \in DOMAIN t
    <3>1. u[i] = t[i]
      BY <1>2, <2>1
    <3>2. (\A j \in DOMAIN u : Shows(u[j], u[i]) => i <= j)
          <=> \A j \in DOMAIN t : Shows(t[j], t[i]) => i <= j
      BY <1>2, <1>3, <2>1, <3>1
    <3> QED
      BY <1>12, <2>1, <3>1, <3>2 DEF Followed
  <2>2. CASE i = Len(t) + 1
    <3>1. u[i] = l
      BY <1>2, <2>2
    <3>2. (\A j \in DOMAIN u : Shows(u[j], l) => i <= j) <=> ~\E j \in DOMAIN t : Shows(t[j], l)
      BY <1>2, <1>3, <2>2
    <3>3. (\E j \in DOMAIN t : Shows(t[j], l)) <=> k \in s
      <4>1. ASSUME NEW j \in DOMAIN t, Shows(t[j], l) PROVE k \in s
        <5>1. t[j].type # "BOOKMARK" /\ t[j].colony = l.colony /\ t[j].name = l.name
          BY <4>1 DEF Shows
        <5> QED
          BY <1>11, <5>1 DEF Followed
      <4>2. ASSUME k \in s PROVE \E j \in DOMAIN t : Shows(t[j], l)
        <5>1. PICK j \in DOMAIN t : Shows(t[j], k)
          BY <4>2 DEF Followed
        <5> QED
          BY <5>1 DEF Shows
      <4> QED
        BY <4>1, <4>2
    <3> QED
      BY <1>11, <3>1, <3>2, <3>3
  <2> QED
    BY <1>3, <2>1, <2>2
<1> QED
  BY <1>2, <1>4, <1>6, <1>7, <1>9, <1>10, <1>12 DEF Followed, u


\* The line of a message: of a bookmark it names nothing.
LEMMA LineOf ==
  ASSUME NEW kind \in Kinds, NEW m \in StreamMessage(kind),
         m.type # "BOOKMARK" =>
           m.object.metadata.colony \in Names /\ m.object.metadata.name \in Names
  PROVE  /\ Line(m) \in Lines
         /\ Line(m).type = m.type /\ Line(m).resource_version = m.resource_version
         /\ m.type # "BOOKMARK" =>
              /\ Line(m).colony = m.object.metadata.colony
              /\ Line(m).name = m.object.metadata.name
<1>1. Unset \in Names
  BY TextsAssumption
<1>2. Line(m).type = m.type /\ Line(m).resource_version = m.resource_version
  BY DEF Line
<1>3. CASE m \in [type: {"BOOKMARK"}, resource_version: Int, object: {Nil}]
  <2>1. Line(m) = [type |-> m.type, resource_version |-> m.resource_version,
                   colony |-> Unset, name |-> Unset]
    BY <1>3 DEF Line
  <2>2. m.type = "BOOKMARK" /\ m.resource_version \in Int
    BY <1>3
  <2> QED
    BY <1>1, <1>2, <2>1, <2>2 DEF Lines
<1>4. CASE m \in [type: {"ADDED", "MODIFIED"}, resource_version: Int, object: Whole(kind)]
  <2>1. m.object # Nil
    BY <1>4, NilIsNothing, WholeIsObject
  <2>2. Line(m) = [type |-> m.type, resource_version |-> m.resource_version,
                   colony |-> m.object.metadata.colony, name |-> m.object.metadata.name]
    BY <2>1 DEF Line
  <2>3. m.type \in {"ADDED", "MODIFIED"} /\ m.resource_version \in Int /\ m.type # "BOOKMARK"
    BY <1>4
  <2> QED
    BY <1>2, <2>2, <2>3 DEF Lines
<1> QED
  BY <1>3, <1>4 DEF StreamMessage

\* A message of a stream is set.
LEMMA StreamIsSet ==
  ASSUME NEW kind \in Kinds, NEW m \in StreamMessage(kind)
  PROVE  m # Nil
<1>1. m \in WatchEventOf(kind)
  <2>1. WatchEventOf(kind) = [type: WatchEventType, resource_version: Int,
                              object: Optional(ObjectOf(kind))]
    BY MessagesOfKind
  <2>2. \A o \in Whole(kind) : o \in ObjectOf(kind)
    BY WholeIsObject
  <2> QED
    BY <2>1, <2>2 DEF StreamMessage, WatchEventType, Optional
<1> QED
  BY <1>1, NilIsNothing

\* What has been told stays told, whatever becomes of the rows.
LEMMA WatchStands ==
  ASSUME StoreOK, StoreOK', StoreMoves, Following, job' = job,
         call[User].stage \in {"streaming", "answered"},
         call'[User].stage \in {"streaming", "answered"}, Told' = Told,
         call'[User].cursor = call[User].cursor, call'[User].seen = call[User].seen
  PROVE  Following'
<1>1. PICK t : t = Told
  OBVIOUS
<1>2. PICK n : n = call[User].cursor
  OBVIOUS
<1>3. PICK s : s = call[User].seen
  OBVIOUS
<1>4. Followed(t, n, s)
  BY <1>1, <1>2, <1>3 DEF Following
<1>5. Followed(t, n, s)'
  BY <1>4, FollowedStands
<1>6. t' = Told' /\ n' = call'[User].cursor /\ s' = call'[User].seen
  BY <1>1, <1>2, <1>3
<1> QED
  BY <1>5, <1>6 DEF Following

\* The stream is opened: nothing has been told yet.
LEMMA WatchOpens ==
  ASSUME StoreOK', printed' = <<>>, job' = job, job \in Jobs,
         call'[User].stage = "streaming", call'[User].message = Nil,
         call'[User].cursor = job.since, call'[User].seen = {}
  PROVE  Following'
<1>1. Told' = <<>>
  BY DEF Told
<1>2. job.since \in Int
  BY JobsAssumption
<1>3. \A n : n = job.since => Followed(<<>>, n, {})'
  <2> SUFFICES ASSUME NEW n, n = job.since PROVE Followed(<<>>, n, {})'
    OBVIOUS
  <2>1. <<>> \in Seq(Lines)' /\ n \in Int /\ n = job'.since
    BY <1>2
  <2>2. \A k \in DOMAIN rows' : ~(job'.since < rows'[k].rv /\ rows'[k].rv <= n)
    <3>1. \A k \in DOMAIN rows' : rows'[k].rv \in Nat
      BY DEF StoreOK, RowTyped
    <3> QED
      BY <2>1, <3>1
  <2> QED
    BY <2>1, <2>2 DEF Followed
<1> QED
  BY <1>1, <1>3, Zenon DEF Following

\* An object is told of next.
LEMMA WatchTells ==
  ASSUME ApiOK, UserOK, Following, job' = job, printed' = printed, UNCHANGED storeVars,
         For(User, JobKind, "Watch"), JobKind \in Kinds,
         ScopeOf(User, JobKind).colony = JobColony,
         call[User].stage = "streaming",
         NEW o \in call[User].batch, call[User].message = Nil,
         \A p \in call[User].batch : o.rv <= p.rv, Unmarshals(o.row),
         NEW m, m = [type |-> Classify(User, o.key), resource_version |-> o.rv,
                     object |-> FromResource(o.key, o.row)],
         Now(User, call[User].stage, call[User].principal, call[User].mark, o.rv,
             call[User].batch \ {o}, call[User].seen \cup {o.key}, call[User].code, m)
  PROVE  Following'
<1>1. StoreOK /\ CallOK(User) /\ User \in Callers
  BY UserIsACaller DEF ApiOK
<1>2. StoreOK' /\ StoreMoves
  BY <1>1, StoreStill DEF storeVars
<1>3. /\ m \in StreamMessage(JobKind) /\ m.type # "BOOKMARK"
      /\ m.object.metadata.colony = o.key.colony /\ m.object.metadata.name = o.key.name
  BY <1>1, SendStep DEF For
<1>4. BatchOK(User, JobKind)
  BY <1>1 DEF CallOK, StreamOK
<1>5. /\ o.key \in Key /\ o.key.kind = JobKind /\ o.rv \in Nat
      /\ call[User].cursor < o.rv /\ o.rv <= version /\ call[User].cursor \in Int
      /\ \A j \in call[User].seen : j \in Key /\ j.kind = JobKind
  BY <1>1, <1>4 DEF BatchOK, RowTyped, CallOK, PhaseOK
<1>6. o.key.colony \in Names /\ o.key.name \in Names
  BY <1>5 DEF Key
<1>7. m.resource_version = o.rv /\ m.type = Classify(User, o.key) /\ m # Nil
  <2>1. m.resource_version = o.rv /\ m.type = Classify(User, o.key)
    OBVIOUS
  <2>2. m # Nil
    BY <1>3, StreamIsSet
  <2> QED
    BY <2>1, <2>2
<1>8. PICK l : l = Line(m)
  OBVIOUS
<1>9. /\ l \in Lines /\ l.resource_version = o.rv
      /\ l.type = IF o.key \in call[User].seen THEN "MODIFIED" ELSE "ADDED"
      /\ l.colony = o.key.colony /\ l.name = o.key.name
  BY <1>3, <1>6, <1>7, <1>8, LineOf DEF Classify
<1>10. Told = printed
  BY DEF Told
<1>11. Followed(printed, call[User].cursor, call[User].seen)
  BY <1>10 DEF Following
<1>12. ASSUME NEW j \in DOMAIN rows, j.kind = JobKind, InColony(j, JobColony),
              call[User].cursor < rows[j].rv, rows[j].rv <= l.resource_version
       PROVE  j = o.key /\ rows[j].rv = l.resource_version
  <2>1. PICK p \in call[User].batch : p.key = j /\ p.rv = rows[j].rv
    BY <1>4, <1>9, <1>12 DEF BatchOK
  <2>2. o.rv <= p.rv /\ p.rv \in Nat
    BY <1>4 DEF BatchOK, RowTyped
  <2>3. p.rv = o.rv
    BY <1>5, <1>9, <1>12, <2>1, <2>2
  <2>4. p = o
    BY <1>4, <2>3 DEF BatchOK
  <2> QED
    BY <1>9, <2>1, <2>4
<1>13. PICK t : t = printed
  OBVIOUS
<1>14. PICK n : n = call[User].cursor
  OBVIOUS
<1>15. PICK s : s = call[User].seen
  OBVIOUS
<1>16. PICK k : k = o.key
  OBVIOUS
<1>17. Followed(Append(t, l), l.resource_version, s \cup {k})
  BY <1>1, <1>5, <1>9, <1>11, <1>12, <1>13, <1>14, <1>15, <1>16, FollowedObject
<1>18. Followed(Append(t, l), l.resource_version, s \cup {k})'
  BY <1>1, <1>2, <1>17, FollowedStands
<1>19. /\ call'[User].stage = "streaming" /\ call'[User].cursor = o.rv
       /\ call'[User].seen = s \cup {k} /\ call'[User].message = m
  BY <1>15, <1>16 DEF Now
<1>20. Told' = Append(t, l)
  BY <1>7, <1>8, <1>13, <1>19 DEF Told
<1> QED
  BY <1>9, <1>18, <1>19, <1>20 DEF Following

\* Until its stream is open the user has been told nothing.
LEMMA WatchNotOpen ==
  ASSUME printed' = <<>>, call'[User].stage \notin {"streaming", "answered"}
  PROVE  Following'
BY Zenon DEF Following

\* A step of the handler of the user's stream.
LEMMA WatchHandled ==
  ASSUME ApiOK, UserOK, Following, job.command = "watch", NewHandler(User), UNCHANGED userVars
  PROVE  Following'
<1>1. /\ StepOK(User) /\ StoreOK /\ StoreOK' /\ StoreMoves /\ CallsAre /\ CallOK(User)
      /\ User \in Callers
  BY UserIsACaller, HandlerOK DEF ApiOK, StepOK
<1>2. /\ Kept(User) /\ call[User].stage \in {"arrived", "dispatched", "counted", "streaming"}
      /\ call[User].stage # "idle"
  BY <1>1, HandlerKeeps
<1>3. /\ JobKind \in Kinds /\ For(User, JobKind, "Watch") /\ job \in Jobs
      /\ call[User].request = [options |-> CommandOptions(job),
                               since_resource_version |-> job.since]
  BY <1>2, JobAsked DEF UserOK
<1>4. job' = job /\ printed' = printed
  BY DEF userVars
<1>5. ScopeOf(User, JobKind).colony = JobColony
  BY <1>2, ScopeOfJob
<1>6. /\ \A k \in Kinds : \A n : For(User, k, n) => k = JobKind /\ n = "Watch"
      /\ \A n : ~ForEvents(User, n)
      /\ call[User].service \in Mounted
  BY <1>1, <1>3, OneMethod, ServicesDiffer DEF For
<1>7. call[User].stage # "streaming" => printed = <<>>
  BY <1>2, Zenon DEF Following
<1>8. CASE Authenticate(User)
  <2>1. call'[User].stage = "dispatched" /\ call[User].stage = "arrived"
    <3>1. Now(User, "dispatched", "dev", call[User].mark, call[User].cursor, call[User].batch,
              call[User].seen, call[User].code, call[User].message)
      BY <1>1, <1>8, CallsMove
    <3> QED
      BY <1>8, <3>1 DEF Now, Authenticate
  <2> QED
    BY <1>4, <1>7, <2>1, WatchNotOpen
<1>9. ASSUME NEW code, Answer(User, code, Nil), call[User].message = Nil,
             call[User].stage = "streaming"
      PROVE  Following'
  <2>1. Now(User, "answered", call[User].principal, call[User].mark, call[User].cursor, {},
            call[User].seen, code, Nil)
    BY <1>1, <1>9, CallsMove
  <2>2. Told' = Told
    BY <1>4, <1>9, <2>1 DEF Now, Told
  <2> QED
    BY <1>1, <1>4, <1>9, <2>1, <2>2, WatchStands DEF Now
<1>10. CASE Open(User, call[User].request.since_resource_version)
  <2>1. call[User].stage = "dispatched" /\ call[User].request.since_resource_version = job.since
    BY <1>3, <1>10 DEF Open
  <2>2. call[User].message = Nil /\ call[User].seen = {}
    BY <1>1, <2>1 DEF CallOK, PhaseOK
  <2>3. Now(User, "streaming", call[User].principal, call[User].mark, job.since,
            call[User].batch, call[User].seen, call[User].code, call[User].message)
    BY <1>1, <1>10, <2>1, CallsMove
  <2> QED
    BY <1>1, <1>3, <1>4, <1>7, <2>1, <2>2, <2>3, WatchOpens DEF Now
<1>11. ASSUME NEW S, Poll(User, S) PROVE Following'
  <2>1. Now(User, call[User].stage, call[User].principal, call[User].mark, call[User].cursor,
            FirstOf(S), call[User].seen, call[User].code, call[User].message)
    BY <1>1, <1>11, CallsMove
  <2>2. call[User].stage = "streaming" /\ Told' = Told
    BY <1>4, <1>11, <2>1 DEF Poll, Drained, Now, Told
  <2> QED
    BY <1>1, <1>4, <2>1, <2>2, WatchStands DEF Now
<1>12. ASSUME SendEarliest(User), UNCHANGED storeVars PROVE Following'
  <2>1. PICK o \in call[User].batch :
          /\ call[User].message = Nil
          /\ \A p \in call[User].batch : o.rv <= p.rv
          /\ \/ /\ ~Unmarshals(o.row)
                /\ Unreadable(User, o)
             \/ /\ Unmarshals(o.row)
                /\ SendsObject(User, [type |-> Classify(User, o.key), resource_version |-> o.rv,
                                      object |-> FromResource(o.key, o.row)], o, o.rv, o.key)
    BY <1>12, Zenon DEF SendEarliest, SendsObject
  <2>2. call[User].stage = "streaming"
    BY <1>1, <2>1 DEF CallOK, PhaseOK
  <2>3. CASE Unreadable(User, o)
    BY <1>9, <2>1, <2>2, <2>3 DEF Unreadable
  <2> DEFINE m == [type |-> Classify(User, o.key), resource_version |-> o.rv,
                   object |-> FromResource(o.key, o.row)]
  <2>4. CASE Unmarshals(o.row) /\ SendsObject(User, m, o, o.rv, o.key)
    <3>1. PICK message : message = m
      OBVIOUS
    <3> HIDE DEF m
    <3>2. SendsObject(User, message, o, o.rv, o.key)
      BY <2>4, <3>1
    <3>3. call' = [call EXCEPT ![User].message = message, ![User].batch = @ \ {o},
                               ![User].cursor = o.rv, ![User].seen = @ \cup {o.key}]
      BY <3>2 DEF SendsObject
    <3>4. Now(User, call[User].stage, call[User].principal, call[User].mark, o.rv,
              call[User].batch \ {o}, call[User].seen \cup {o.key}, call[User].code, message)
      BY <1>1, <3>3, CallsMove
    <3> QED
      BY <1>3, <1>4, <1>5, <1>12, <2>1, <2>2, <2>4, <3>1, <3>4, WatchTells DEF m
  <2> QED
    BY <2>1, <2>3, <2>4
<1>13. CASE SendBookmark(User)
  <2> DEFINE b == [type |-> "BOOKMARK", resource_version |-> call[User].cursor, object |-> Nil]
  <2>1. Drained(User) /\ call' = [call EXCEPT ![User].message = b]
    BY <1>13 DEF SendBookmark
  <2>2. b \in StreamMessage(JobKind)
    BY <1>1 DEF StreamMessage, CallOK, PhaseOK
  <2>3. b.type = "BOOKMARK" /\ b.resource_version = call[User].cursor
    OBVIOUS
  <2>4. PICK m : m = b
    OBVIOUS
  <2> HIDE DEF b
  <2>5. Now(User, call[User].stage, call[User].principal, call[User].mark, call[User].cursor,
            call[User].batch, call[User].seen, call[User].code, m)
    BY <1>1, <2>1, <2>4, CallsMove
  <2>6. PICK l : l = Line(m)
    OBVIOUS
  <2>7. l \in Lines /\ l.type = "BOOKMARK" /\ l.resource_version = call[User].cursor /\ m # Nil
    BY <1>3, <2>2, <2>3, <2>4, <2>6, LineOf, StreamIsSet
  <2>8. call[User].stage = "streaming" /\ Told = printed
    BY <2>1 DEF Drained, Told
  <2>9. PICK t : t = printed
    OBVIOUS
  <2>10. PICK n : n = call[User].cursor
    OBVIOUS
  <2>11. PICK s : s = call[User].seen
    OBVIOUS
  <2>12. Followed(t, n, s)
    BY <2>8, <2>9, <2>10, <2>11 DEF Following
  <2>13. Followed(Append(t, l), n, s)
    BY <2>7, <2>10, <2>12, FollowedBookmark
  <2>14. Followed(Append(t, l), n, s)'
    BY <1>1, <1>4, <2>13, FollowedStands
  <2>15. /\ call'[User].stage = "streaming" /\ call'[User].cursor = n
         /\ call'[User].seen = s /\ call'[User].message = m
    BY <2>5, <2>8, <2>10, <2>11 DEF Now
  <2>16. Told' = Append(t, l)
    BY <1>4, <2>6, <2>7, <2>9, <2>15 DEF Told
  <2> QED
    BY <2>14, <2>15, <2>16 DEF Following
<1>14. ASSUME NEW kind \in Kinds, KindStep(User, kind) PROVE Following'
  <2>1. /\ Handles(User, ServiceOf(kind), "Watch")
        /\ WatchObjects(User, kind, OptionsOf(kind, call[User].request.options))
    BY <1>6, <1>14 DEF KindStep, Handles, For
  <2> QED
    BY <1>10, <1>11, <1>12, <1>13, <2>1, Zenon DEF WatchObjects
<1>15. ~NotFound(User)
  BY <1>6 DEF NotFound
<1>16. \A n : ~Handles(User, "EventService", n)
  BY <1>6 DEF Handles, ForEvents
<1>17. ~Handles(User, "RunService", "Logs")
  BY <1>3 DEF Handles, For
<1> QED
  BY <1>8, <1>14, <1>15, <1>16, <1>17, HandlerSteps

\* Nothing happens to the user's stream.
LEMMA WatchSame ==
  ASSUME StoreOK, StoreOK', StoreMoves, Following, job' = job, printed' = printed,
         call'[User] = call[User]
  PROVE  Following'
<1>1. CASE call[User].stage \in {"streaming", "answered"}
  <2>1. Told' = Told
    BY DEF Told
  <2> QED
    BY <1>1, <2>1, WatchStands
<1>2. CASE call[User].stage \notin {"streaming", "answered"}
  <2>1. printed = <<>>
    BY <1>2, Zenon DEF Following
  <2> QED
    BY <1>2, <2>1, WatchNotOpen
<1> QED
  BY <1>1, <1>2

\* The lines go on following the stream.
LEMMA FollowingInduct ==
  ASSUME ApiOK, UserOK, ApiOK', job.command = "watch", Following, [Next]_vars
  PROVE  Following'
<1>1. StoreOK /\ StoreOK'
  BY DEF ApiOK
<1>2. ASSUME UNCHANGED <<apiVars, job, printed>> PROVE Following'
  <2>1. UNCHANGED <<rows, version, log>> /\ call' = call /\ job' = job /\ printed' = printed
    BY <1>2 DEF apiVars
  <2> QED
    BY <1>1, <2>1, StoreStill, WatchSame
<1>3. CASE ApiNext /\ UNCHANGED <<userVars, requests>>
  <2>1. PICK x \in Callers : NewHandler(x)
    BY <1>3 DEF ApiNext
  <2>2. CASE x = User
    BY <1>3, <2>1, <2>2, WatchHandled
  <2>3. CASE x # User
    <3>1. StepOK(x)
      BY <2>1, HandlerOK
    <3>2. call'[User] = call[User] /\ StoreMoves
      BY <2>3, <3>1, UserIsACaller DEF StepOK, OthersStand
    <3> QED
      BY <1>1, <1>3, <3>2, WatchSame DEF userVars
  <2> QED
    BY <2>2, <2>3
<1>4. CASE OtherAsks \/ OtherReads
  <2>1. StepOK(Other) /\ UNCHANGED userVars
    BY <1>4, OtherAsksOK, OtherReadsOK
  <2>2. call'[User] = call[User] /\ StoreMoves /\ job' = job /\ printed' = printed
    BY <2>1, UserIsACaller DEF StepOK, OthersStand, userVars
  <2> QED
    BY <1>1, <2>2, WatchSame
<1>5. CASE NewerKeeperWrites
  <2>1. job \in Jobs
    BY DEF UserOK
  <2>2. StoreMoves /\ call' = call /\ job' = job /\ printed' = printed
    BY <1>5, <2>1, NewerOK DEF NewerKeeperWrites, userVars
  <2> QED
    BY <1>1, <2>2, WatchSame
<1>6. CASE UNCHANGED vars
  BY <1>2, <1>6 DEF vars, userVars
<1>7. CASE UserNext
  <2>1. CASE RefuseLine
    BY <1>2, <2>1 DEF RefuseLine
  <2>2. ~Version /\ ~ReceivePage
    BY DEF Version, ReceivePage
  <2>3. CASE Send
    <3>1. stage = "start" /\ printed' = printed
      BY <2>3 DEF Send
    <3>2. call[User].stage = "idle"
      BY <3>1, NoCallIdle, Zenon DEF UserOK
    <3>3. printed = <<>>
      BY <3>2, Zenon DEF Following
    <3>4. call'[User].stage = "arrived"
      BY <2>3, SendOK
    <3> QED
      BY <3>1, <3>3, <3>4, WatchNotOpen
  <2>4. ~Receive
    BY DEF Receive, ReceiveOne, ReceiveList, ReceiveEvents
  <2>5. CASE ReceiveError
    BY <1>2, <2>5 DEF ReceiveError
  <2>6. CASE Interrupt
    BY <1>2, <2>6 DEF Interrupt
  <2>7. CASE ReceiveMessage
    <3>1. /\ StepOK(User)
          /\ Now(User, call[User].stage, call[User].principal, call[User].mark,
                 call[User].cursor, call[User].batch, call[User].seen, call[User].code, Nil)
          /\ printed' = Append(printed, Line(call[User].message))
      BY <2>7, ReceiveMessageOK
    <3>2. call[User].message # Nil /\ job' = job
      BY <2>7 DEF ReceiveMessage
    <3>3. call[User].stage = "streaming"
      BY <3>2, LineGot, UserIsACaller
    <3>4. Told' = Told
      BY <3>1, <3>2 DEF Now, Told
    <3> QED
      BY <1>1, <3>1, <3>2, <3>3, <3>4, WatchStands DEF Now, StepOK
  <2> QED
    BY <1>7, <2>1, <2>2, <2>3, <2>4, <2>5, <2>6, <2>7 DEF UserNext
<1> QED
  BY <1>3, <1>4, <1>5, <1>6, <1>7 DEF Next

\* WatchOK is inductive.
LEMMA WatchInduct ==
  ASSUME ApiOK, UserOK, ApiOK', job.command = "watch", WatchOK, [Next]_vars
  PROVE  WatchOK'
<1>1. Following'
  BY FollowingInduct DEF WatchOK
<1>2. CASE ReceiveMessage
  <2>1. call[User].message # Nil /\ printed' = Append(printed, Line(call[User].message))
    BY <1>2, ReceiveMessageOK DEF ReceiveMessage
  <2>2. call[User].stage = "streaming"
    BY <2>1, LineGot, UserIsACaller
  <2>3. printed' = Told /\ Followed(Told, call[User].cursor, call[User].seen)
    BY <2>1, <2>2 DEF Told, WatchOK, Following
  <2>4. printed' \in Seq(Lines)
    BY <2>3 DEF Followed
  <2> QED
    BY <1>1, <2>4 DEF WatchOK, Lines
<1>3. CASE ~ReceiveMessage
  <2>1. ~Version /\ ~Receive /\ ~ReceivePage
    BY DEF Version, ReceivePage, Receive, ReceiveOne, ReceiveList, ReceiveEvents
  <2>2. printed' = printed
    BY <1>3, <2>1 DEF Next, vars, userVars, UserNext, RefuseLine, Send, ReceiveError, Interrupt,
                      OtherAsks, OtherReads, NewerKeeperWrites
  <2> QED
    BY <1>1, <2>2 DEF WatchOK, Lines
<1> QED
  BY <1>2, <1>3

\* It holds in the beginning.
LEMMA WatchInit ==
  ASSUME Init
  PROVE  WatchOK
<1>1. call[User].stage = "idle" /\ printed = <<>>
  BY NoCallIdle, UserIsACaller DEF Init, ApiInit
<1>2. printed \in Seq(Lines)
  BY <1>1
<1> QED
  BY <1>1, <1>2, Zenon DEF WatchOK, Following

\* What has been told begins with what is printed.
LEMMA ToldBegins ==
  ASSUME WatchOK, printed # <<>>
  PROVE  /\ Len(printed) \in Nat \ {0} /\ DOMAIN printed = 1 .. Len(printed)
         /\ \A i \in DOMAIN printed : i \in DOMAIN Told /\ Told[i] = printed[i]
         /\ \A i \in DOMAIN Told :
              i \in DOMAIN printed \/ (i = Len(printed) + 1 /\ call[User].message # Nil
                                       /\ Told[i] = Line(call[User].message))
<1>1. printed \in Seq(Lines)
  BY DEF WatchOK
<1>2. Len(printed) \in Nat \ {0} /\ DOMAIN printed = 1 .. Len(printed)
  BY <1>1
<1>3. CASE call[User].message = Nil
  BY <1>2, <1>3 DEF Told
<1>4. CASE call[User].message # Nil
  <2>1. PICK l : l = Line(call[User].message)
    OBVIOUS
  <2>2. Told = Append(printed, l)
    BY <1>4, <2>1 DEF Told
  <2>3. /\ DOMAIN Told = 1 .. Len(printed) + 1 /\ Told[Len(printed) + 1] = l
        /\ \A i \in 1 .. Len(printed) : Told[i] = printed[i]
    BY <1>1, <1>2, <2>2
  <2> QED
    BY <1>2, <1>4, <2>1, <2>3
<1> QED
  BY <1>3, <1>4

\* A stream that has been followed this far skipped nothing.
LEMMA LinesSkipNothing ==
  ASSUME ApiOK, UserOK, job.command = "watch", WatchOK
  PROVE  StreamSkipsNothing
<1>1. StoreOK /\ job \in Jobs /\ version \in Nat /\ \A k \in DOMAIN rows : rows[k].rv \in Nat
  BY DEF ApiOK, UserOK, StoreOK, RowTyped
<1>2. CASE printed = <<>>
  <2>1. DOMAIN printed = {} /\ LastPrinted = job.since
    BY <1>2 DEF LastPrinted
  <2>2. \A k \in DOMAIN rows : ~(job.since < rows[k].rv /\ rows[k].rv <= job.since)
    <3>1. job.since \in Int
      BY <1>1, JobsAssumption
    <3> QED
      BY <1>1, <3>1
  <2> QED
    BY <2>1, <2>2 DEF StreamSkipsNothing
<1>3. CASE printed # <<>>
  <2>1. Followed(Told, call[User].cursor, call[User].seen)
    BY <1>3, Zenon DEF WatchOK, Following
  <2>2. PICK t : t = Told
    OBVIOUS
  <2>3. PICK n : n = call[User].cursor
    OBVIOUS
  <2>4. Followed(t, n, call[User].seen) /\ t \in Seq(Lines) /\ n \in Int
    BY <2>1, <2>2, <2>3 DEF Followed
  <2>5. PICK last : last = Len(printed)
    OBVIOUS
  <2>6. /\ last \in Nat \ {0} /\ DOMAIN printed = 1 .. last
        /\ \A i \in DOMAIN printed : i \in DOMAIN t /\ t[i] = printed[i]
        /\ \A i \in DOMAIN t : i \in DOMAIN printed \/ i = last + 1
    BY <1>3, <2>2, <2>5, ToldBegins
  <2>7. LastPrinted = t[last].resource_version /\ last \in DOMAIN t
    BY <1>3, <2>5, <2>6 DEF LastPrinted
  <2>8. \A i \in DOMAIN t : t[i].resource_version \in Int
    <3>1. \A i \in DOMAIN t : t[i] \in Lines
      BY <2>4
    <3> QED
      BY <3>1 DEF Lines
  <2>9. \A i, j \in DOMAIN printed : i < j =>
          printed[i].resource_version <= printed[j].resource_version
    BY <2>4, <2>6 DEF Followed
  <2>10. ASSUME NEW k \in DOMAIN rows, k.kind = JobKind, InColony(k, JobColony)
         PROVE  LET lines == {i \in DOMAIN printed : Shows(printed[i], k)} IN
                /\ job.since < rows[k].rv /\ rows[k].rv <= LastPrinted =>
                     \E i \in lines : printed[i].resource_version = rows[k].rv
                /\ \A i \in lines :
                     printed[i].type = "ADDED" <=> \A j \in lines : i <= j
    <3>1. ASSUME job.since < rows[k].rv, rows[k].rv <= LastPrinted
          PROVE  \E i \in DOMAIN printed :
                   Shows(printed[i], k) /\ printed[i].resource_version = rows[k].rv
      <4>1. t[last].resource_version <= n
        BY <2>4, <2>7 DEF Followed
      <4>2. rows[k].rv <= n
        BY <1>1, <2>4, <2>7, <2>8, <3>1, <4>1
      <4>3. PICK i \in DOMAIN t : Shows(t[i], k) /\ t[i].resource_version = rows[k].rv
        BY <2>4, <2>10, <3>1, <4>2 DEF Followed
      <4>4. i # last + 1
        <5> SUFFICES ASSUME i = last + 1 PROVE FALSE
          OBVIOUS
        <5>1. last < i /\ t[i].type # "BOOKMARK"
          BY <2>6, <4>3 DEF Shows
        <5>2. t[last].resource_version < t[i].resource_version
          BY <2>4, <2>7, <5>1 DEF Followed
        <5> QED
          BY <1>1, <2>7, <2>8, <3>1, <4>3, <5>2
      <4> QED
        BY <2>6, <4>3, <4>4
    <3>2. ASSUME NEW i \in DOMAIN printed, Shows(printed[i], k)
          PROVE  printed[i].type = "ADDED" <=>
                   \A j \in {j \in DOMAIN printed : Shows(printed[j], k)} : i <= j
      <4>1. /\ i \in DOMAIN t /\ t[i] = printed[i] /\ t[i].type # "BOOKMARK"
            /\ t[i].colony = k.colony /\ t[i].name = k.name
        BY <2>6, <3>2 DEF Shows
      <4>2. \A l : Shows(l, t[i]) <=> Shows(l, k)
        BY <4>1 DEF Shows
      <4>3. t[i].type = "ADDED" <=> \A j \in DOMAIN t : Shows(t[j], t[i]) => i <= j
        BY <2>4, <4>1 DEF Followed
      <4>4. (\A j \in DOMAIN t : Shows(t[j], k) => i <= j)
            <=> \A j \in DOMAIN printed : Shows(printed[j], k) => i <= j
        BY <2>6
      <4> QED
        BY <4>1, <4>2, <4>3, <4>4
    <3> QED
      BY <3>1, <3>2
  <2> QED
    BY <2>9, <2>10 DEF StreamSkipsNothing, JobKind, JobColony
<1> QED
  BY <1>2, <1>3

\* A job stays what it was.
LEMMA JobStays == [Next]_vars => job' = job
BY DEF Next, vars, userVars, UserNext, RefuseLine, Version, Send, Receive, ReceiveError,
       ReceiveMessage, ReceivePage, Interrupt, OtherAsks, OtherReads, NewerKeeperWrites

\* Whatever is written, polled and interrupted in between, a line of `hived watch`
\* never stands for less than all there is up to its version (watch.go,
\* convert.go:146-169).
THEOREM WatchSkipsNothing == Spec => []StreamSkipsNothing
<1> DEFINE Inv == ApiOK /\ UserOK /\ (job.command = "watch" => WatchOK)
<1>1. Init => Inv
  BY InitOK, WatchInit
<1>2. Inv /\ [Next]_vars => Inv'
  BY CommandsInduct, WatchInduct, JobStays
<1>3. Inv => StreamSkipsNothing
  <2>1. job.command # "watch" => StreamSkipsNothing
    BY DEF StreamSkipsNothing
  <2> QED
    BY <2>1, LinesSkipNothing
<1> QED
  BY <1>1, <1>2, <1>3, PTL DEF Spec

-----------------------------------------------------------------------------
(* A tour of the pages.                                                    *)

\* What rows become does not matter to pages that were read before.
LEMMA TouredStands ==
  ASSUME StoreOK, StoreOK', StoreMoves, job' = job, NEW t, NEW n, NEW mark, Toured(t, n, mark)
  PROVE  Toured(t, n, mark)'
<1>1. version \in Nat /\ version' \in Nat /\ version <= version' /\ mark \in Nat
      /\ mark <= version
  BY DEF StoreOK, StoreMoves, Toured
<1>2. JobKind' = JobKind /\ TourScope' = TourScope
  BY DEF JobKind, JobColony, TourScope
<1>3. PICK o : o = TourScope
  OBVIOUS
<1>4. PICK kind : kind = JobKind
  OBVIOUS
<1>5. ASSUME NEW p \in Matching(kind, o)', rows'[p.key].rv <= mark, n # <<>> => ~After(n, p)
      PROVE  \E i \in DOMAIN t : ItemPlace(t[i]) = PlaceOf(p)
  <2>1. rows'[p.key].rv \in Nat
    <3>1. p.key \in DOMAIN rows'
      BY DEF Matching
    <3> QED
      BY <3>1 DEF StoreOK, RowTyped
  <2>2. rows'[p.key].rv <= version
    BY <1>1, <1>5, <2>1
  <2>3. p \in Matching(kind, o) /\ rows'[p.key] = rows[p.key]
    BY <2>2, MatchingBack
  <2> QED
    BY <1>3, <1>4, <1>5, <2>3 DEF Toured
<1>6. mark <= version'
  BY <1>1
<1>7. Matching(JobKind, TourScope)' = Matching(kind, o)'
  BY <1>2, <1>3, <1>4 DEF Matching
<1> QED
  BY <1>1, <1>2, <1>5, <1>6, <1>7 DEF Toured

\* The place of an item.
LEMMA ItemPlaced ==
  ASSUME NEW it, it.metadata.colony \in Names, it.metadata.name \in Names
  PROVE  ItemPlace(it) \in Place
BY TextsAssumption DEF ItemPlace, Place, Names

\* The next page goes on where the ones before it end.
LEMMA TouredNext ==
  ASSUME StoreOK, JobKind \in Kinds, NEW t, NEW n, NEW mark \in Nat, mark <= version,
         (n = <<>> /\ t = <<>>) \/ (n # <<>> /\ Toured(t, n, mark)),
         NEW m \in ListPage(JobKind), NEW o, o.page_token = n, PageOK(o, m),
         \A p \in Matching(JobKind, TourScope) : rows[p.key].rv <= mark => OnPage(o, m, p)
  PROVE  Toured(t \o m.items, m.list_meta.next_page_token, mark)
<1> DEFINE u == t \o m.items
           next == m.list_meta.next_page_token
<1>1. t \in Seq(Whole(JobKind)) /\ m.items \in Seq(Whole(JobKind))
  <2>1. m.items \in Seq(Whole(JobKind))
    BY DEF ListPage
  <2>2. CASE t = <<>>
    BY <2>1, <2>2
  <2>3. CASE n # <<>> /\ Toured(t, n, mark)
    BY <2>1, <2>3 DEF Toured
  <2> QED
    BY <2>2, <2>3
<1>2. PICK s : s = m.items
  OBVIOUS
<1>3. /\ u \in Seq(Whole(JobKind)) /\ Len(t) \in Nat /\ Len(s) \in Nat
      /\ DOMAIN t = 1 .. Len(t) /\ DOMAIN s = 1 .. Len(s) /\ DOMAIN u = 1 .. Len(t) + Len(s)
      /\ Len(u) = Len(t) + Len(s)
      /\ \A i \in DOMAIN t : u[i] = t[i]
      /\ \A i \in DOMAIN s : u[Len(t) + i] = s[i]
  <2>1. u = t \o s /\ s \in Seq(Whole(JobKind))
    BY <1>1, <1>2
  <2> HIDE DEF u
  <2>2. u \in Seq(Whole(JobKind)) /\ Len(u) = Len(t) + Len(s) /\ Len(t) \in Nat /\ Len(s) \in Nat
    BY <1>1, <2>1
  <2>3. DOMAIN t = 1 .. Len(t) /\ DOMAIN s = 1 .. Len(s) /\ DOMAIN u = 1 .. Len(u)
    BY <1>1, <2>1, <2>2
  <2>4. /\ \A i \in DOMAIN t : u[i] = t[i]
        /\ \A i \in DOMAIN s : u[Len(t) + i] = s[i]
    BY <1>1, <2>1, <2>2, <2>3
  <2> QED
    BY <2>2, <2>3, <2>4
<1> HIDE DEF u
<1>4. \A i \in DOMAIN u : i \in DOMAIN t \/ \E j \in DOMAIN s : i = Len(t) + j
  <2> SUFFICES ASSUME NEW i \in DOMAIN u, i \notin DOMAIN t
               PROVE  \E j \in DOMAIN s : i = Len(t) + j
    OBVIOUS
  <2>1. i - Len(t) \in DOMAIN s /\ i = Len(t) + (i - Len(t))
    BY <1>3
  <2> QED
    BY <2>1
<1>5. /\ \A i \in DOMAIN t : t[i].metadata.colony \in Names /\ t[i].metadata.name \in Names
      /\ \A i \in DOMAIN s : s[i].metadata.colony \in Names /\ s[i].metadata.name \in Names
  BY <1>2, <1>3 DEF Toured, PageOK
<1>6. /\ \A i \in DOMAIN t : ItemPlace(t[i]) \in Place
      /\ \A i \in DOMAIN s : ItemPlace(s[i]) \in Place
  BY <1>5, ItemPlaced
<1>7. \A i \in DOMAIN u : u[i].metadata.colony \in Names /\ u[i].metadata.name \in Names
  BY <1>3, <1>4, <1>5
<1>8. n # <<>> =>
        /\ t # <<>> /\ Len(t) \in DOMAIN t
        /\ n = EncodePageToken(ItemPlace(t[Len(t)]).colony, ItemPlace(t[Len(t)]).name)
  BY <1>1, <1>3 DEF Toured
<1>9. \A i \in DOMAIN t, j \in DOMAIN s : Before(ItemPlace(t[i]), ItemPlace(s[j]))
  <2> SUFFICES ASSUME NEW i \in DOMAIN t, NEW j \in DOMAIN s
               PROVE  Before(ItemPlace(t[i]), ItemPlace(s[j]))
    OBVIOUS
  <2>1. t # <<>>
    BY <1>3
  <2>2. Len(t) \in DOMAIN t /\ n = EncodePageToken(ItemPlace(t[Len(t)]).colony, ItemPlace(t[Len(t)]).name)
    BY <1>8, <2>1
  <2>3. After(n, ItemPlace(s[j]))
    BY <1>2 DEF PageOK
  <2>4. PICK last \in Place : last = ItemPlace(t[Len(t)])
    BY <1>6, <2>2
  <2>5. Before(last, ItemPlace(s[j]))
    BY <1>6, <2>2, <2>3, <2>4, TokenGoesOnBehind
  <2>6. CASE i = Len(t)
    BY <2>4, <2>5, <2>6
  <2>7. CASE i # Len(t)
    <3>1. Before(ItemPlace(t[i]), last)
      <4>1. i < Len(t)
        BY <1>3, <2>7
      <4> QED
        BY <2>1, <2>2, <2>4, <4>1 DEF Toured
    <3> QED
      BY <1>6, <2>4, <2>5, <3>1, BeforeIsStrict
  <2> QED
    BY <2>6, <2>7
<1>10. \A i, j \in DOMAIN u : i < j => Before(ItemPlace(u[i]), ItemPlace(u[j]))
  <2> SUFFICES ASSUME NEW i \in DOMAIN u, NEW j \in DOMAIN u, i < j
               PROVE  Before(ItemPlace(u[i]), ItemPlace(u[j]))
    OBVIOUS
  <2>1. CASE j \in DOMAIN t
    <3>1. i \in DOMAIN t /\ t # <<>>
      BY <1>3, <2>1
    <3> QED
      BY <1>3, <2>1, <3>1 DEF Toured
  <2>2. ASSUME NEW b \in DOMAIN s, j = Len(t) + b PROVE Before(ItemPlace(u[i]), ItemPlace(u[j]))
    <3>1. CASE i \in DOMAIN t
      BY <1>3, <1>9, <2>2, <3>1
    <3>2. ASSUME NEW a \in DOMAIN s, i = Len(t) + a PROVE Before(ItemPlace(u[i]), ItemPlace(u[j]))
      <4>1. a < b
        BY <1>3, <2>2, <3>2
      <4>2. Before(ItemPlace(s[a]), ItemPlace(s[b]))
        BY <1>2, <4>1 DEF PageOK
      <4> QED
        BY <1>3, <2>2, <3>2, <4>2
    <3> QED
      BY <1>4, <3>1, <3>2
  <2> QED
    BY <1>4, <2>1, <2>2
<1>11. next # <<>> =>
         /\ u # <<>>
         /\ LET last == ItemPlace(u[Len(u)]) IN
            next = EncodePageToken(last.colony, last.name)
  <2> SUFFICES ASSUME next # <<>>
               PROVE  /\ u # <<>>
                      /\ next = EncodePageToken(ItemPlace(u[Len(u)]).colony, ItemPlace(u[Len(u)]).name)
    OBVIOUS
  <2>1. s # <<>> /\ next = EncodePageToken(ItemPlace(s[Len(s)]).colony, ItemPlace(s[Len(s)]).name)
    BY <1>2 DEF PageOK
  <2>2. Len(s) \in DOMAIN s
    BY <1>1, <1>2, <1>3, <2>1
  <2>3. u[Len(u)] = s[Len(s)] /\ u # <<>>
    BY <1>3, <2>2
  <2> QED
    BY <2>1, <2>3
<1>12. ASSUME NEW p \in Matching(JobKind, TourScope), rows[p.key].rv <= mark,
              next # <<>> => ~After(next, p)
       PROVE  \E i \in DOMAIN u : ItemPlace(u[i]) = PlaceOf(p)
  <2>1. CASE n = <<>> \/ After(n, p)
    <3>1. After(n, p)
      BY <2>1 DEF After
    <3>2. PICK i \in DOMAIN s : ItemPlace(s[i]) = PlaceOf(p)
      BY <1>2, <1>12, <3>1 DEF OnPage
    <3>3. Len(t) + i \in DOMAIN u /\ u[Len(t) + i] = s[i]
      BY <1>3
    <3> QED
      BY <3>2, <3>3
  <2>2. CASE n # <<>> /\ ~After(n, p)
    <3>1. PICK i \in DOMAIN t : ItemPlace(t[i]) = PlaceOf(p)
      BY <1>12, <2>2 DEF Toured
    <3>2. i \in DOMAIN u /\ u[i] = t[i]
      BY <1>3
    <3> QED
      BY <3>1, <3>2
  <2> QED
    BY <2>1, <2>2
<1> QED
  BY <1>3, <1>7, <1>10, <1>11, <1>12 DEF Toured, u

\* What a page that is read from now on is marked with.
MarkOK ==
  pages.mark # Nil /\ (call[User].stage = "counted" \/ call[User].message # Nil) =>
    pages.mark <= call[User].mark

\* Nothing new comes of the tour.
LEMMA TourStands ==
  ASSUME StoreOK, StoreOK', StoreMoves, TourOK, job' = job, pages' = pages,
         exit' = exit \/ exit' = 1, stage' # "done" => stage # "done", MarkOK'
  PROVE  TourOK'
<1>1. exit' = 0 => exit = 0
  OBVIOUS
<1>2. pages.mark # Nil => Toured(pages.items, pages.token, pages.mark)'
  <2> SUFFICES ASSUME pages.mark # Nil PROVE Toured(pages.items, pages.token, pages.mark)'
    OBVIOUS
  <2>1. PICK t : t = pages.items
    OBVIOUS
  <2>2. PICK n : n = pages.token
    OBVIOUS
  <2>3. PICK mark : mark = pages.mark
    OBVIOUS
  <2>4. Toured(t, n, mark)
    BY <2>1, <2>2, <2>3 DEF TourOK
  <2>5. Toured(t, n, mark)'
    BY <2>4, TouredStands
  <2>6. t = pages'.items /\ n = pages'.token /\ mark = pages'.mark
    BY <2>1, <2>2, <2>3
  <2> QED
    BY <2>5, <2>6
<1> QED
  BY <1>1, <1>2 DEF TourOK, MarkOK

\* A step of the handler of the user's page.
LEMMA TourHandled ==
  ASSUME ApiOK, UserOK, TourOK, job.command = "page", NewHandler(User), UNCHANGED userVars
  PROVE  MarkOK'
<1>1. StoreOK /\ CallsAre /\ CallOK(User) /\ User \in Callers
  BY UserIsACaller DEF ApiOK
<1>2. call[User].stage \in {"arrived", "dispatched", "counted", "streaming"}
  BY <1>1, HandlerKeeps
<1>3. JobKind \in Kinds /\ For(User, JobKind, "List")
  BY <1>2, JobAsked
<1>4. /\ \A k \in Kinds : \A n : For(User, k, n) => k = JobKind /\ n = "List"
      /\ \A n : ~ForEvents(User, n)
      /\ call[User].service \in Mounted
  BY <1>1, <1>3, OneMethod, ServicesDiffer DEF For
<1>5. pages' = pages
  BY DEF userVars
<1>6. CASE Authenticate(User)
  <2>1. Now(User, "dispatched", "dev", call[User].mark, call[User].cursor, call[User].batch,
            call[User].seen, call[User].code, call[User].message)
    BY <1>1, <1>6, CallsMove
  <2>2. call[User].message = Nil
    BY <1>1, <1>6 DEF Authenticate, CallOK, PhaseOK
  <2> QED
    BY <2>1, <2>2 DEF Now, MarkOK
<1>7. ASSUME NEW code, NEW m, Answer(User, code, m), m = Nil \/ call[User].stage = "counted"
      PROVE  MarkOK'
  <2>1. Now(User, "answered", call[User].principal, call[User].mark, call[User].cursor, {},
            call[User].seen, code, m)
    BY <1>1, <1>7, CallsMove
  <2> QED
    BY <1>5, <1>7, <2>1 DEF Now, MarkOK, TourOK
<1>8. CASE call' = [call EXCEPT ![User].stage = "counted", ![User].mark = version]
  <2>1. Now(User, "counted", call[User].principal, version, call[User].cursor,
            call[User].batch, call[User].seen, call[User].code, call[User].message)
    BY <1>1, <1>8, CallsMove
  <2> QED
    BY <1>5, <2>1 DEF Now, MarkOK, TourOK, Toured
<1>9. ASSUME NEW kind \in Kinds, KindStep(User, kind) PROVE MarkOK'
  <2>1. ListObjects(User, kind, OptionsOf(kind, call[User].request.options))
    BY <1>4, <1>9 DEF KindStep, Handles, For
  <2> QED
    BY <1>7, <1>8, <2>1, Zenon DEF ListObjects
<1>10. ~NotFound(User)
  BY <1>4 DEF NotFound
<1>11. \A n : ~Handles(User, "EventService", n)
  BY <1>4 DEF Handles, ForEvents
<1>12. ~Handles(User, "RunService", "Logs")
  BY <1>3 DEF Handles, For
<1> QED
  BY <1>6, <1>9, <1>10, <1>11, <1>12, HandlerSteps

\* The user gets a page.
LEMMA TourGoesOn ==
  ASSUME ApiOK, UserOK, ApiOK', TourOK, ReceivePage
  PROVE  TourOK'
<1> DEFINE m == call[User].message
<1>1. StoreOK /\ StoreOK' /\ CallOK(User) /\ User \in Callers
  BY UserIsACaller DEF ApiOK
<1>2. /\ m \in ListPage(JobKind) /\ JobKind \in Kinds /\ For(User, JobKind, "List")
      /\ m # Nil /\ MessageOK(User)
  BY <1>1, PageGot
<1>3. /\ stage = "waiting" /\ call[User].stage = "answered" /\ job.command = "page"
      /\ UNCHANGED <<storeVars, job>>
      /\ pages' = [items |-> pages.items \o m.items,
                   mark  |-> IF pages.mark = Nil THEN m.list_meta.resource_version
                             ELSE pages.mark,
                   token |-> m.list_meta.next_page_token]
      /\ IF m.list_meta.next_page_token = <<>> THEN Exit(0)
         ELSE stage' = "start" /\ UNCHANGED exit
  BY DEF ReceivePage, Answered
<1>4. call'[User] = NoCall /\ StoreMoves
  BY ReceivePageOK DEF StepOK
<1>5. /\ ScopeOf(User, JobKind).colony = JobColony
      /\ ScopeOf(User, JobKind).page_token = pages.token
      /\ ScopeOf(User, JobKind).label_selector = job.selector
  BY <1>3, ScopeOfJob
<1>6. PICK o : o = ScopeOf(User, JobKind)
  OBVIOUS
<1>7. Matching(JobKind, o) = Matching(JobKind, TourScope)
  BY <1>5, <1>6 DEF Matching, TourScope
<1>8. /\ PageOK(o, m) /\ m.list_meta.resource_version = call[User].mark
      /\ \A p \in Matching(JobKind, TourScope) :
           rows[p.key].rv <= call[User].mark => OnPage(o, m, p)
  BY <1>2, <1>6, <1>7 DEF MessageOK
<1>9. call[User].mark \in Nat /\ call[User].mark <= version /\ version \in Nat
  BY <1>1 DEF CallOK, PhaseOK, StoreOK
<1>10. PICK mark : mark = pages'.mark
  OBVIOUS
<1>11. /\ mark \in Nat /\ mark <= version /\ mark <= call[User].mark
       /\ \/ pages.token = <<>> /\ pages.items = <<>>
          \/ pages.token # <<>> /\ Toured(pages.items, pages.token, mark)
  <2>1. CASE pages.mark = Nil
    BY <1>3, <1>8, <1>9, <1>10, <2>1 DEF TourOK
  <2>2. CASE pages.mark # Nil
    <3>1. mark = pages.mark /\ stage # "done"
      BY <1>3, <1>10, <2>2
    <3>2. Toured(pages.items, pages.token, mark) /\ mark <= call[User].mark
      BY <1>2, <2>2, <3>1 DEF TourOK
    <3>3. pages.token # <<>>
      BY <2>2, <3>1 DEF TourOK
    <3> QED
      BY <3>2, <3>3 DEF Toured
  <2> QED
    BY <2>1, <2>2
<1>12. \A p \in Matching(JobKind, TourScope) : rows[p.key].rv <= mark => OnPage(o, m, p)
  <2> SUFFICES ASSUME NEW p \in Matching(JobKind, TourScope), rows[p.key].rv <= mark
               PROVE  OnPage(o, m, p)
    OBVIOUS
  <2>1. rows[p.key].rv \in Nat
    <3>1. p.key \in DOMAIN rows
      BY DEF Matching
    <3> QED
      BY <1>1, <3>1 DEF StoreOK, RowTyped
  <2> QED
    BY <1>8, <1>9, <1>11, <2>1
<1>13. PICK t : t = pages.items
  OBVIOUS
<1>14. PICK n : n = pages.token
  OBVIOUS
<1>15. PICK page \in ListPage(JobKind) : page = m
  BY <1>2
<1>16. Toured(t \o page.items, page.list_meta.next_page_token, mark)
  BY <1>1, <1>2, <1>5, <1>6, <1>8, <1>11, <1>12, <1>13, <1>14, <1>15, TouredNext
<1>17. Toured(t \o page.items, page.list_meta.next_page_token, mark)'
  BY <1>1, <1>3, <1>4, <1>16, TouredStands
<1>18. /\ pages'.items = t \o page.items /\ pages'.token = page.list_meta.next_page_token
       /\ pages'.mark = mark /\ mark # Nil
  <2>1. mark # Nil
    BY <1>11, NilAssumption
  <2> QED
    BY <1>3, <1>10, <1>13, <1>15, <2>1
<1>19. Toured(pages.items, pages.token, pages.mark)'
  BY <1>17, <1>18
<1>20. call'[User].stage # "counted" /\ call'[User].message = Nil
  <2>1. NoCall.message = Nil
    BY Zenon DEF NoCall
  <2> QED
    BY <1>4, <2>1, NoCallIdle
<1>21. /\ stage' # "done" /\ pages'.token = <<>> => pages'.mark = Nil
       /\ exit' = 0 => pages'.token = <<>>
  <2>1. exit = Nil
    BY <1>3, Zenon DEF UserOK
  <2>2. exit # 0
    BY <2>1, NilIsNoExit
  <2> QED
    BY <1>3, <2>2 DEF Exit
<1> QED
  BY <1>18, <1>19, <1>20, <1>21 DEF TourOK

\* TourOK is inductive.
LEMMA TourInduct ==
  ASSUME ApiOK, UserOK, ApiOK', job.command = "page", TourOK, [Next]_vars
  PROVE  TourOK'
<1>1. StoreOK /\ StoreOK'
  BY DEF ApiOK
<1>2. MarkOK
  BY DEF TourOK, MarkOK
\* The user's call and pages are what they were.
<1>3. ASSUME StoreMoves, job' = job, pages' = pages, call'[User] = call[User],
             exit' = exit \/ exit' = 1, stage' = stage \/ stage' = "done"
      PROVE  TourOK'
  <2>1. MarkOK'
    BY <1>2, <1>3 DEF MarkOK
  <2> QED
    BY <1>1, <1>3, <2>1, TourStands
<1>4. CASE ApiNext /\ UNCHANGED <<userVars, requests>>
  <2>1. PICK x \in Callers : NewHandler(x)
    BY <1>4 DEF ApiNext
  <2>2. StepOK(x)
    BY <2>1, HandlerOK
  <2>3. CASE x = User
    <3>1. MarkOK' /\ StoreMoves
      BY <1>4, <2>1, <2>2, <2>3, TourHandled DEF StepOK
    <3>2. job' = job /\ pages' = pages /\ exit' = exit /\ stage' = stage
      BY <1>4 DEF userVars
    <3> QED
      BY <1>1, <3>1, <3>2, TourStands
  <2>4. CASE x # User
    <3>1. call'[User] = call[User] /\ StoreMoves
      BY <2>2, <2>4, UserIsACaller DEF StepOK, OthersStand
    <3> QED
      BY <1>3, <1>4, <3>1 DEF userVars
  <2> QED
    BY <2>3, <2>4
<1>5. CASE OtherAsks \/ OtherReads
  <2>1. StepOK(Other) /\ UNCHANGED userVars
    BY <1>5, OtherAsksOK, OtherReadsOK
  <2>2. call'[User] = call[User] /\ StoreMoves
    BY <2>1, UserIsACaller DEF StepOK, OthersStand
  <2> QED
    BY <1>3, <2>1, <2>2 DEF userVars
<1>6. CASE NewerKeeperWrites
  <2>1. job \in Jobs
    BY DEF UserOK
  <2>2. StoreMoves /\ call' = call /\ UNCHANGED userVars
    BY <1>6, <2>1, NewerOK DEF NewerKeeperWrites
  <2> QED
    BY <1>3, <2>2 DEF userVars
<1>7. ASSUME UNCHANGED <<apiVars, job, pages>>, exit' = exit \/ exit' = 1,
             stage' = stage \/ stage' = "done"
      PROVE  TourOK'
  <2>1. UNCHANGED <<rows, version, log>> /\ call' = call /\ job' = job /\ pages' = pages
    BY <1>7 DEF apiVars
  <2> QED
    BY <1>1, <1>3, <1>7, <2>1, StoreStill
<1>8. CASE UNCHANGED vars
  BY <1>7, <1>8 DEF vars, userVars
<1>9. CASE UserNext
  <2>1. CASE RefuseLine \/ ReceiveError \/ Interrupt
    BY <1>7, <2>1 DEF RefuseLine, ReceiveError, Interrupt, Exit
  <2>2. ~Version /\ ~Receive /\ ~ReceiveMessage
    BY DEF Version, ReceiveMessage, Receive, ReceiveOne, ReceiveList, ReceiveEvents
  <2>3. CASE Send
    <3>1. /\ StepOK(User) /\ call'[User].stage = "arrived" /\ call'[User].message = Nil
      BY <2>3, SendOK
    <3>2. job' = job /\ pages' = pages /\ exit' = exit /\ stage = "start"
      BY <2>3 DEF Send
    <3>3. MarkOK'
      BY <3>1 DEF MarkOK
    <3> QED
      BY <1>1, <3>1, <3>2, <3>3, TourStands DEF StepOK
  <2>4. CASE ReceivePage
    BY <2>4, TourGoesOn
  <2> QED
    BY <1>9, <2>1, <2>2, <2>3, <2>4 DEF UserNext
<1> QED
  BY <1>4, <1>5, <1>6, <1>8, <1>9 DEF Next

\* It holds in the beginning.
LEMMA TourInit ==
  ASSUME Init
  PROVE  TourOK
<1>1. /\ pages.mark = Nil /\ pages.items = <<>> /\ pages.token = <<>> /\ exit = Nil
  BY DEF Init
<1> QED
  BY <1>1, NilIsNoExit DEF TourOK

\* A tour that has come to its end has it all.
LEMMA TourIsComplete ==
  ASSUME ApiOK, UserOK, job.command = "page", TourOK
  PROVE  PagesComplete
<1> DEFINE seen == Places(pages.items)
           o == [CommandOptions(job) EXCEPT
                   !.label_selector = job.selector,
                   !.colony = IF JobKind = "Colony" THEN Unset ELSE @]
<1>1. o.colony = JobColony /\ o.label_selector = job.selector
  <2> DEFINE R(a, b, c, d) ==
               [colony |-> a, label_selector |-> b, page_size |-> c, page_token |-> d]
             E(r, s, u) == [r EXCEPT !.label_selector = s,
                                     !.colony = IF JobKind = "Colony" THEN u ELSE @]
  <2>1. \A a, b, c, d, s, u :
          /\ E(R(a, b, c, d), s, u).colony = IF JobKind = "Colony" THEN u ELSE a
          /\ E(R(a, b, c, d), s, u).label_selector = s
    OBVIOUS
  <2>2. CommandOptions(job) = R(job.colony, {}, 0, <<>>)
    BY DEF CommandOptions
  <2>3. o = E(CommandOptions(job), job.selector, Unset)
    OBVIOUS
  <2> HIDE DEF R, E, o
  <2> QED
    BY <2>1, <2>2, <2>3 DEF JobColony
<1>2. Matching(JobKind, o) = Matching(JobKind, TourScope)
  <2>1. TourScope.colony = JobColony /\ TourScope.label_selector = job.selector
    BY DEF TourScope
  <2> HIDE DEF o
  <2> QED
    BY <1>1, <2>1 DEF Matching
<1>3. DOMAIN seen = DOMAIN pages.items
      /\ \A i \in DOMAIN pages.items : seen[i] = ItemPlace(pages.items[i])
  BY DEF Places, ItemPlace
<1>4. CASE pages.mark = Nil
  <2>1. pages.items = <<>> /\ exit # 0
    BY <1>4 DEF TourOK
  <2>2. seen = <<>>
    BY <2>1 DEF Places
  <2>3. \A i \in 1 .. Len(seen) - 1 : Before(seen[i], seen[i + 1])
    BY <2>2
  <2> QED
    BY <2>1, <2>3 DEF PagesComplete
<1>5. CASE pages.mark # Nil
  <2>1. PICK t : t = pages.items
    OBVIOUS
  <2>2. Toured(t, pages.token, pages.mark) /\ t \in Seq(Whole(JobKind))
    BY <1>5, <2>1 DEF TourOK, Toured
  <2>3. DOMAIN t = 1 .. Len(t) /\ Len(t) \in Nat
    BY <2>2
  <2> HIDE DEF seen
  <2>4. Len(seen) = Len(t)
    <3>1. seen = [i \in 1 .. Len(t) |-> ItemPlace(t[i])]
      BY <2>1, <2>3 DEF seen, Places, ItemPlace
    <3> QED
      BY <2>3, <3>1
  <2>5. \A i \in 1 .. Len(seen) - 1 : Before(seen[i], seen[i + 1])
    <3> SUFFICES ASSUME NEW i \in 1 .. Len(seen) - 1 PROVE Before(seen[i], seen[i + 1])
      OBVIOUS
    <3>1. i \in 1 .. Len(t) /\ i + 1 \in 1 .. Len(t) /\ i < i + 1
      BY <2>3, <2>4
    <3>2. Before(ItemPlace(t[i]), ItemPlace(t[i + 1]))
      BY <2>2, <2>3, <3>1 DEF Toured
    <3>3. seen[i] = ItemPlace(t[i]) /\ seen[i + 1] = ItemPlace(t[i + 1])
      BY <1>3, <2>1, <2>3, <3>1
    <3> QED
      BY <3>2, <3>3
  <2>6. ASSUME exit = 0, NEW p \in Matching(JobKind, o), rows[p.key].rv <= pages.mark
        PROVE  \E i \in DOMAIN seen : seen[i].colony = p.colony /\ seen[i].name = p.name
    <3>1. pages.token = <<>>
      BY <2>6 DEF TourOK
    <3>2. PICK i \in DOMAIN t : ItemPlace(t[i]) = PlaceOf(p)
      BY <1>2, <2>2, <2>6, <3>1 DEF Toured
    <3> QED
      BY <1>3, <2>1, <3>2 DEF PlaceOf
  <2> QED
    BY <2>5, <2>6 DEF PagesComplete, JobKind, seen
<1> QED
  BY <1>4, <1>5

\* Whatever is created or changed between two pages, following the page tokens of
\* a list gets every object once, in order, and all that has not changed since
\* the first page (postgres.go:179-219, pagetoken.go).
THEOREM ToursAreComplete == Spec => []PagesComplete
<1> DEFINE Inv == ApiOK /\ UserOK /\ (job.command = "page" => TourOK)
<1>1. Init => Inv
  BY InitOK, TourInit
<1>2. Inv /\ [Next]_vars => Inv'
  BY CommandsInduct, TourInduct, JobStays
<1>3. Inv => PagesComplete
  <2>1. job.command # "page" => PagesComplete
    BY DEF PagesComplete
  <2> QED
    BY <2>1, TourIsComplete
<1> QED
  BY <1>1, <1>2, <1>3, PTL DEF Spec

=============================================================================
