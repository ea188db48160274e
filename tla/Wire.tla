-------------------------------- MODULE Wire --------------------------------
(***************************************************************************)
(* The messages and the clients generated from proto/hived/v1alpha1        *)
(* (gen/hived/v1alpha1): each message is the set of records the wire can   *)
(* carry, each service the set of calls its generated client can make and  *)
(* the answers it can read.                                                *)
(*                                                                         *)
(* A record has the fields that a handler or a command reads by name.  The *)
(* others are one field `rest`: what a spec or a status holds besides.  A  *)
(* message that is not set is Nil.  A page token is a sequence of          *)
(* characters, a map of labels a set.                                      *)
(***************************************************************************)
EXTENDS Integers, Sequences

CONSTANTS
  Nil,
  Rests     \* Unset: nothing more is set

\* What a getter of a text returns that nobody set.
Unset == ""

ASSUME RestsAssumption == Unset \in Rests

\* A getter: the zero value of a field whose message is not set.
Get(m, field, zero) == IF m = Nil THEN zero ELSE m[field]

Optional(M) == M \cup {Nil}

Token == Seq(Nat)

-----------------------------------------------------------------------------
(* meta.proto                                                              *)

WatchEventType == {"UNSPECIFIED", "ADDED", "MODIFIED", "DELETED", "BOOKMARK"}

ObjectMeta ==
  [name: STRING, colony: STRING, generation: Nat, resource_version: Nat,
   labels: SUBSET STRING]

ListOptions ==
  [colony: STRING, label_selector: SUBSET STRING, page_size: Int,
   page_token: Token]

ListMeta == [next_page_token: Token, resource_version: Nat]

-----------------------------------------------------------------------------
(* colony.proto, agent.proto, run.proto, tool.proto, event.proto           *)

ColonySpec == [display_name: STRING, rest: Rests]
ColonyStatus == [rest: Rests]
Colony ==
  [metadata: Optional(ObjectMeta), spec: Optional(ColonySpec),
   status: Optional(ColonyStatus)]

AgentSpec == [rest: Rests]
AgentStatus == [current: STRING, rest: Rests]
Agent ==
  [metadata: Optional(ObjectMeta), spec: Optional(AgentSpec),
   status: Optional(AgentStatus)]

AgentVersionSpec == [agent: STRING, version: STRING, rest: Rests]
AgentVersionStatus == [rest: Rests]
AgentVersion ==
  [metadata: Optional(ObjectMeta), spec: Optional(AgentVersionSpec),
   status: Optional(AgentVersionStatus)]

RunPhase ==
  {"UNSPECIFIED", "PENDING", "SCHEDULING", "RUNNING", "PAUSED", "SUCCEEDED",
   "FAILED", "CANCELLED", "TIMED_OUT"}
RunSpec == [agent_ref: STRING, rest: Rests]
RunStatus == [phase: RunPhase, rest: Rests]
Run ==
  [metadata: Optional(ObjectMeta), spec: Optional(RunSpec),
   status: Optional(RunStatus)]

ToolType == {"UNSPECIFIED", "MCP", "BUILTIN", "AGENT"}
ToolSpec ==
  [type: ToolType, endpoint: STRING, builtin: STRING, agent_ref: STRING,
   risk_class: STRING, rest: Rests]
ToolStatus == [rest: Rests]
Tool ==
  [metadata: Optional(ObjectMeta), spec: Optional(ToolSpec),
   status: Optional(ToolStatus)]

Event ==
  [colony: STRING, run: STRING, seq: Nat, type: STRING, payload: Optional(Rests),
   resource_version: Nat]

-----------------------------------------------------------------------------
(* service.proto: requests, answers and the messages of streams.           *)

Precondition == Nat \cup {Nil}

ApplyColonyRequest == [object: Optional(Colony), if_resource_version: Precondition]
GetColonyRequest == [name: STRING]
ListColoniesRequest == [options: Optional(ListOptions)]
ListColoniesResponse == [items: Seq(Colony), list_meta: ListMeta]
WatchColoniesRequest == [options: Optional(ListOptions), since_resource_version: Int]
ColonyWatchEvent ==
  [type: WatchEventType, resource_version: Int, object: Optional(Colony)]

ApplyAgentRequest == [object: Optional(Agent), if_resource_version: Precondition]
GetAgentRequest == [colony: STRING, name: STRING]
ListAgentsRequest == [options: Optional(ListOptions)]
ListAgentsResponse == [items: Seq(Agent), list_meta: ListMeta]
WatchAgentsRequest == [options: Optional(ListOptions), since_resource_version: Int]
AgentWatchEvent ==
  [type: WatchEventType, resource_version: Int, object: Optional(Agent)]

ApplyAgentVersionRequest ==
  [object: Optional(AgentVersion), if_resource_version: Precondition]
GetAgentVersionRequest == [colony: STRING, name: STRING]
ListAgentVersionsRequest == [options: Optional(ListOptions)]
ListAgentVersionsResponse == [items: Seq(AgentVersion), list_meta: ListMeta]
WatchAgentVersionsRequest ==
  [options: Optional(ListOptions), since_resource_version: Int]
AgentVersionWatchEvent ==
  [type: WatchEventType, resource_version: Int, object: Optional(AgentVersion)]

ApplyRunRequest == [object: Optional(Run), if_resource_version: Precondition]
GetRunRequest == [colony: STRING, name: STRING]
ListRunsRequest == [options: Optional(ListOptions)]
ListRunsResponse == [items: Seq(Run), list_meta: ListMeta]
WatchRunsRequest == [options: Optional(ListOptions), since_resource_version: Int]
RunWatchEvent ==
  [type: WatchEventType, resource_version: Int, object: Optional(Run)]
RunLogsRequest == [colony: STRING, name: STRING]
RunLogChunk == [data: STRING]

ApplyToolRequest == [object: Optional(Tool), if_resource_version: Precondition]
GetToolRequest == [colony: STRING, name: STRING]
ListToolsRequest == [options: Optional(ListOptions)]
ListToolsResponse == [items: Seq(Tool), list_meta: ListMeta]
WatchToolsRequest == [options: Optional(ListOptions), since_resource_version: Int]
ToolWatchEvent ==
  [type: WatchEventType, resource_version: Int, object: Optional(Tool)]

AppendEventRequest == [object: Optional(Event)]
ListEventsRequest == [colony: STRING, run: STRING, since_seq: Int, limit: Int]
ListEventsResponse == [items: Seq(Event)]
WatchEventsRequest == [colony: STRING, run: STRING, since_resource_version: Int]

\* The messages of each kind.
SpecOf(kind) ==
  CASE kind = "Colony"       -> ColonySpec
    [] kind = "Agent"        -> AgentSpec
    [] kind = "AgentVersion" -> AgentVersionSpec
    [] kind = "Run"          -> RunSpec
    [] kind = "Tool"         -> ToolSpec

StatusOf(kind) ==
  CASE kind = "Colony"       -> ColonyStatus
    [] kind = "Agent"        -> AgentStatus
    [] kind = "AgentVersion" -> AgentVersionStatus
    [] kind = "Run"          -> RunStatus
    [] kind = "Tool"         -> ToolStatus

ObjectOf(kind) ==
  CASE kind = "Colony"       -> Colony
    [] kind = "Agent"        -> Agent
    [] kind = "AgentVersion" -> AgentVersion
    [] kind = "Run"          -> Run
    [] kind = "Tool"         -> Tool

ListResponseOf(kind) ==
  CASE kind = "Colony"       -> ListColoniesResponse
    [] kind = "Agent"        -> ListAgentsResponse
    [] kind = "AgentVersion" -> ListAgentVersionsResponse
    [] kind = "Run"          -> ListRunsResponse
    [] kind = "Tool"         -> ListToolsResponse

WatchEventOf(kind) ==
  CASE kind = "Colony"       -> ColonyWatchEvent
    [] kind = "Agent"        -> AgentWatchEvent
    [] kind = "AgentVersion" -> AgentVersionWatchEvent
    [] kind = "Run"          -> RunWatchEvent
    [] kind = "Tool"         -> ToolWatchEvent

-----------------------------------------------------------------------------
(* service.connect.go: what each client sends where, and what it reads     *)
(* back: the answer of a unary call, each message of a stream, Nil as long *)
(* as there is none.                                                       *)

Procedure(service, method, Request, Answer) ==
  [service: {service}, method: {method}, request: Request,
   message: Optional(Answer)]

ColonyServiceClient ==
       Procedure("ColonyService", "Apply", ApplyColonyRequest, Colony)
  \cup Procedure("ColonyService", "Get", GetColonyRequest, Colony)
  \cup Procedure("ColonyService", "List", ListColoniesRequest, ListColoniesResponse)
  \cup Procedure("ColonyService", "Watch", WatchColoniesRequest, ColonyWatchEvent)

AgentServiceClient ==
       Procedure("AgentService", "Apply", ApplyAgentRequest, Agent)
  \cup Procedure("AgentService", "Get", GetAgentRequest, Agent)
  \cup Procedure("AgentService", "List", ListAgentsRequest, ListAgentsResponse)
  \cup Procedure("AgentService", "Watch", WatchAgentsRequest, AgentWatchEvent)

AgentVersionServiceClient ==
       Procedure("AgentVersionService", "Apply", ApplyAgentVersionRequest, AgentVersion)
  \cup Procedure("AgentVersionService", "Get", GetAgentVersionRequest, AgentVersion)
  \cup Procedure("AgentVersionService", "List", ListAgentVersionsRequest,
                 ListAgentVersionsResponse)
  \cup Procedure("AgentVersionService", "Watch", WatchAgentVersionsRequest,
                 AgentVersionWatchEvent)

RunServiceClient ==
       Procedure("RunService", "Apply", ApplyRunRequest, Run)
  \cup Procedure("RunService", "Get", GetRunRequest, Run)
  \cup Procedure("RunService", "List", ListRunsRequest, ListRunsResponse)
  \cup Procedure("RunService", "Watch", WatchRunsRequest, RunWatchEvent)
  \cup Procedure("RunService", "Logs", RunLogsRequest, RunLogChunk)

ToolServiceClient ==
       Procedure("ToolService", "Apply", ApplyToolRequest, Tool)
  \cup Procedure("ToolService", "Get", GetToolRequest, Tool)
  \cup Procedure("ToolService", "List", ListToolsRequest, ListToolsResponse)
  \cup Procedure("ToolService", "Watch", WatchToolsRequest, ToolWatchEvent)

EventServiceClient ==
       Procedure("EventService", "Append", AppendEventRequest, Event)
  \cup Procedure("EventService", "List", ListEventsRequest, ListEventsResponse)
  \cup Procedure("EventService", "Watch", WatchEventsRequest, Event)

Clients ==
  ColonyServiceClient \cup AgentServiceClient \cup AgentVersionServiceClient
  \cup RunServiceClient \cup ToolServiceClient \cup EventServiceClient
=============================================================================
