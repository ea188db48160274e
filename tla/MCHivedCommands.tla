--------------------------- MODULE MCHivedCommands ---------------------------
(* Jobs, requests and texts for TLC's instance of HivedCommands.           *)
EXTENDS HivedCommands, TLC

MCTexts ==
  "" :> <<>> @@ "a" :> <<1>> @@ "b" :> <<2>> @@ "c" :> <<3>> @@ "cd" :> <<3, 4>>

MCCallers == {User, Other}

\* What this version's messages can carry; "newer" is not among it.
MCRests == {"", "x", "nan"}

-----------------------------------------------------------------------------
(* Objects a client sends, per kind.                                       *)

Meta(colony, name, labels) ==
  [name |-> name, colony |-> colony, generation |-> 7, resource_version |-> 7,
   labels |-> labels]

SpecWith(kind, rest) ==
  CASE kind = "Colony"       -> [display_name |-> "C", rest |-> rest]
    [] kind = "Agent"        -> [rest |-> rest]
    [] kind = "AgentVersion" -> [agent |-> "a", version |-> "1", rest |-> rest]
    [] kind = "Run"          -> [agent_ref |-> "a", rest |-> rest]
    [] kind = "Tool"         -> [type |-> "MCP", endpoint |-> "e", builtin |-> "",
                                 agent_ref |-> "", risk_class |-> "", rest |-> rest]

Thing(kind, colony, name, labels, rest) ==
  [metadata |-> Meta(IF kind = "Colony" THEN "" ELSE colony, name, labels),
   spec |-> SpecWith(kind, rest), status |-> Nil]

Applied(kind, m, precondition) ==
  Asked(ServiceOf(kind), "Apply", [object |-> m, if_resource_version |-> precondition])

Listed(kind, token) ==
  Asked(ServiceOf(kind), "List",
        [options |-> [colony |-> "", label_selector |-> {}, page_size |-> 1,
                      page_token |-> token]])

Event1(run, payload) ==
  [colony |-> "c", run |-> run, seq |-> 9, type |-> "t", payload |-> payload,
   resource_version |-> 9]

AppendOf(e) == Asked("EventService", "Append", [object |-> e])

-----------------------------------------------------------------------------
(* Command lines.                                                          *)

Base ==
  [command |-> "get", alias |-> "run", name |-> "", colony |-> "", output |-> "table",
   token |-> "", since |-> 0, input |-> "", agent |-> "a", selector |-> {},
   page_size |-> 1]

AliasOf ==
  "Colony" :> "co" @@ "Agent" :> "agents" @@ "AgentVersion" :> "av" @@ "Run" :> "runs"
  @@ "Tool" :> "tool"

Job(command, kind) == [Base EXCEPT !.command = command, !.alias = AliasOf[kind]]

Gets == {[Job("get", k) EXCEPT !.name = "a", !.colony = "c"] : k \in Kinds}
Lists == {Job("list", k) : k \in Kinds} \cup
         {[Job("list", "Run") EXCEPT !.output = "json", !.colony = "c"]}
Watches == {[Job("watch", k) EXCEPT !.token = "t"] : k \in Kinds} \cup
           {[Job("watch", "Run") EXCEPT !.colony = "c", !.since = 1]}
\* Page sizes a client may ask for: too small, none, one, too large.
Tours == {[Job("page", "Agent") EXCEPT !.page_size = n] : n \in {-1, 0, 1, 3}} \cup
         {[Job("page", "Colony") EXCEPT !.colony = "c"],
          [Job("page", "Tool") EXCEPT !.selector = {"l"}]}
Others == {[Base EXCEPT !.command = "run", !.colony = "c", !.name = "a", !.input = i,
                        !.output = o] : i \in {"", "x", "not JSON"}, o \in {"yaml", "wide"}}
  \cup {[Base EXCEPT !.command = "events", !.colony = "c", !.name = "a", !.output = o] :
          o \in {"table", "wide"}}
  \cup {[Base EXCEPT !.command = c] : c \in {"logs", "approve", "version", "events", "run"}}
  \cup {[Base EXCEPT !.alias = "pod"]}

MCJobs == Gets \cup Lists \cup Watches \cup Tours \cup Others

-----------------------------------------------------------------------------
(* What the other client asks.                                             *)

\* Applies of the kind the job is about: three places, one change, one that
\* changes nothing.
AppliesOf(kind) ==
  {Applied(kind, Thing(kind, "c", "a", {"l"}, ""), Nil),
   Applied(kind, Thing(kind, "c", "a", {"l"}, "x"), Nil),
   Applied(kind, Thing(kind, "c", "b", {}, ""), Nil),
   Applied(kind, Thing(kind, "cd", "a", {"l"}, ""), Nil)}

Odd ==
  {Applied("Run", Nil, Nil),
   Applied("Run", Thing("Run", "c", "", {}, ""), Nil),
   Applied("Run", Thing("Run", "c", "a", {}, "nan"), Nil),
   Applied("Run", Thing("Run", "c", "a", {}, ""), 3),
   Applied("Agent", [Thing("Agent", "c", "a", {}, "") EXCEPT !.spec = Nil], Nil),
   Listed("Run", <<1>>),
   Asked("RunService", "Logs", [colony |-> "c", name |-> "a"]),
   Asked("BrokerService", "Call", Nil)}

EventRequests ==
  {AppendOf(Event1("a", Nil)), AppendOf(Event1("b", "x")), AppendOf(Event1("a", "nan")),
   AppendOf(Nil),
   Asked("EventService", "Watch", [colony |-> "c", run |-> "a", since_resource_version |-> 1])}

MCRequests(j) ==
  IF j.command = "events" THEN EventRequests
  ELSE IF j.command = "run" THEN Odd
  ELSE IF ResolveKind(j.alias) = Nil THEN {}
  ELSE AppliesOf(ResolveKind(j.alias))

\* What a tour finds there, and an event command nothing of.
MCStored(j) ==
  IF j.command # "page" THEN <<>>
  ELSE LET kind == ResolveKind(j.alias)
           Of(colony, labels) ==
             [kind |-> kind, colony |-> IF kind = "Colony" THEN "" ELSE colony,
              name |-> IF kind = "Colony" THEN colony ELSE "a", labels |-> labels,
              spec |-> SpecWith(kind, ""), status |-> Nil]
       IN <<Of("cd", {"l"}), Of("c", {"l"})>>

\* A newer Keeper's object, among those the job is about.
MCNewerRows(j) ==
  LET kind == ResolveKind(j.alias) IN
  IF j.command \notin {"get", "list", "watch"} \/ kind = Nil THEN {}
  ELSE {[key |-> [kind |-> kind, colony |-> IF kind = "Colony" THEN "" ELSE "c",
                  name |-> "b"],
         spec |-> SpecWith(kind, "newer")]}
=============================================================================
