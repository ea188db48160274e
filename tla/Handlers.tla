------------------------------ MODULE Handlers ------------------------------
(***************************************************************************)
(* What the RPC handlers of internal/api make of a request: which objects  *)
(* they accept, under which key an object is stored and looked up, and     *)
(* which connect code an error of the store becomes.                       *)
(*                                                                         *)
(* An object carries what these decisions look at: its kind, its colony    *)
(* and its name ("" when not set), whether the target its kind requires is *)
(* set (an AgentVersion's agent, a Run's agent_ref, the endpoint, builtin  *)
(* or agent a Tool's type asks for), and its spec.                         *)
(***************************************************************************)

Kinds == {"Colony", "Agent", "AgentVersion", "Run", "Tool"}

\* store.ImmutableKinds: kinds whose Apply only creates.
ImmutableKinds == {"AgentVersion"}

Object ==
  [kind: Kinds, colony: STRING, name: STRING, target: BOOLEAN, spec: STRING]

-----------------------------------------------------------------------------
(* Validation: the first half of each handler's Apply.                     *)

\* resourceFromMeta: metadata.name is required.
Named(o) == o.name # ""

ColonyAccepted(o) == Named(o)

AgentAccepted(o) == Named(o) /\ o.colony # ""

AgentVersionAccepted(o) == Named(o) /\ o.colony # "" /\ o.target

RunAccepted(o) == Named(o) /\ o.colony # "" /\ o.target

ToolAccepted(o) == Named(o) /\ o.colony # "" /\ o.target

Accepted(o) ==
  CASE o.kind = "Colony"       -> ColonyAccepted(o)
    [] o.kind = "Agent"        -> AgentAccepted(o)
    [] o.kind = "AgentVersion" -> AgentVersionAccepted(o)
    [] o.kind = "Run"          -> RunAccepted(o)
    [] o.kind = "Tool"         -> ToolAccepted(o)

-----------------------------------------------------------------------------
(* Keys.                                                                   *)

\* The key Apply stores an object under: metadata as the client sent it. A
\* Colony keeps the colony of its metadata too.
StoreKey(o) == [kind |-> o.kind, colony |-> o.colony, name |-> o.name]

\* Wrong: every kind is looked up as if it were hive-scoped.
GetKeyHiveScoped(kind, colony, name) ==
  [kind |-> kind, colony |-> "", name |-> name]

\* The key Get looks an object up under: a Colony is hive-scoped, whatever
\* colony the client names.
GetKey(kind, colony, name) ==
  [kind   |-> kind,
   colony |-> IF kind = "Colony" THEN "" ELSE colony,
   name   |-> name]

-----------------------------------------------------------------------------
(* Errors of the store.                                                    *)

\* mapStoreErr. An error that is none of the store's own (a failed statement,
\* a closed pool, a cancelled context) is internal.
Code(err) ==
  CASE err = "none"         -> "ok"
    [] err = "ErrNotFound"  -> "not_found"
    [] err = "ErrConflict"  -> "aborted"
    [] err = "ErrImmutable" -> "failed_precondition"
    [] err = "ErrInvalidPageToken" -> "invalid_argument"
    [] OTHER                -> "internal"

Codes == {"ok", "not_found", "aborted", "failed_precondition", "internal",
          "invalid_argument"}
=============================================================================
