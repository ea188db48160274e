--------------------------- MODULE MCApplyCommand ---------------------------
(* Manifests for TLC's instances of ApplyCommand. *)
EXTENDS ApplyCommand, TLC

CONSTANTS x1, x2

Doc(kind, colony, name, target, spec) ==
  [readable |-> TRUE, known |-> TRUE,
   object |-> [kind |-> kind, colony |-> colony, name |-> name,
               target |-> target, spec |-> spec]]

Colony    == Doc("Colony", "", "c", FALSE, "s1")
Version1  == Doc("AgentVersion", "c", "v", TRUE, "s1")
Version2  == Doc("AgentVersion", "c", "v", TRUE, "s2")
Tool      == Doc("Tool", "c", "t", TRUE, "s1")
RunNoRef  == Doc("Run", "c", "r", FALSE, "s1")
Typo      == [Doc("Agent", "c", "a", FALSE, "s1") EXCEPT !.known = FALSE]
Garbled   == [Doc("Agent", "c", "b", FALSE, "s1") EXCEPT !.readable = FALSE]

\* Two versions that disagree; documents the handler, the client and the
\* reader refuse, each after or before others that could land.
MixedManifests ==
  x1 :> {<<Version1, RunNoRef, Tool>>}
  @@ x2 :> {<<Version2, Colony>>, <<Tool, Typo>>, <<Colony, Garbled>>}

\* A Colony whose manifest names a colony.
ColonyInColony == x1 :> {<<Doc("Colony", "c", "d", FALSE, "s1")>>}
=============================================================================
