--------------------------- MODULE MCAgentRouter ---------------------------
(* Instances of AgentRouter for TLC.                                       *)
EXTENDS AgentRouter

CONSTANTS r1, r2, l1

\* Three hash keys, with room below, between and above.
Keys == [h \in Insts |-> CASE h = r1 -> 3 [] h = r2 -> 1 [] OTHER -> 2]
=============================================================================
