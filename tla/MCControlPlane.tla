--------------------------- MODULE MCControlPlane ---------------------------
(* Instances of ControlPlane for TLC.                                      *)
EXTENDS ControlPlane, TLC

CONSTANTS s1, s2, c1, c2, h1, h2, n1

OneName == [h \in Handles |-> n1]

\* h1 on s1, h2 on s2.
Placement == [h \in Handles |-> IF h = h1 THEN s1 ELSE s2]

\* Everything but `out', which no guard and no property here reads after the
\* step that sets it.
WithoutOut == <<now, sessVars, regVars, electVars, routerVars, tickVars, agentVars, up, down>>
=============================================================================
