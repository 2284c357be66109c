---------------------------- MODULE MCNameServer ----------------------------
(* Instances of NameServer for TLC.                                        *)
EXTENDS NameServer

CONSTANTS s1, s2, h2, n1, c1

\* All services share one name: they compete in one election and queue up for
\* one confirmation.
OneName == [h \in Handles |-> n1]

\* h2 on the second server, the others on the first.
Alternate == [h \in Handles |-> IF h = h2 THEN s2 ELSE s1]

\* Bound: agents reconnect over several connections while no service or router
\* is registered, and over c1, time and again, afterwards, when handlers only
\* look sessions up.
FewConns ==
    \/ handleServices = {} /\ \A n \in Names : ~HasRouters(n)
    \/ \A c \in Conns \ {c1} : Unused(c)

MCSpec == Init /\ [][Next /\ FewConns']_vars /\ Fairness
=============================================================================
