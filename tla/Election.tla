------------------------------ MODULE Election ------------------------------
(***************************************************************************)
(* What the name server promises about elections: the services of a name   *)
(* that run for leader are its candidates, a name with candidates has one  *)
(* leader, a leader leads until it gives up or is gone, and then another   *)
(* candidate takes over.  Services come and go, run and give up one at a   *)
(* time.  Which candidate takes over is left open.                         *)
(***************************************************************************)
CONSTANTS
    Names,
    Handles,
    NameOf,         \* the name of a service
    NoHandle

VARIABLES
    members,        \* the services there are
    candidates,     \* those that run, per name
    leader          \* the one that leads, per name

Init ==
    /\ members = {}
    /\ candidates = [n \in Names |-> {}]
    /\ leader = [n \in Names |-> NoHandle]

Enter(h) ==
    /\ h \notin members
    /\ members' = members \cup {h}
    /\ UNCHANGED <<candidates, leader>>

Lead(n, h) == leader' = [leader EXCEPT ![n] = h]

Run(h) ==
    LET n == NameOf[h] IN
    /\ h \in members
    /\ h \notin candidates[n]
    /\ candidates' = [candidates EXCEPT ![n] = @ \cup {h}]
    /\ IF candidates[n] = {} THEN Lead(n, h) ELSE UNCHANGED leader
    /\ UNCHANGED members

Withdraw(h) ==
    LET n == NameOf[h]
        others == candidates[n] \ {h}
    IN
    /\ h \in candidates[n]
    /\ candidates' = [candidates EXCEPT ![n] = others]
    /\ \/ leader[n] # h /\ UNCHANGED leader
       \/ leader[n] = h /\ \E g \in others : Lead(n, g)
       \/ leader[n] = h /\ others = {} /\ Lead(n, NoHandle)

GiveUp(h) == Withdraw(h) /\ UNCHANGED members

\* A service that goes leaves its election in the same step.
Leave(h) ==
    /\ h \in members
    /\ members' = members \ {h}
    /\ \/ Withdraw(h)
       \/ h \notin candidates[NameOf[h]] /\ UNCHANGED <<candidates, leader>>

Next == \E h \in Handles : Enter(h) \/ Run(h) \/ GiveUp(h) \/ Leave(h)

Spec == Init /\ [][Next]_<<members, candidates, leader>>
=============================================================================
