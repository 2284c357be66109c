------------------------------ MODULE Channel ------------------------------
(***************************************************************************)
(* What a connection promises: what comes out is what was put in, each     *)
(* item once and in order.  It may stop at any point, and nothing is said  *)
(* about how many items come out at a time.                                *)
(***************************************************************************)
EXTENDS Integers, Sequences

CONSTANT Items

VARIABLES
    in,         \* everything put in
    out         \* everything that has come out

Init == in = << >> /\ out = << >>

Put == \E m \in Items : in' = Append(in, m) /\ UNCHANGED out

Get == \E n \in Len(out) .. Len(in) : out' = SubSeq(in, 1, n) /\ UNCHANGED in

Next == Put \/ Get

Spec == Init /\ [][Next]_<<in, out>>
=============================================================================
