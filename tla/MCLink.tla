------------------------------- MODULE MCLink -------------------------------
(* Instances of Link for TLC.                                              *)
EXTENDS Link

\* Bodies of several lengths, the empty one among them.
MCBody == <<1, 0, 2, 1, 0>>
=============================================================================
