---------------------------- MODULE MCNetDialer ----------------------------
(* Instances of NetDialer for TLC.                                         *)
EXTENDS NetDialer
=============================================================================
