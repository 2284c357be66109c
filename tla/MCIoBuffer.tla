----------------------------- MODULE MCIoBuffer -----------------------------
(* Instances of IoBuffer for TLC.                                          *)
EXTENDS IoBuffer
=============================================================================
