----------------------------- MODULE MCRpcCall -----------------------------
(* Instances of RpcCall for TLC.                                           *)
EXTENDS RpcCall, TLC

CONSTANTS c1, c2, c3
=============================================================================
