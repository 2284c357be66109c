--------------------------- MODULE MCVirtualConn ---------------------------
(* Instances of VirtualConn for TLC.                                       *)
EXTENDS VirtualConn

\* One connection with two writes of which one is lost, or a write, a Close
\* and two losses; and two connections that share a ConnMgr.
MCLimits == {<<1, 4>>, <<2, 3>>}
=============================================================================
