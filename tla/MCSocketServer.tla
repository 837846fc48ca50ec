--------------------------- MODULE MCSocketServer ---------------------------
(* Values for the constants of SocketServer.                               *)
EXTENDS SocketServer

NoLimit     == {-1}
SmallLimits == {-1, 1, 2}
=============================================================================
