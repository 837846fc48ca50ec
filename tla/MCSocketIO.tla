----------------------------- MODULE MCSocketIO -----------------------------
(* Values for the constants of SocketIO.                                   *)
EXTENDS SocketIO

AllTimeouts == {-1, 0, 3}
=============================================================================
