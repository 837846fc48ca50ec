---------------------------- MODULE MCScimBridge ----------------------------
(* Values for the constants of ScimBridge.                                 *)
EXTENDS ScimBridge

CONSTANTS app1, app2, x1, x2

OneEach == x1 :> app1 @@ x2 :> app2
=============================================================================
