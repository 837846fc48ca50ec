---------------------------- MODULE MCSocketEngine ----------------------------
(* SocketEngine for TLC.                                                   *)
EXTENDS SocketEngine

\* Every fault, and the two after which the client connects anew in any order.
PlansChecked == {{"crash", "slow"}, {"crash", "gone"}, {"slow_new"}, {"slow_icon"},
                 {"slow_text"}, {"slow_factory"}}
=============================================================================
