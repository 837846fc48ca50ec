---------------------------- MODULE MCX11FrontEnd ----------------------------
(* X11FrontEnd for TLC: no factory is special.                             *)
EXTENDS X11FrontEnd, TLC

UuidSymmetry == Permutations(Uuids)
=============================================================================
