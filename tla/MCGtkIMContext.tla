---------------------------- MODULE MCGtkIMContext ----------------------------
(* GtkIMContext for TLC: no factory is special.                            *)
EXTENDS GtkIMContext, TLC

UuidSymmetry == Permutations(Uuids)

\* Handlers nest where each context has its own instance.
DepthChecked == [shared \in BOOLEAN |-> IF shared THEN 0 ELSE 1]
=============================================================================
