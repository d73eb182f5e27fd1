-------------------------- MODULE MCGatewaySession --------------------------
(* GatewaySession for TLC: the session objects and the ids are model values    *)
(* and interchangeable.                                                        *)
EXTENDS GatewaySession, TLC

Symmetry == Permutations(Obj) \cup Permutations(Ids)
=============================================================================
