--------------------------- MODULE MCEtcdCluster ---------------------------
(* Instances of EtcdCluster for TLC. *)
EXTENDS EtcdCluster

CONSTANTS k1, k2, p1, p2

\* k2 takes the path of k1 after k1 has been removed
MCPathOf == [k \in Keepalive |-> p1]

\* p2 begins with p1, as by_id/10 does with by_id/1
MCUnder == [p \in Path |-> IF p = p1 THEN Path ELSE {p}]
=============================================================================
