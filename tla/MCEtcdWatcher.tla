--------------------------- MODULE MCEtcdWatcher ---------------------------
(* Instances of EtcdWatcher for TLC. *)
EXTENDS EtcdWatcher
=============================================================================
