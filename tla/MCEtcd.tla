------------------------------- MODULE MCEtcd -------------------------------
(* Small instances of EtcdClient for TLC. *)
EXTENDS EtcdClient, TLC

Symmetry == Permutations(Caller)
=============================================================================
