---------------------------- MODULE MCEtcdHealth ----------------------------
(* Instances of EtcdHealth for TLC.  Machines are interchangeable. *)
EXTENDS EtcdHealth, TLC

Symmetry == Permutations(Machines)
=============================================================================
