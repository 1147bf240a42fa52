--------------------------- MODULE MCControlPlane ---------------------------
(* Instances of ControlPlane for TLC, with the failure domains the Machines *)
(* start in: one each, or one Machine in a domain the Cluster has lost.     *)
EXTENDS ControlPlane

OneEach == [m \in 1..Initial |-> <<"a", "b", "c">>[m]]
OneLost == [m \in 1..Initial |-> <<"gone", "a", "b">>[m]]
=============================================================================
