------------------------------ MODULE MCCluster ------------------------------
(* Instances of Cluster: two replicas, one of which the host may end and the *)
(* other of which a supervising parent runs.                                 *)
EXTENDS Cluster
CONSTANTS a, b
MCReplicas == {a, b}
=============================================================================
