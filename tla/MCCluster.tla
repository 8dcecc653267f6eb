------------------------------ MODULE MCCluster ------------------------------
(* An instance of Cluster for TLC: the cluster maps as shipped, which flag  *)
(* nobody alive, and a client of each of two servers.                       *)
EXTENDS Cluster

CONSTANTS f1, r1, r2

ThreeServers == 1..3
AsShipped    == {{}}
OneFile      == [r \in Request |-> f1]
OneEach      == [r \in Request |-> IF r = r1 THEN 1 ELSE 2]
=============================================================================
