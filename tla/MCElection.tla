----------------------------- MODULE MCElection -----------------------------
(* An instance of Election for TLC: the three servers of the cluster maps. *)
EXTENDS Election

ThreeServers == 1..3
ShippedMap   == {{}}
AnyMap       == {{}, ThreeServers}
=============================================================================
